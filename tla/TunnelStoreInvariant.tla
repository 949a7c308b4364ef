----------------------- MODULE TunnelStoreInvariant -----------------------
(***************************************************************************)
(* The inductive invariant of TunnelStore, and that the steps keep it: the *)
(* launch, add, modify, remove, every answer of the system, and what       *)
(* happens outside the app.  (reload is in TunnelStoreProofs.)             *)
(*                                                                         *)
(* The invariant says four things.  InOrder: what may be in the queue of   *)
(* requests, and behind what.  OneOwner: an item of the keychain is only   *)
(* ever referred to for one configuration.  Disk: what the preferences and *)
(* the keychain hold, and what each request will find there when it is     *)
(* answered.  List: what the list shows of it.  Disk and List are over     *)
(* the preferences, the items, the list, the requests under way (A),       *)
(* the configurations whose last edit failed (F) and whether a request was *)
(* refused (r), because a crash runs through many preferences in one step, *)
(* and reload through many lists.                                          *)
(***************************************************************************)
EXTENDS TunnelStore, NumberLemmas, SequenceTheorems, FiniteSetTheorems, TLAPS

\* Requests about one configuration.
ManagerCalls == [op : Ops \ {"load"}, slot : Slots \cup {NoRef}, manager : Managers]

\* The types of the three parts of the store.
PrefsOK(p) == DOMAIN p \subseteq Ids /\ \A i \in DOMAIN p : p[i] \in Entries
ItemsOK(its) == DOMAIN its \subseteq Refs /\ \A ref \in DOMAIN its : its[ref] \in Bodies
ListOK(T) ==
  /\ DOMAIN T \subseteq Slots
  /\ \A c \in DOMAIN T : T[c] \in Containers /\ (T[c].manager.available => T[c].manager.body # NoBody)

\* The requests of the queue but the load; the configurations that requests of one kind
\* are about.
Asked(cs) == {c \in ToSet(cs) : c.op # "load"}
Of(A, op) == {c.manager.id : c \in {d \in A : d.op = op}}

\* While a removal or a change of the text is under way the stored configuration refers to
\* an item that is gone.
Breaks(c) == c.op = "remove" \/ (c.op = "modify" /\ c.manager.ref # NoProtocol)
Breaking(A) == {c.manager.id : c \in {d \in A : Breaks(d)}}

\* The manager m of configuration i holds what was saved last.
IsGood(p, its, i, m) ==
  IF m.legacy # NoBody THEN m.legacy = p[i].saved ELSE m.ref \in DOMAIN its /\ its[m.ref] = p[i].saved
\* A profile that has not been migrated; a configuration that a launch would list.
IsLegacy(p, i) == p[i].legacy # NoBody
Live(p, its, i) == IsLegacy(p, i) \/ (IF world.ios THEN p[i].ref \in DOMAIN its ELSE p[i].ref # NoRef)
\* The name of configuration i is taken: its last edit did not fail (F), or a launch would
\* list it, or the list of this launch shows it (r: a refusal has left the list behind).
Counts(p, its, A, F, r, i) == i \notin F \/ Live(p, its, i) \/ (~r /\ i \notin Of(A, "drop"))
\* No other configuration has the name of m.
Free(p, its, A, F, r, m) == \A i \in DOMAIN p : i # m.id /\ p[i].name = m.name => ~Counts(p, its, A, F, r, i)
\* The migrations of i that are under way.
Saving(p, A, i) == {c \in A : c.op = "save" /\ c.manager.id = i /\ IsLegacy(p, i)}
\* The manager m in the list is the stored one, or the one being saved by a migration.
Agrees(p, A, i, m) ==
  IF Saving(p, A, i) # {} THEN m.legacy = NoBody /\ \A s \in Saving(p, A, i) : m.ref = s.manager.ref
  ELSE m.ref = p[i].ref /\ (m.legacy # NoBody <=> IsLegacy(p, i))

\* One edit at a time; one load, and no migration or clean-up behind it; the rules of a
\* profile are saved behind its migration only by the migrated manager.
InOrder(cs) ==
  /\ \A j, k \in DOMAIN cs : cs[j].op \in EditOps /\ cs[k].op \in EditOps => j = k
  /\ \A j, k \in DOMAIN cs : j < k /\ cs[j].op = "load" => cs[k].op \notin {"load", "save", "drop"}
  /\ \A j, k \in DOMAIN cs :
       j < k /\ cs[j].op = "save" /\ cs[k].op = "rules" /\ cs[j].manager.id = cs[k].manager.id
         => cs[k].manager.legacy = NoBody

\* The disk: what was saved is there, names are unique, and a profile keeps its text in the
\* configuration.
Kept(p, its, A, F) == \A i \in DOMAIN p \ (F \cup Breaking(A)) : IsGood(p, its, i, p[i])
Distinct(p, its, A, F, r) ==
  \A i, j \in DOMAIN p :
    p[i].name = p[j].name /\ Counts(p, its, A, F, r, i) /\ Counts(p, its, A, F, r, j) => i = j
LegacyOK(m) == m.legacy # NoBody => m.name \in ProfileNames /\ m.ref = NoRef
Legacies(p) == \A i \in DOMAIN p : LegacyOK(p[i])

\* What each request will find when it is answered.
AddOK(p, its, A, F, r, c) == c.op = "add" =>
   /\ c.manager.id \notin DOMAIN p /\ c.manager.name \in Names
   /\ \A d \in A : d.manager.id = c.manager.id => d = c
   /\ Free(p, its, A, F, r, c.manager)
ModOK(p, its, A, F, r, c) == c.op \in {"modify", "rules"} /\ c.manager.id \in DOMAIN p =>
   /\ Free(p, its, A, F, r, c.manager) /\ c.manager.id \notin Of(A, "drop")
   /\ c.manager.name \in Names \/ c.manager.name = p[c.manager.id].name
NewItem(its, c) == c.op \in {"add", "modify"} /\ c.manager.ref # NoProtocol =>
   c.manager.legacy = NoBody /\ c.manager.ref \in DOMAIN its /\ its[c.manager.ref] = c.manager.body
RulesOK(p, its, A, F, r, c) == c.op = "rules" /\ c.manager.id \in DOMAIN p => LET m == c.manager i == m.id IN
   /\ m.name = p[i].name /\ LegacyOK(m)
   /\ i \notin F => IsGood(p, its, i, m)
   /\ (m.legacy # NoBody /\ IsLegacy(p, i)) \/ (m.legacy = NoBody /\ (r \/ Agrees(p, A, i, m)))
SaveOK(p, its, A, F, c) == c.op = "save" => LET m == c.manager i == m.id IN
   /\ m.legacy = NoBody
   /\ i \in DOMAIN p /\ IsLegacy(p, i) =>
       /\ m.name = p[i].name
       /\ i \notin F \cup Breaking(A) => IsGood(p, its, i, m)
       /\ i \in Of(A, "drop") => m.ref = NoRef
DropOK(p, its, c) == c.op = "drop" /\ c.manager.id \in DOMAIN p =>
   IsLegacy(p, c.manager.id) \/ ~Live(p, its, c.manager.id)

Disk(p, its, A, F, r) ==
  /\ Kept(p, its, A, F) /\ Distinct(p, its, A, F, r) /\ Legacies(p)
  /\ \A c \in A : AddOK(p, its, A, F, r, c)
  /\ \A c \in A : ModOK(p, its, A, F, r, c)
  /\ \A c \in A : NewItem(its, c)
  /\ \A c \in A : RulesOK(p, its, A, F, r, c)
  /\ \A c \in A : SaveOK(p, its, A, F, c)
  /\ \A c \in A : DropOK(p, its, c)

\* Who refers to an item: a stored configuration, a listed manager or a request.  One
\* configuration at most does.
Held(p, T, A, ref, i) ==
  \/ i \in DOMAIN p /\ p[i].ref = ref
  \/ \E c \in DOMAIN T : T[c].manager.ref = ref /\ T[c].manager.id = i
  \/ \E c \in A : c.manager.ref = ref /\ c.manager.id = i
OneOwner(p, T, A) == \A ref \in Refs, i, j \in Ids : Held(p, T, A, ref, i) /\ Held(p, T, A, ref, j) => i = j

\* The list: one container for each configuration, its manager holds what was saved, its
\* name is the manager's, no two have the same name.
Id(T, c) == T[c].manager.id
OneEach(T) == \A c, d \in DOMAIN T : Id(T, c) = Id(T, d) => c = d
ShownGood(p, its, T, A, F) == \A c \in DOMAIN T : LET m == T[c].manager IN
   m.id \in DOMAIN p \ (F \cup Breaking(A)) /\ m.ref # NoProtocol => IsGood(p, its, m.id, m)
Named(T) == \A c \in DOMAIN T : T[c].name = T[c].manager.name /\ LegacyOK(T[c].manager)
ShownDistinct(T, r) == \A c, d \in DOMAIN T :
   T[c].name = T[d].name /\ (r => T[c].manager.available = T[d].manager.available) => c = d
\* Unless a refusal has left the list behind, it shows what is stored and nothing that
\* create removes, and agrees with it.
NoneDropped(T, A, r) == r \/ \A c \in DOMAIN T : Id(T, c) \notin Of(A, "drop")
AllShown(p, T, A, r) == r \/ \A i \in DOMAIN p :
   \/ \E c \in DOMAIN T : Id(T, c) = i
   \/ i \in Of(A, "drop") \/ (IsLegacy(p, i) /\ i \notin Of(A, "save"))
ShownAgree(p, T, A, r) == r \/ \A c \in DOMAIN T : Id(T, c) \in DOMAIN p \ Of(A, "modify") =>
   T[c].name = p[Id(T, c)].name /\ Agrees(p, A, Id(T, c), T[c].manager)
\* What each edit will find in the list when it is answered.
Adding(T, r, c) == c.op = "add" =>
   /\ c.manager.available
   /\ c.slot \notin DOMAIN T
   /\ \A d \in DOMAIN T : Id(T, d) # c.manager.id /\ (T[d].name = c.manager.name => r /\ ~T[d].manager.available)
Modifying(p, its, T, A, c) ==
  c.op = "modify" /\ c.manager.ref # NoProtocol /\ c.manager.id \in DOMAIN p /\ c.slot \in DOMAIN T => LET m == c.manager IN
   /\ T[c.slot].manager = m /\ m.available /\ p[m.id].ref \notin DOMAIN its
   /\ \A s \in Saving(p, A, m.id) : s.manager.ref \notin DOMAIN its
Removing(p, T, r, c) == c.op = "remove" /\ c.manager.id \in DOMAIN p /\ c.slot \in DOMAIN T => r \/ Id(T, c.slot) = c.manager.id

\* A listed manager whose migration is under way has no text of its own any more.
SavedWithout(T, A) == \A c \in DOMAIN T : \A d \in A :
   d.op = "save" /\ d.manager.id = Id(T, c) => T[c].manager.legacy = NoBody

List(p, its, T, A, F, r) ==
  /\ OneEach(T) /\ SavedWithout(T, A) /\ ShownGood(p, its, T, A, F) /\ Named(T) /\ ShownDistinct(T, r) /\ NoneDropped(T, A, r)
  /\ AllShown(p, T, A, r) /\ ShownAgree(p, T, A, r)
  /\ \A c \in A : Adding(T, r, c) /\ Modifying(p, its, T, A, c) /\ Removing(p, T, r, c)
  /\ \A c \in A : c.op \in EditOps => c.slot \in Slots

\* The inductive invariant.
StoreInv ==
  /\ InOrder(calls) /\ OneOwner(prefs, tunnels, Asked(calls))
  /\ Disk(prefs, items, Asked(calls), failed, refused)
  /\ List(prefs, items, tunnels, Asked(calls), failed, refused)

-----------------------------------------------------------------------------
(* An answer of the system, for the disk.                                  *)

\* A and what is left of it when c has been answered.
Answers(A, c, B) ==
  /\ A \subseteq ManagerCalls /\ c \in A /\ B \subseteq A /\ A \subseteq B \cup {c}
  /\ c.op \in EditOps => \A d \in B : d.op \notin EditOps
  /\ c.op = "save" => \A d \in B : d.op = "rules" /\ d.manager.id = c.manager.id => d.manager.legacy = NoBody

\* The fields of a request.
LEMMA CallFields ==
  ASSUME NEW c \in ManagerCalls
  PROVE  /\ c.op \in {"add", "modify", "rules", "remove", "save", "drop"} /\ c.manager \in Managers
         /\ c.manager.id \in Ids /\ c.manager.name \in AllNames
         /\ c.manager.ref \in Refs \cup {NoRef, NoProtocol} /\ c.manager.legacy \in Bodies \cup {NoBody}
         /\ c.manager.body \in Bodies \cup {NoBody} /\ c.manager.available \in BOOLEAN
BY DEF ManagerCalls, Ops, Managers

\* An answer changes what is asked for about the configuration of that request only.
LEMMA OfLeft ==
  ASSUME NEW A, NEW c, NEW B, Answers(A, c, B), NEW op
  PROVE  Of(B, op) \subseteq Of(A, op) /\ Of(A, op) \subseteq Of(B, op) \cup {c.manager.id}
         /\ (c.op # op => Of(B, op) = Of(A, op))
BY DEF Answers, Of

\* An answer ends at most the edit it answers.
LEMMA BreakingLeft ==
  ASSUME NEW A, NEW c, NEW B, Answers(A, c, B)
  PROVE  /\ Breaking(B) \subseteq Breaking(A) /\ Breaking(A) \subseteq Breaking(B) \cup {c.manager.id}
         /\ c.op \in EditOps => Breaking(B) = {}
         /\ ~Breaks(c) => Breaking(B) = Breaking(A)
BY DEF Answers, Breaking, Breaks, EditOps

\* add: a configuration is stored that was not, under a free name.
LEMMA AnswerAdd ==
  ASSUME NEW p, NEW its, NEW A, NEW c, NEW B, NEW F, NEW r \in BOOLEAN, PrefsOK(p), ItemsOK(its),
         Disk(p, its, A, F, r), Answers(A, c, B), c.op = "add", Possible(p, c)
  PROVE  Disk(Stored(p, c), its, B, F, r) /\ PrefsOK(Stored(p, c))
<1> DEFINE m == c.manager
           i0 == m.id
<1>1. PICK q : q = Stored(p, c)
  OBVIOUS
<1>2. m \in Managers /\ i0 \in Ids /\ m.name \in AllNames /\ c \in A /\ m.ref # NoProtocol
  BY CallFields DEF Answers, Possible
<1>3. /\ DOMAIN q = DOMAIN p \cup {i0} /\ q[i0] = Entry(m, m.body) /\ i0 \notin DOMAIN p
      /\ \A i \in DOMAIN p : q[i] = p[i] /\ i # i0
  BY <1>1, <1>2 DEF Stored, Disk, AddOK, With
<1>4. m.legacy = NoBody /\ m.ref \in DOMAIN its /\ its[m.ref] = m.body /\ m.name \in Names
  BY <1>2 DEF Disk, NewItem, AddOK
<1>5. q[i0].name = m.name /\ q[i0].ref = m.ref /\ q[i0].legacy = NoBody /\ q[i0].saved = m.body
  BY <1>3, <1>4 DEF Entry
<1>6. PrefsOK(q)
  <2>1. q[i0] \in Entries
    BY <1>2, <1>3, <1>4 DEF Entry, Entries, ItemsOK
  <2> QED
    BY <1>2, <1>3, <2>1 DEF PrefsOK
<1>7. Breaking(B) = {} /\ Breaking(A) = {} /\ \A d \in B : d \in A /\ d.op \notin EditOps /\ d.manager.id # i0
  <2>1. \A d \in B : d \in A /\ d.op \notin EditOps
    BY DEF Answers, EditOps
  <2>2. \A d \in A : d.manager.id = i0 => d = c
    BY <1>2 DEF Disk, AddOK
  <2>3. Breaking(B) = {} /\ Breaking(B) = Breaking(A)
    BY BreakingLeft DEF EditOps, Breaks
  <2> QED
    BY <2>1, <2>2, <2>3 DEF EditOps
<1>8. Of(B, "drop") = Of(A, "drop")
  BY OfLeft
<1> HIDE DEF m, i0
<1>9. \A i \in DOMAIN p : Live(q, its, i) = Live(p, its, i) /\ IsLegacy(q, i) = IsLegacy(p, i)
                         /\ Counts(q, its, B, F, r, i) = Counts(p, its, A, F, r, i)
  BY <1>3, <1>8 DEF Live, IsLegacy, Counts
<1>10. Kept(q, its, B, F)
  BY <1>3, <1>4, <1>5, <1>7 DEF Disk, Kept, IsGood
<1>11. Distinct(q, its, B, F, r)
  <2>1. \A i \in DOMAIN p : p[i].name = m.name => ~Counts(p, its, A, F, r, i)
    BY <1>2, <1>3 DEF Disk, AddOK, Free, m, i0
  <2> QED
    BY <1>3, <1>5, <1>9, <2>1 DEF Disk, Distinct
<1>12. Legacies(q)
  BY <1>3, <1>5 DEF Disk, Legacies, LegacyOK
<1>13. \A d \in B : AddOK(q, its, B, F, r, d) /\ ModOK(q, its, B, F, r, d) /\ NewItem(its, d) /\ RulesOK(q, its, B, F, r, d)
  BY <1>7 DEF EditOps, AddOK, ModOK, NewItem, RulesOK
<1>14. \A d \in B : SaveOK(q, its, B, F, d)
  <2> SUFFICES ASSUME NEW d \in B PROVE SaveOK(q, its, B, F, d)
    OBVIOUS
  <2>1. SaveOK(p, its, A, F, d)
    BY <1>7 DEF Disk
  <2> QED
    BY <2>1, <1>3, <1>7, <1>8, <1>9 DEF SaveOK, IsGood, IsLegacy
<1>15. \A d \in B : DropOK(q, its, d)
  BY <1>3, <1>7, <1>9 DEF Disk, DropOK
<1> QED
  BY <1>1, <1>6, <1>10, <1>11, <1>12, <1>13, <1>14, <1>15 DEF Disk

\* What counts less is expected of less.
LEMMA Weaken ==
  ASSUME NEW p, NEW its, NEW A, NEW B \in SUBSET A, NEW F, NEW G, NEW r \in BOOLEAN, NEW s \in BOOLEAN,
         Disk(p, its, A, F, r), r => s,
         \A i \in DOMAIN p : /\ i \in F => i \in G
                             /\ i \in Breaking(A) => i \in G \cup Breaking(B)
                             /\ s \/ (i \in Of(A, "drop") => i \in Of(B, "drop"))
                             /\ s \/ Saving(p, A, i) \subseteq Saving(p, B, i)
  PROVE  Disk(p, its, B, G, s)
<1>1. Of(B, "drop") \subseteq Of(A, "drop")
  BY DEF Of
<1>2. \A i \in DOMAIN p : Counts(p, its, B, G, s, i) => Counts(p, its, A, F, r, i)
  BY <1>1 DEF Counts
<1>3. \A m : Free(p, its, A, F, r, m) => Free(p, its, B, G, s, m)
  BY <1>2 DEF Free
<1>4. \A i \in DOMAIN p : i \notin G \cup Breaking(B) => i \notin F \cup Breaking(A)
  OBVIOUS
<1>5. Kept(p, its, B, G)
  BY <1>4 DEF Disk, Kept
<1>6. Distinct(p, its, B, G, s)
  BY <1>2 DEF Disk, Distinct
<1>7. \A c \in B : AddOK(p, its, B, G, s, c)
  BY <1>3 DEF Disk, AddOK
<1>8. \A c \in B : ModOK(p, its, B, G, s, c)
  BY <1>1, <1>3 DEF Disk, ModOK
<1>9. \A c \in B : RulesOK(p, its, B, G, s, c)
  <2> SUFFICES ASSUME NEW c \in B, c.op = "rules", c.manager.id \in DOMAIN p PROVE RulesOK(p, its, B, G, s, c)
    BY DEF RulesOK
  <2>1. RulesOK(p, its, A, F, r, c)
    BY DEF Disk
  <2>2. s \/ Saving(p, A, c.manager.id) = Saving(p, B, c.manager.id)
    BY DEF Saving
  <2>3. s \/ (Agrees(p, A, c.manager.id, c.manager) => Agrees(p, B, c.manager.id, c.manager))
    BY <2>2 DEF Agrees
  <2>4. c.manager.id \in F => c.manager.id \in G
    OBVIOUS
  <2> QED
    BY <2>1, <2>3, <2>4 DEF RulesOK
<1>10. \A c \in B : SaveOK(p, its, B, G, c)
  <2> SUFFICES ASSUME NEW c \in B, c.op = "save" PROVE SaveOK(p, its, B, G, c)
    BY DEF SaveOK
  <2>1. SaveOK(p, its, A, F, c)
    BY DEF Disk
  <2> QED
    BY <1>1, <1>4, <2>1 DEF SaveOK
<1> QED
  BY <1>5, <1>6, <1>7, <1>8, <1>9, <1>10 DEF Disk

\* modify: the new name is free and the new item holds what is saved.
LEMMA AnswerModify ==
  ASSUME NEW p, NEW its, NEW A, NEW c, NEW B, NEW F, NEW r \in BOOLEAN, PrefsOK(p), ItemsOK(its),
         Disk(p, its, A, F, r), Answers(A, c, B), c.op = "modify", Possible(p, c)
  PROVE  Disk(Stored(p, c), its, B, F \ {c.manager.id}, r) /\ PrefsOK(Stored(p, c))
<1> DEFINE m == c.manager
           i0 == m.id
           G == F \ {i0}
<1>1. PICK q : q = Stored(p, c)
  OBVIOUS
<1>2. m \in Managers /\ i0 \in Ids /\ m.name \in AllNames /\ c \in A /\ m.ref # NoProtocol /\ i0 \in DOMAIN p
  BY CallFields DEF Answers, Possible
<1>3. DOMAIN q = DOMAIN p /\ q[i0] = Entry(m, m.body) /\ \A i \in DOMAIN p \ {i0} : q[i] = p[i]
  BY <1>1, <1>2 DEF Stored, With
<1>4. m.legacy = NoBody /\ m.ref \in DOMAIN its /\ its[m.ref] = m.body
  BY <1>2 DEF Disk, NewItem
<1>5. q[i0].name = m.name /\ q[i0].ref = m.ref /\ q[i0].legacy = NoBody /\ q[i0].saved = m.body
  BY <1>3, <1>4 DEF Entry
<1>6. PrefsOK(q)
  <2>1. q[i0] \in Entries
    BY <1>2, <1>3, <1>4 DEF Entry, Entries, ItemsOK
  <2> QED
    BY <1>2, <1>3, <2>1 DEF PrefsOK
<1>7. Breaking(B) = {} /\ Breaking(A) \subseteq {i0} /\ \A d \in B : d \in A /\ d.op \notin EditOps
  <2>1. \A d \in B : d \in A /\ d.op \notin EditOps
    BY DEF Answers, EditOps
  <2>2. Breaking(B) = {} /\ Breaking(A) \subseteq Breaking(B) \cup {i0}
    BY BreakingLeft DEF EditOps
  <2> QED
    BY <2>1, <2>2
<1>8. Of(B, "drop") = Of(A, "drop")
  BY OfLeft
<1>9. i0 \notin Of(A, "drop") /\ \A i \in DOMAIN p : i # i0 /\ p[i].name = m.name => ~Counts(p, its, A, F, r, i)
  BY <1>2 DEF Disk, ModOK, Free
<1> HIDE DEF m, i0
<1>10. \A i \in DOMAIN p \ {i0} : Live(q, its, i) = Live(p, its, i) /\ IsLegacy(q, i) = IsLegacy(p, i)
                         /\ Counts(q, its, B, G, r, i) = Counts(p, its, A, F, r, i)
  BY <1>3, <1>8 DEF Live, IsLegacy, Counts
<1>11. Kept(q, its, B, G)
  BY <1>3, <1>4, <1>5, <1>7 DEF Disk, Kept, IsGood
<1>12. Distinct(q, its, B, G, r)
  BY <1>3, <1>5, <1>9, <1>10 DEF Disk, Distinct
<1>13. Legacies(q)
  BY <1>3, <1>5 DEF Disk, Legacies, LegacyOK
<1>14. \A d \in B : AddOK(q, its, B, G, r, d) /\ ModOK(q, its, B, G, r, d) /\ NewItem(its, d) /\ RulesOK(q, its, B, G, r, d)
  BY <1>7 DEF EditOps, AddOK, ModOK, NewItem, RulesOK
<1>15. \A d \in B : SaveOK(q, its, B, G, d)
  <2> SUFFICES ASSUME NEW d \in B PROVE SaveOK(q, its, B, G, d)
    OBVIOUS
  <2>1. SaveOK(p, its, A, F, d)
    BY <1>7 DEF Disk
  <2>2. CASE d.manager.id = i0
    BY <2>1, <2>2, <1>5 DEF SaveOK, IsLegacy
  <2>3. CASE d.manager.id # i0
    BY <2>1, <2>3, <1>3, <1>7, <1>8, <1>10 DEF SaveOK, IsGood
  <2> QED
    BY <2>2, <2>3
<1>16. \A d \in B : DropOK(q, its, d)
  <2> SUFFICES ASSUME NEW d \in B, d.op = "drop" PROVE DropOK(q, its, d)
    BY DEF DropOK
  <2>1. d.manager.id # i0
    BY <1>7, <1>9 DEF Of
  <2> QED
    BY <1>3, <1>7, <1>10, <2>1 DEF Disk, DropOK
<1> QED
  BY <1>1, <1>6, <1>11, <1>12, <1>13, <1>14, <1>15, <1>16 DEF Disk, G, i0, m

\* The on-demand rules are saved: with the manager as the list has it, the text stays.
LEMMA AnswerRules ==
  ASSUME NEW p, NEW its, NEW A, NEW c, NEW B, NEW F, NEW r \in BOOLEAN, PrefsOK(p), ItemsOK(its),
         Disk(p, its, A, F, r), Answers(A, c, B), c.op = "rules", Possible(p, c)
  PROVE  Disk(Stored(p, c), its, B, F, r) /\ PrefsOK(Stored(p, c))
<1> DEFINE m == c.manager
           i0 == m.id
<1>1. PICK q : q = Stored(p, c)
  OBVIOUS
<1>2. m \in Managers /\ i0 \in Ids /\ m.name \in AllNames /\ c \in A /\ m.ref # NoProtocol /\ i0 \in DOMAIN p
  BY CallFields DEF Answers, Possible
<1>3. DOMAIN q = DOMAIN p /\ q[i0] = Entry(m, p[i0].saved) /\ \A i \in DOMAIN p \ {i0} : q[i] = p[i]
  BY <1>1, <1>2 DEF Stored, With
<1>4. /\ m.name = p[i0].name /\ LegacyOK(m)
      /\ i0 \notin F => IsGood(p, its, i0, m)
      /\ m.legacy # NoBody => IsLegacy(p, i0)
  BY <1>2 DEF Disk, RulesOK
<1>5. q[i0].name = m.name /\ q[i0].ref = m.ref /\ q[i0].legacy = m.legacy /\ q[i0].saved = p[i0].saved
  BY <1>3 DEF Entry
<1>6. PrefsOK(q)
  <2>1. q[i0] \in Entries
    BY <1>2, <1>3 DEF PrefsOK, Entry, Entries, Managers
  <2> QED
    BY <1>2, <1>3, <2>1 DEF PrefsOK
<1>7. Breaking(B) = {} /\ Breaking(A) = {} /\ \A d \in B : d \in A /\ d.op \notin EditOps
  <2>1. \A d \in B : d \in A /\ d.op \notin EditOps
    BY DEF Answers, EditOps
  <2>2. Breaking(B) = {} /\ Breaking(A) = Breaking(B)
    BY BreakingLeft DEF EditOps, Breaks
  <2> QED
    BY <2>1, <2>2
<1>8. Of(B, "drop") = Of(A, "drop")
  BY OfLeft
<1>9. i0 \notin Of(A, "drop") /\ \A i \in DOMAIN p : i # i0 /\ p[i].name = m.name => ~Counts(p, its, A, F, r, i)
  BY <1>2 DEF Disk, ModOK, Free
<1> HIDE DEF m, i0
<1>10. \A i \in DOMAIN p \ {i0} : Live(q, its, i) = Live(p, its, i) /\ IsLegacy(q, i) = IsLegacy(p, i)
                         /\ Counts(q, its, B, F, r, i) = Counts(p, its, A, F, r, i)
  BY <1>3, <1>8 DEF Live, IsLegacy, Counts
<1>11. Kept(q, its, B, F)
  BY <1>3, <1>4, <1>5, <1>7 DEF Disk, Kept, IsGood
<1>12. Distinct(q, its, B, F, r)
  BY <1>3, <1>5, <1>9, <1>10 DEF Disk, Distinct
<1>13. Legacies(q)
  BY <1>3, <1>4, <1>5 DEF Disk, Legacies, LegacyOK
<1>14. \A d \in B : AddOK(q, its, B, F, r, d) /\ ModOK(q, its, B, F, r, d) /\ NewItem(its, d) /\ RulesOK(q, its, B, F, r, d)
  BY <1>7 DEF EditOps, AddOK, ModOK, NewItem, RulesOK
<1>15. \A d \in B : SaveOK(q, its, B, F, d)
  <2> SUFFICES ASSUME NEW d \in B PROVE SaveOK(q, its, B, F, d)
    OBVIOUS
  <2>1. SaveOK(p, its, A, F, d)
    BY <1>7 DEF Disk
  <2>2. CASE d.manager.id = i0
    BY <2>1, <2>2, <1>2, <1>4, <1>5, <1>7, <1>8 DEF SaveOK, IsLegacy, IsGood
  <2>3. CASE d.manager.id # i0
    BY <2>1, <2>3, <1>3, <1>7, <1>8, <1>10 DEF SaveOK, IsGood
  <2> QED
    BY <2>2, <2>3
<1>16. \A d \in B : DropOK(q, its, d)
  <2> SUFFICES ASSUME NEW d \in B, d.op = "drop" PROVE DropOK(q, its, d)
    BY DEF DropOK
  <2>1. d.manager.id # i0
    BY <1>7, <1>9 DEF Of
  <2> QED
    BY <1>3, <1>7, <1>10, <2>1 DEF Disk, DropOK
<1> QED
  BY <1>1, <1>6, <1>11, <1>12, <1>13, <1>14, <1>15, <1>16 DEF Disk, i0, m

\* create's clean-up: what it removes has no item.
LEMMA AnswerDrop ==
  ASSUME NEW p, NEW its, NEW A, NEW c, NEW B, NEW F, NEW G, NEW r \in BOOLEAN, PrefsOK(p),
         Disk(p, its, A, F, r), Answers(A, c, B), c.op \in {"remove", "drop"}, Possible(p, c),
         \A i \in DOMAIN p \ {c.manager.id} : i \in G <=> i \in F
  PROVE  Disk(Stored(p, c), its, B, G, r) /\ PrefsOK(Stored(p, c))
<1> DEFINE i0 == c.manager.id
<1>1. PICK q : q = Stored(p, c)
  OBVIOUS
<1>2. i0 \in DOMAIN p /\ c \in A
  BY DEF Answers, Possible
<1>3. DOMAIN q = DOMAIN p \ {i0} /\ \A i \in DOMAIN q : q[i] = p[i]
  BY <1>1 DEF Stored, Without
<1>4. PrefsOK(q)
  BY <1>3 DEF PrefsOK
<1>5. Breaking(A) \subseteq Breaking(B) \cup {i0} /\ Breaking(B) \subseteq Breaking(A) /\ B \subseteq A
  BY BreakingLeft DEF Answers
<1>6. Of(B, "drop") \subseteq Of(A, "drop") /\ Of(A, "drop") \subseteq Of(B, "drop") \cup {i0}
  BY OfLeft
<1>7. \A i \in DOMAIN q : Saving(q, B, i) = Saving(p, A, i)
  BY <1>3 DEF Saving, Answers, IsLegacy
<1> HIDE DEF i0
<1>8. \A i \in DOMAIN q : Live(q, its, i) = Live(p, its, i) /\ IsLegacy(q, i) = IsLegacy(p, i)
                         /\ Counts(q, its, B, G, r, i) = Counts(p, its, A, F, r, i)
  BY <1>3, <1>6 DEF Live, IsLegacy, Counts, i0
<1>9. \A i \in DOMAIN q : \A m : (IsGood(q, its, i, m) <=> IsGood(p, its, i, m)) /\ (Agrees(q, B, i, m) <=> Agrees(p, A, i, m))
  BY <1>3, <1>7, <1>8 DEF IsGood, Agrees
<1>10. \A m : Free(p, its, A, F, r, m) => Free(q, its, B, G, r, m)
  BY <1>3, <1>8 DEF Free
<1>11. Kept(q, its, B, G)
  BY <1>3, <1>5, <1>9 DEF Disk, Kept, i0
<1>12. Distinct(q, its, B, G, r)
  BY <1>3, <1>8 DEF Disk, Distinct
<1>13. Legacies(q)
  BY <1>3 DEF Disk, Legacies
<1>14. \A d \in B : AddOK(q, its, B, G, r, d)
  BY <1>3, <1>5, <1>10 DEF Disk, AddOK
<1>15. \A d \in B : ModOK(q, its, B, G, r, d)
  BY <1>3, <1>5, <1>6, <1>10 DEF Disk, ModOK
<1>16. \A d \in B : NewItem(its, d)
  BY <1>5 DEF Disk
<1>17. \A d \in B : RulesOK(q, its, B, G, r, d)
  <2> SUFFICES ASSUME NEW d \in B, d.op = "rules", d.manager.id \in DOMAIN q PROVE RulesOK(q, its, B, G, r, d)
    BY DEF RulesOK
  <2>1. RulesOK(p, its, A, F, r, d)
    BY <1>5 DEF Disk
  <2> QED
    BY <2>1, <1>3, <1>8, <1>9 DEF RulesOK, i0
<1>18. \A d \in B : SaveOK(q, its, B, G, d)
  <2> SUFFICES ASSUME NEW d \in B, d.op = "save" PROVE SaveOK(q, its, B, G, d)
    BY DEF SaveOK
  <2>1. SaveOK(p, its, A, F, d)
    BY <1>5 DEF Disk
  <2>2. d.manager.id \in DOMAIN q => d.manager.id \in DOMAIN p \ {c.manager.id}
    BY <1>3 DEF i0
  <2> QED
    BY <2>1, <2>2, <1>3, <1>5, <1>6, <1>8, <1>9 DEF SaveOK, i0
<1>19. \A d \in B : DropOK(q, its, d)
  BY <1>3, <1>5, <1>8 DEF Disk, DropOK
<1> QED
  BY <1>1, <1>4, <1>11, <1>12, <1>13, <1>14, <1>15, <1>16, <1>17, <1>18, <1>19 DEF Disk

\* create's migration: the new item holds the text of the profile.
LEMMA AnswerSave ==
  ASSUME NEW p, NEW its, NEW A, NEW c, NEW B, NEW F, NEW r \in BOOLEAN, PrefsOK(p), ItemsOK(its),
         Disk(p, its, A, F, r), Answers(A, c, B), c.op = "save", Possible(p, c)
  PROVE  Disk(Stored(p, c), its, B, F, r) /\ PrefsOK(Stored(p, c))
<1> DEFINE m == c.manager
           i0 == m.id
<1>1. PICK q : q = Stored(p, c)
  OBVIOUS
<1>2. m \in Managers /\ i0 \in Ids /\ m.name \in AllNames /\ c \in A /\ m.ref # NoProtocol /\ i0 \in DOMAIN p
      /\ IsLegacy(p, i0)
  BY CallFields DEF Answers, Possible, IsLegacy
<1>3. DOMAIN q = DOMAIN p /\ q[i0] = Entry(m, p[i0].saved) /\ \A i \in DOMAIN p \ {i0} : q[i] = p[i]
  BY <1>1, <1>2 DEF Stored, With
<1>4. SaveOK(p, its, A, F, c)
  BY <1>2 DEF Disk
<1>5. /\ m.name = p[i0].name /\ m.legacy = NoBody
      /\ i0 \notin F \cup Breaking(A) => IsGood(p, its, i0, m)
      /\ i0 \in Of(A, "drop") => m.ref = NoRef
  BY <1>2, <1>4 DEF SaveOK
<1>6. q[i0].name = m.name /\ q[i0].ref = m.ref /\ q[i0].legacy = NoBody /\ q[i0].saved = p[i0].saved
  BY <1>3, <1>5 DEF Entry
<1>7. PrefsOK(q)
  <2>1. q[i0] \in Entries
    BY <1>2, <1>3 DEF PrefsOK, Entry, Entries, Managers
  <2> QED
    BY <1>2, <1>3, <2>1 DEF PrefsOK
<1>8. Breaking(B) = Breaking(A) /\ B \subseteq A /\ Of(B, "drop") = Of(A, "drop")
  BY BreakingLeft, OfLeft DEF Answers, Breaks
<1>9. \A d \in B : d.op = "rules" /\ d.manager.id = i0 => d.manager.legacy = NoBody
  BY DEF Answers
<1>10. \A i \in DOMAIN p \ {i0} : Saving(q, B, i) = Saving(p, A, i)
  BY <1>3 DEF Saving, Answers, IsLegacy
<1>11. Saving(q, B, i0) = {} /\ c \in Saving(p, A, i0)
  BY <1>2, <1>6 DEF Saving, IsLegacy
<1> HIDE DEF m, i0
<1>12. \A i \in DOMAIN p \ {i0} : Live(q, its, i) = Live(p, its, i) /\ IsLegacy(q, i) = IsLegacy(p, i)
                         /\ Counts(q, its, B, F, r, i) = Counts(p, its, A, F, r, i)
  BY <1>3, <1>8 DEF Live, IsLegacy, Counts
<1>13. Counts(p, its, A, F, r, i0) /\ Live(p, its, i0) /\ ~IsLegacy(q, i0)
  BY <1>2, <1>6 DEF Counts, Live, IsLegacy
<1>14. \A i \in DOMAIN p : q[i].name = p[i].name /\ q[i].saved = p[i].saved
                          /\ (Counts(q, its, B, F, r, i) => Counts(p, its, A, F, r, i))
  BY <1>3, <1>5, <1>6, <1>12, <1>13
<1>15. \A n : Free(p, its, A, F, r, n) => Free(q, its, B, F, r, n)
  BY <1>3, <1>14 DEF Free
<1>16. \A i \in DOMAIN p : \A n : (IsGood(q, its, i, n) <=> IsGood(p, its, i, n))
  BY <1>14 DEF IsGood
<1>17. Kept(q, its, B, F)
  <2> SUFFICES ASSUME NEW i \in DOMAIN q \ (F \cup Breaking(B)) PROVE IsGood(q, its, i, q[i])
    BY DEF Kept
  <2>1. CASE i = i0
    <3>1. IsGood(p, its, i0, m)
      BY <2>1, <1>5, <1>8
    <3> QED
      BY <3>1, <2>1, <1>5, <1>6 DEF IsGood
  <2>2. CASE i # i0
    BY <2>2, <1>3, <1>8, <1>16 DEF Disk, Kept
  <2> QED
    BY <2>1, <2>2
<1>18. Distinct(q, its, B, F, r)
  BY <1>3, <1>14 DEF Disk, Distinct
<1>19. Legacies(q)
  BY <1>3, <1>6 DEF Disk, Legacies, LegacyOK
<1>20. \A d \in B : AddOK(q, its, B, F, r, d)
  BY <1>3, <1>8, <1>15 DEF Disk, AddOK
<1>21. \A d \in B : ModOK(q, its, B, F, r, d)
  BY <1>3, <1>8, <1>14, <1>15 DEF Disk, ModOK
<1>22. \A d \in B : NewItem(its, d)
  BY <1>8 DEF Disk
<1>23. \A d \in B : RulesOK(q, its, B, F, r, d)
  <2> SUFFICES ASSUME NEW d \in B, d.op = "rules", d.manager.id \in DOMAIN q PROVE RulesOK(q, its, B, F, r, d)
    BY DEF RulesOK
  <2>1. RulesOK(p, its, A, F, r, d)
    BY <1>8 DEF Disk
  <2>2. CASE d.manager.id = i0
    <3>1. d.manager.legacy = NoBody
      BY <2>2, <1>9
    <3>2. r \/ Agrees(p, A, i0, d.manager)
      BY <2>1, <2>2, <3>1, <1>2 DEF RulesOK
    <3>3. r \/ d.manager.ref = m.ref
      BY <3>2, <1>11 DEF Agrees, m
    <3>4. r \/ Agrees(q, B, i0, d.manager)
      BY <3>1, <3>3, <1>6, <1>11, <1>13 DEF Agrees
    <3> QED
      BY <2>1, <2>2, <3>1, <3>4, <1>2, <1>14, <1>16 DEF RulesOK
  <2>3. CASE d.manager.id # i0
    <3>1. Agrees(q, B, d.manager.id, d.manager) <=> Agrees(p, A, d.manager.id, d.manager)
      BY <2>3, <1>3, <1>10, <1>12 DEF Agrees
    <3> QED
      BY <2>1, <2>3, <3>1, <1>3, <1>12, <1>16 DEF RulesOK
  <2> QED
    BY <2>2, <2>3
<1>24. \A d \in B : SaveOK(q, its, B, F, d)
  <2> SUFFICES ASSUME NEW d \in B, d.op = "save" PROVE SaveOK(q, its, B, F, d)
    BY DEF SaveOK
  <2>1. SaveOK(p, its, A, F, d)
    BY <1>8 DEF Disk
  <2>2. CASE d.manager.id = i0
    BY <2>1, <2>2, <1>13 DEF SaveOK
  <2>3. CASE d.manager.id # i0
    BY <2>1, <2>3, <1>3, <1>8, <1>12, <1>16 DEF SaveOK
  <2> QED
    BY <2>2, <2>3
<1>25. \A d \in B : DropOK(q, its, d)
  <2> SUFFICES ASSUME NEW d \in B, d.op = "drop", d.manager.id \in DOMAIN q PROVE DropOK(q, its, d)
    BY DEF DropOK
  <2>1. DropOK(p, its, d) /\ d.manager.id \in Of(A, "drop")
    BY <1>8 DEF Disk, Of
  <2>2. CASE d.manager.id = i0
    BY <2>1, <2>2, <1>5, <1>6, <1>13, StoreAssumption DEF DropOK, Live, ItemsOK, NoRef
  <2>3. CASE d.manager.id # i0
    BY <2>1, <2>3, <1>3, <1>12 DEF DropOK
  <2> QED
    BY <2>2, <2>3
<1> QED
  BY <1>1, <1>7, <1>17, <1>18, <1>19, <1>20, <1>21, <1>22, <1>23, <1>24, <1>25 DEF Disk, i0, m

-----------------------------------------------------------------------------
(* A request of the app, with the items it makes and deletes.              *)

Same(its, new, ref) == ref \in DOMAIN its => ref \in DOMAIN new /\ new[ref] = its[ref]

\* Requests C join A, items its become new.
Joins(p, its, new, A, C, F, r) ==
  /\ \A i \in DOMAIN p \ (F \cup Breaking(A \cup C)) : Same(its, new, p[i].ref)
  /\ \A d \in A : d.manager.id \notin F \cup Breaking(A \cup C) \/ d.op \in {"add", "modify", "rules"} =>
       Same(its, new, d.manager.ref)
  /\ \A i \in DOMAIN p : Live(p, new, i) => Live(p, its, i)
  /\ \A d \in C : /\ d.op # "drop"
                  /\ \A e \in A : e.op = "add" => e.manager.id # d.manager.id
                  /\ \A e \in A : d.op = "save" /\ IsLegacy(p, d.manager.id) /\ e.op = "rules"
                                  /\ e.manager.id = d.manager.id /\ d.manager.id \in DOMAIN p
                                    => r \/ e.manager.legacy # NoBody
  /\ \A d \in C : /\ AddOK(p, new, A \cup C, F, r, d) /\ ModOK(p, new, A \cup C, F, r, d) /\ NewItem(new, d)
                  /\ RulesOK(p, new, A \cup C, F, r, d) /\ SaveOK(p, new, A \cup C, F, d)

\* A request that joins leaves the disk in order.
LEMMA Join ==
  ASSUME NEW p, NEW its, NEW new, NEW A, NEW C, NEW F, NEW r \in BOOLEAN,
         Disk(p, its, A, F, r), Joins(p, its, new, A, C, F, r)
  PROVE  Disk(p, new, A \cup C, F, r)
<1> DEFINE B == A \cup C
<1>1. Of(B, "drop") = Of(A, "drop")
  BY DEF Of, Joins
<1>2. Breaking(A) \subseteq Breaking(B)
  BY DEF Breaking
<1> HIDE DEF B
<1>3. \A i \in DOMAIN p : Counts(p, new, B, F, r, i) => Counts(p, its, A, F, r, i)
  BY <1>1 DEF Counts, Joins
<1>4. \A m : Free(p, its, A, F, r, m) => Free(p, new, B, F, r, m)
  BY <1>3 DEF Free
<1>5. \A i, m : IsGood(p, its, i, m) /\ Same(its, new, m.ref) => IsGood(p, new, i, m)
  BY DEF IsGood, Same
<1>6. Kept(p, new, B, F)
  BY <1>2, <1>5 DEF Disk, Kept, Joins, B
<1>7. Distinct(p, new, B, F, r)
  BY <1>3 DEF Disk, Distinct
<1>8. ASSUME NEW d \in A PROVE AddOK(p, new, B, F, r, d) /\ ModOK(p, new, B, F, r, d)
  <2>1. AddOK(p, its, A, F, r, d) /\ ModOK(p, its, A, F, r, d)
    BY DEF Disk
  <2>2. d.op = "add" => \A e \in C : e.manager.id # d.manager.id
    BY DEF Joins
  <2> QED
    BY <2>1, <2>2, <1>1, <1>4 DEF AddOK, ModOK, B
<1>9. ASSUME NEW d \in A PROVE NewItem(new, d)
  BY DEF Disk, Joins, NewItem, Same
<1>10. ASSUME NEW d \in A PROVE RulesOK(p, new, B, F, r, d)
  <2> SUFFICES ASSUME d.op = "rules", d.manager.id \in DOMAIN p PROVE RulesOK(p, new, B, F, r, d)
    BY DEF RulesOK
  <2>1. RulesOK(p, its, A, F, r, d)
    BY DEF Disk
  <2>2. r \/ d.manager.legacy # NoBody \/ Saving(p, B, d.manager.id) = Saving(p, A, d.manager.id)
    BY DEF Saving, Joins, B
  <2>3. r \/ d.manager.legacy # NoBody \/ (Agrees(p, A, d.manager.id, d.manager) => Agrees(p, B, d.manager.id, d.manager))
    BY <2>2 DEF Agrees
  <2>4. ASSUME d.manager.id \notin F PROVE IsGood(p, new, d.manager.id, d.manager)
    <3>1. IsGood(p, its, d.manager.id, d.manager)
      BY <2>1, <2>4 DEF RulesOK
    <3> QED
      BY <3>1, <1>5 DEF Joins
  <2> QED
    BY <2>1, <2>3, <2>4 DEF RulesOK
<1>11. ASSUME NEW d \in A PROVE SaveOK(p, new, B, F, d)
  <2> SUFFICES ASSUME d.op = "save" PROVE SaveOK(p, new, B, F, d)
    BY DEF SaveOK
  <2>1. SaveOK(p, its, A, F, d)
    BY DEF Disk
  <2>2. d.manager.id \notin F \cup Breaking(B) => Same(its, new, d.manager.ref)
    BY DEF Joins, B
  <2> QED
    BY <2>1, <2>2, <1>1, <1>2, <1>5 DEF SaveOK
<1>12. ASSUME NEW d \in A PROVE DropOK(p, new, d)
  BY DEF Disk, DropOK, Joins
<1>13. ASSUME NEW d \in C PROVE DropOK(p, new, d)
  BY DEF Joins, DropOK
<1> QED
  BY <1>6, <1>7, <1>8, <1>9, <1>10, <1>11, <1>12, <1>13 DEF Disk, Joins, B

-----------------------------------------------------------------------------
(* The queue of requests.                                                  *)

AllCalls == ManagerCalls \cup {Load}

\* What is left to answer after the first k requests.
After(cs, k) == {cs[j] : j \in {n \in DOMAIN cs : n > k /\ cs[n].op # "load"}}

\* A request is the load, or about a configuration.
LEMMA RequestKinds ==
  ASSUME NEW c \in AllCalls
  PROVE  (c.op = "load" /\ c = Load) \/ (c.op # "load" /\ c \in ManagerCalls)
BY CallFields DEF AllCalls, Load

\* What is asked for is what is left after none, and after one, of the requests.
LEMMA AskedIsAfter ==
  ASSUME NEW cs \in Seq(AllCalls)
  PROVE  /\ Asked(cs) = After(cs, 0) /\ Asked(cs) \subseteq ManagerCalls
         /\ cs # <<>> => Asked(Tail(cs)) = After(cs, 1) /\ Tail(cs) \in Seq(AllCalls) /\ Head(cs) \in AllCalls
                         /\ Len(cs) \in Nat \ {0} /\ Head(cs) = cs[1]
<1>1. DOMAIN cs = 1 .. Len(cs) /\ Len(cs) \in Nat /\ \A j \in DOMAIN cs : cs[j] \in AllCalls
  OBVIOUS
<1>2. Asked(cs) = After(cs, 0)
  BY <1>1 DEF Asked, After, ToSet
<1>3. Asked(cs) \subseteq ManagerCalls
  BY <1>1, RequestKinds DEF Asked, ToSet
<1>4. ASSUME cs # <<>>
      PROVE  Asked(Tail(cs)) = After(cs, 1) /\ Tail(cs) \in Seq(AllCalls) /\ Head(cs) \in AllCalls
             /\ Len(cs) \in Nat \ {0} /\ Head(cs) = cs[1]
  <2>1. Tail(cs) \in Seq(AllCalls) /\ Head(cs) = cs[1] /\ Head(cs) \in AllCalls /\ Len(cs) \in Nat \ {0}
        /\ DOMAIN Tail(cs) = 1 .. Len(cs) - 1 /\ \A j \in 1 .. Len(cs) - 1 : Tail(cs)[j] = cs[j + 1]
    BY <1>4
  <2>2. ASSUME NEW c \in Asked(Tail(cs)) PROVE c \in After(cs, 1)
    <3>1. PICK j \in 1 .. Len(cs) - 1 : c = cs[j + 1] /\ c.op # "load"
      BY <2>1 DEF Asked, ToSet
    <3> QED
      BY <3>1, <1>1 DEF After
  <2>3. ASSUME NEW c \in After(cs, 1) PROVE c \in Asked(Tail(cs))
    <3>1. PICK j \in 2 .. Len(cs) : c = cs[j] /\ c.op # "load"
      BY <1>1 DEF After
    <3>2. j - 1 \in DOMAIN Tail(cs) /\ Tail(cs)[j - 1] = c
      BY <2>1, <3>1
    <3> QED
      BY <3>1, <3>2 DEF Asked, ToSet
  <2> QED
    BY <2>1, <2>2, <2>3
<1> QED
  BY <1>2, <1>3, <1>4

\* The k-th request is the next answer of those that are left.
LEMMA AfterStep ==
  ASSUME NEW cs \in Seq(AllCalls), InOrder(cs), NEW k \in 1 .. Len(cs)
  PROVE  /\ cs[k] \in AllCalls
         /\ cs[k].op = "load" => /\ After(cs, k) = After(cs, k - 1)
                                 /\ \A c \in After(cs, k) : c.op \notin {"save", "drop"}
         /\ cs[k].op # "load" => Answers(After(cs, k - 1), cs[k], After(cs, k)) /\ cs[k] \in ManagerCalls
<1>1. DOMAIN cs = 1 .. Len(cs) /\ Len(cs) \in Nat /\ k \in Nat /\ \A j \in DOMAIN cs : cs[j] \in AllCalls
  OBVIOUS
<1>2. \A j \in DOMAIN cs : j > k - 1 <=> j = k \/ j > k
  BY <1>1
<1>3. ASSUME cs[k].op = "load"
      PROVE  After(cs, k) = After(cs, k - 1) /\ \A c \in After(cs, k) : c.op \notin {"save", "drop"}
  <2>1. After(cs, k) = After(cs, k - 1)
    BY <1>2, <1>3 DEF After
  <2>2. \A j \in DOMAIN cs : j > k => cs[j].op \notin {"save", "drop"}
    BY <1>1, <1>3 DEF InOrder
  <2> QED
    BY <2>1, <2>2 DEF After
<1>4. ASSUME cs[k].op # "load" PROVE Answers(After(cs, k - 1), cs[k], After(cs, k)) /\ cs[k] \in ManagerCalls
  <2>1. After(cs, k - 1) \subseteq ManagerCalls /\ cs[k] \in ManagerCalls
    BY <1>1, <1>4, RequestKinds DEF After
  <2>2. cs[k] \in After(cs, k - 1)
    BY <1>1, <1>2, <1>4 DEF After
  <2>3. After(cs, k) \subseteq After(cs, k - 1) /\ After(cs, k - 1) \subseteq After(cs, k) \cup {cs[k]}
    BY <1>2, <1>4 DEF After
  <2>4. ASSUME cs[k].op \in EditOps, NEW d \in After(cs, k) PROVE d.op \notin EditOps
    <3>1. PICK j \in DOMAIN cs : j > k /\ d = cs[j]
      BY DEF After
    <3> QED
      BY <3>1, <1>1, <2>4 DEF InOrder
  <2>5. ASSUME cs[k].op = "save", NEW d \in After(cs, k), d.op = "rules", d.manager.id = cs[k].manager.id
        PROVE  d.manager.legacy = NoBody
    <3>1. PICK j \in DOMAIN cs : j > k /\ d = cs[j]
      BY DEF After
    <3> QED
      BY <3>1, <1>1, <2>5 DEF InOrder
  <2> QED
    BY <2>1, <2>2, <2>3, <2>4, <2>5 DEF Answers
<1> QED
  BY <1>1, <1>3, <1>4

\* An answer keeps the order of the queue.
LEMMA TailInOrder ==
  ASSUME NEW cs \in Seq(AllCalls), InOrder(cs), cs # <<>>
  PROVE  InOrder(Tail(cs))
<1>1. /\ DOMAIN Tail(cs) = 1 .. Len(cs) - 1 /\ Len(cs) \in Nat /\ DOMAIN cs = 1 .. Len(cs)
      /\ \A j \in 1 .. Len(cs) - 1 : j + 1 \in DOMAIN cs /\ Tail(cs)[j] = cs[j + 1]
  OBVIOUS
<1>2. \A j, k \in 1 .. Len(cs) - 1 : (j + 1 = k + 1 => j = k) /\ (j < k => j + 1 < k + 1)
  BY <1>1
<1>3. PICK t : t = Tail(cs)
  OBVIOUS
<1>4. DOMAIN t = 1 .. Len(cs) - 1 /\ \A j \in DOMAIN t : j + 1 \in DOMAIN cs /\ t[j] = cs[j + 1]
  BY <1>1, <1>3
<1>5. \A j, k \in DOMAIN t : t[j].op \in EditOps /\ t[k].op \in EditOps => j = k
  BY <1>2, <1>4 DEF InOrder
<1>6. \A j, k \in DOMAIN t : j < k /\ t[j].op = "load" => t[k].op \notin {"load", "save", "drop"}
  BY <1>2, <1>4 DEF InOrder
<1>7. \A j, k \in DOMAIN t :
       j < k /\ t[j].op = "save" /\ t[k].op = "rules" /\ t[j].manager.id = t[k].manager.id
         => t[k].manager.legacy = NoBody
  BY <1>2, <1>4 DEF InOrder
<1> QED
  BY <1>3, <1>5, <1>6, <1>7 DEF InOrder

\* A request at the end keeps the order, under the conditions each method checks.
LEMMA AppendInOrder ==
  ASSUME NEW cs \in Seq(AllCalls), InOrder(cs), NEW c \in AllCalls,
         c.op \in EditOps => \A d \in ToSet(cs) : d.op \notin EditOps,
         c.op \in {"load", "save", "drop"} => \A d \in ToSet(cs) : d.op # "load",
         c.op = "rules" => \A d \in Asked(cs) :
           d.op = "save" /\ d.manager.id = c.manager.id => c.manager.legacy = NoBody
  PROVE  /\ InOrder(Append(cs, c)) /\ Append(cs, c) \in Seq(AllCalls)
         /\ ToSet(Append(cs, c)) = ToSet(cs) \cup {c}
         /\ c.op # "load" => Asked(Append(cs, c)) = Asked(cs) \cup {c}
         /\ c.op = "load" => Asked(Append(cs, c)) = Asked(cs)
<1>1. PICK t : t = Append(cs, c)
  OBVIOUS
<1>2. /\ t \in Seq(AllCalls) /\ DOMAIN t = 1 .. Len(cs) + 1 /\ Len(cs) \in Nat /\ DOMAIN cs = 1 .. Len(cs)
      /\ t[Len(cs) + 1] = c /\ \A j \in 1 .. Len(cs) : t[j] = cs[j]
  BY <1>1
<1>3. \A j \in DOMAIN t : (j \in DOMAIN cs /\ t[j] = cs[j] /\ t[j] \in ToSet(cs) /\ j # Len(cs) + 1 /\ j < Len(cs) + 1)
                          \/ (j = Len(cs) + 1 /\ t[j] = c)
  BY <1>2 DEF ToSet
<1>4. ToSet(t) = ToSet(cs) \cup {c}
  <2>1. ToSet(t) \subseteq ToSet(cs) \cup {c}
    BY <1>3 DEF ToSet
  <2>2. ToSet(cs) \cup {c} \subseteq ToSet(t)
    BY <1>2 DEF ToSet
  <2> QED
    BY <2>1, <2>2
<1>5. \A j, k \in DOMAIN t : t[j].op \in EditOps /\ t[k].op \in EditOps => j = k
  BY <1>3 DEF InOrder
<1>6. \A j, k \in DOMAIN t : j < k => j \in DOMAIN cs /\ t[j] = cs[j] /\ t[j] \in ToSet(cs)
  BY <1>2, <1>3
<1>7. \A j, k \in DOMAIN t : j < k /\ t[j].op = "load" => t[k].op \notin {"load", "save", "drop"}
  BY <1>3, <1>6 DEF InOrder
<1>8. \A j, k \in DOMAIN t :
       j < k /\ t[j].op = "save" /\ t[k].op = "rules" /\ t[j].manager.id = t[k].manager.id
         => t[k].manager.legacy = NoBody
  BY <1>3, <1>6 DEF InOrder, Asked
<1> QED
  BY <1>1, <1>2, <1>4, <1>5, <1>7, <1>8 DEF InOrder, Asked

-----------------------------------------------------------------------------
(* The system answers requests while the app is not there.                 *)

\* A reference is held only by whom it was held before.
LEMMA StoredIsHeld ==
  ASSUME NEW p, NEW T, NEW A, NEW c, NEW B, NEW ref, NEW i, Answers(A, c, B), c \in ManagerCalls,
         Held(StoredIfPossible(p, c), T, B, ref, i)
  PROVE  Held(p, T, A, ref, i)
<1>1. PICK q : q = StoredIfPossible(p, c)
  OBVIOUS
<1>2. c \in A /\ B \subseteq A
  BY DEF Answers
<1>3. \A j \in DOMAIN q : (j \in DOMAIN p /\ q[j] = p[j]) \/ (j = c.manager.id /\ q[j].ref = c.manager.ref)
  BY <1>1 DEF StoredIfPossible, Stored, With, Without, Entry
<1>4. CASE i \in DOMAIN q /\ q[i].ref = ref
  BY <1>2, <1>3, <1>4 DEF Held
<1>5. CASE ~(i \in DOMAIN q /\ q[i].ref = ref)
  BY <1>1, <1>2, <1>5 DEF Held
<1> QED
  BY <1>4, <1>5

\* A request that outlives the app leaves the disk in order, possible or not.
LEMMA RequestReaches ==
  ASSUME NEW p, NEW its, NEW A, NEW c, NEW B, NEW F, PrefsOK(p), ItemsOK(its),
         Disk(p, its, A, F, TRUE), Answers(A, c, B)
  PROVE  Disk(StoredIfPossible(p, c), its, B, F \ Mended(c), TRUE) /\ PrefsOK(StoredIfPossible(p, c))
<1>1. c \in ManagerCalls /\ B \subseteq A /\ c.op \in {"add", "modify", "rules", "remove", "save", "drop"}
  BY CallFields DEF Answers
<1>2. CASE Possible(p, c)
  <2>1. StoredIfPossible(p, c) = Stored(p, c)
    BY <1>1, <1>2 DEF StoredIfPossible
  <2>2. c.op = "modify" => F \ Mended(c) = F \ {c.manager.id}
    BY <1>2 DEF Mended, Possible
  <2>3. c.op # "modify" => F \ Mended(c) = F
    BY DEF Mended
  <2>4. CASE c.op = "add"
    BY <2>1, <2>3, <2>4, <1>2, AnswerAdd
  <2>5. CASE c.op = "modify"
    <3>1. Disk(Stored(p, c), its, B, F \ {c.manager.id}, TRUE) /\ PrefsOK(Stored(p, c))
      BY <2>5, <1>2, AnswerModify
    <3> QED
      BY <3>1, <2>1, <2>2, <2>5
  <2>6. CASE c.op = "rules"
    BY <2>1, <2>3, <2>6, <1>2, AnswerRules
  <2>7. CASE c.op \in {"remove", "drop"}
    BY <2>1, <2>3, <2>7, <1>2, AnswerDrop
  <2>8. CASE c.op = "save"
    BY <2>1, <2>3, <2>8, <1>2, AnswerSave
  <2> QED
    BY <1>1, <2>4, <2>5, <2>6, <2>7, <2>8
<1>3. CASE ~Possible(p, c)
  <2>1. StoredIfPossible(p, c) = p
    BY <1>3 DEF StoredIfPossible
  <2>2. Breaks(c) => c.manager.id \notin DOMAIN p
    BY <1>3 DEF Breaks, Possible
  <2>3. Mended(c) \cap DOMAIN p = {}
    BY <1>3 DEF Mended, Possible
  <2>4. \A i \in DOMAIN p : i \in Breaking(A) => i \in Breaking(B)
    BY <2>2, BreakingLeft
  <2>5. \A i \in DOMAIN p : i \in F => i \in F \ Mended(c)
    BY <2>3
  <2>6. Disk(p, its, B, F \ Mended(c), TRUE)
    BY <1>1, <2>4, <2>5, Weaken
  <2> QED
    BY <2>1, <2>6
<1> QED
  BY <1>2, <1>3

\* The preferences after some requests, one request at a time.
LEMMA AfterCallsIs ==
  ASSUME NEW n \in Nat
  PROVE  AfterCalls(n) = [k \in 0 .. n |-> IF k = 0 THEN prefs ELSE StoredIfPossible(AfterCalls(n)[k - 1], calls[k])]
<1> DEFINE Is(f, j) == f = [k \in 0 .. j |-> IF k = 0 THEN prefs ELSE StoredIfPossible(f[k - 1], calls[k])]
           S == {j \in Nat : \E f : Is(f, j)}
<1>1. 0 \in S
  <2>1. Is([k \in 0 .. 0 |-> prefs], 0)
    OBVIOUS
  <2> QED
    BY <2>1
<1>2. ASSUME NEW j \in Nat, j \in S PROVE j + 1 \in S
  <2>1. PICK f : Is(f, j)
    BY <1>2
  <2> DEFINE g == [k \in 0 .. j + 1 |-> IF k <= j THEN f[k] ELSE StoredIfPossible(f[j], calls[j + 1])]
  <2>2. ASSUME NEW k \in 0 .. j + 1
        PROVE  g[k] = IF k = 0 THEN prefs ELSE StoredIfPossible(g[k - 1], calls[k])
    <3>1. CASE k = 0
      <4>1. g[0] = f[0] /\ f[0] = prefs
        BY <2>1
      <4> QED
        BY <4>1, <3>1
    <3>2. CASE k # 0 /\ k <= j
      <4>1. k \in 0 .. j /\ k - 1 \in 0 .. j + 1 /\ k - 1 <= j
        BY <3>2
      <4>2. f[k] = StoredIfPossible(f[k - 1], calls[k])
        BY <2>1, <3>2, <4>1
      <4>3. g[k] = f[k] /\ g[k - 1] = f[k - 1]
        BY <4>1
      <4> QED
        BY <3>2, <4>2, <4>3
    <3>3. CASE k = j + 1
      <4>1. g[k] = StoredIfPossible(f[j], calls[j + 1]) /\ g[j] = f[j] /\ k - 1 = j /\ k # 0
        BY <3>3
      <4> QED
        BY <3>3, <4>1
    <3> QED
      BY <3>1, <3>2, <3>3
  <2> HIDE DEF g
  <2>3. \E h : Is(h, j + 1)
    <3>1. g = [k \in 0 .. j + 1 |-> IF k = 0 THEN prefs ELSE StoredIfPossible(g[k - 1], calls[k])]
      BY <2>2 DEF g
    <3> QED
      BY <3>1
  <2> QED
    BY <2>3
<1> HIDE DEF S
<1>3. Nat \subseteq S
  BY <1>1, <1>2, Induction
<1>4. \E f : Is(f, n)
  BY <1>3 DEF S
<1> QED
  BY <1>4 DEF AfterCalls

\* The names of profiles are told apart.
ProfilesApart(p) == \A i, j \in DOMAIN p : p[i].name = p[j].name /\ p[i].name \in ProfileNames => i = j

\* No request gives a configuration the name of a profile it did not have.
LEMMA ProfilesStored ==
  ASSUME NEW p, NEW its, NEW A, NEW c \in A, NEW F, NEW r, Disk(p, its, A, F, r), c \in ManagerCalls, ProfilesApart(p)
  PROVE  ProfilesApart(StoredIfPossible(p, c))
<1>1. PICK q, m : q = StoredIfPossible(p, c) /\ m = c.manager
  OBVIOUS
<1>2. \A i \in DOMAIN q : (i \in DOMAIN p /\ q[i] = p[i])
                          \/ (i = m.id /\ q[i].name = m.name /\ c.op \in {"add", "modify", "rules", "save"} /\ Possible(p, c))
  BY <1>1, CallFields DEF StoredIfPossible, Stored, With, Without, Entry
<1>3. Possible(p, c) /\ c.op \in {"add", "modify", "rules", "save"} =>
        m.name \in Names \/ (m.id \in DOMAIN p /\ m.name = p[m.id].name)
  <2>1. AddOK(p, its, A, F, r, c) /\ ModOK(p, its, A, F, r, c) /\ SaveOK(p, its, A, F, c)
    BY DEF Disk
  <2> QED
    BY <1>1, <2>1 DEF AddOK, ModOK, SaveOK, Possible, IsLegacy
<1>4. \A i \in DOMAIN q : q[i].name \in ProfileNames => i \in DOMAIN p /\ q[i].name = p[i].name
  BY <1>2, <1>3, StoreAssumption
<1> QED
  BY <1>1, <1>4 DEF ProfilesApart

\* What the preferences are after the first n requests.
LEMMA AfterCallsDisk ==
  ASSUME calls \in Seq(AllCalls), InOrder(calls), PrefsOK(prefs), ItemsOK(items), refused \in BOOLEAN,
         Disk(prefs, items, Asked(calls), failed, refused), OneOwner(prefs, tunnels, Asked(calls)),
         NEW n \in 0 .. Len(calls)
  PROVE  LET q == AfterCalls(n)[n] IN
         /\ PrefsOK(q) /\ OneOwner(q, tunnels, After(calls, n)) /\ (ProfilesApart(prefs) => ProfilesApart(q))
         /\ Disk(q, items, After(calls, n), failed \ UNION {Mended(c) : c \in ToSet(SubSeq(calls, 1, n))}, TRUE)
<1> DEFINE p == AfterCalls(n)
           F(k) == failed \ UNION {Mended(calls[j]) : j \in 1 .. k}
           Good(k) == /\ PrefsOK(p[k]) /\ OneOwner(p[k], tunnels, After(calls, k))
                      /\ (ProfilesApart(prefs) => ProfilesApart(p[k]))
                      /\ Disk(p[k], items, After(calls, k), F(k), TRUE)
           S == {k \in Nat : k <= n => Good(k)}
<1>1. n \in Nat /\ n <= Len(calls) /\ Len(calls) \in Nat /\ DOMAIN calls = 1 .. Len(calls)
  OBVIOUS
<1>2. p[0] = prefs /\ \A k \in 1 .. n : p[k] = StoredIfPossible(p[k - 1], calls[k])
  BY <1>1, AfterCallsIs
<1>3. 0 \in S
  <2>1. Asked(calls) = After(calls, 0)
    BY AskedIsAfter
  <2>2. UNION {Mended(calls[j]) : j \in 1 .. 0} = {}
    OBVIOUS
  <2>3. F(0) = failed
    BY <2>2
  <2>4. Disk(prefs, items, Asked(calls), failed, TRUE)
    BY Weaken
  <2> QED
    BY <1>2, <2>1, <2>3, <2>4
<1> HIDE DEF S, Good, F, p
<1>4. ASSUME NEW k \in Nat, k \in S PROVE k + 1 \in S
  <2> SUFFICES ASSUME k + 1 <= n PROVE Good(k + 1)
    BY DEF S
  <2>1. Good(k) /\ k + 1 \in 1 .. n /\ k + 1 \in 1 .. Len(calls) /\ p[k + 1] = StoredIfPossible(p[k], calls[k + 1])
    <3>1. k <= n /\ k + 1 - 1 = k
      BY <1>1
    <3>2. Good(k)
      BY <3>1, <1>4 DEF S
    <3> QED
      BY <1>1, <1>2, <3>1, <3>2
  <2>2. k + 1 - 1 = k
    OBVIOUS
  <2> DEFINE c == calls[k + 1]
  <2>3. F(k + 1) = F(k) \ Mended(c)
    <3>1. 1 .. k + 1 = (1 .. k) \cup {k + 1}
      OBVIOUS
    <3> QED
      BY <3>1 DEF F
  <2> HIDE DEF c
  <2>4. CASE c.op = "load"
    <3>1. Mended(c) = {} /\ StoredIfPossible(p[k], c) = p[k]
      BY <2>4 DEF Mended, StoredIfPossible
    <3>2. After(calls, k + 1) = After(calls, k)
      BY <2>1, <2>2, <2>4, AfterStep DEF c
    <3>3. F(k + 1) = F(k) /\ p[k + 1] = p[k]
      BY <2>1, <2>3, <3>1 DEF c
    <3> QED
      BY <2>1, <3>2, <3>3 DEF Good
  <2>5. CASE c.op # "load"
    <3>1. Answers(After(calls, k), c, After(calls, k + 1)) /\ c \in ManagerCalls
      BY <2>1, <2>2, <2>5, AfterStep DEF c
    <3>4. PrefsOK(p[k]) /\ Disk(p[k], items, After(calls, k), F(k), TRUE)
      BY <2>1 DEF Good
    <3>5. /\ Disk(StoredIfPossible(p[k], c), items, After(calls, k + 1), F(k) \ Mended(c), TRUE)
          /\ PrefsOK(StoredIfPossible(p[k], c))
      BY <3>1, <3>4, RequestReaches
    <3>6. p[k + 1] = StoredIfPossible(p[k], c)
      BY <2>1 DEF c
    <3>2. Disk(p[k + 1], items, After(calls, k + 1), F(k + 1), TRUE) /\ PrefsOK(p[k + 1])
      BY <2>3, <3>5, <3>6
    <3>3. OneOwner(p[k + 1], tunnels, After(calls, k + 1))
      BY <2>1, <3>1, <3>6, StoredIsHeld DEF OneOwner, Good
    <3>7. ProfilesApart(prefs) => ProfilesApart(p[k + 1])
      BY <2>1, <3>1, <3>4, <3>6, ProfilesStored DEF Good, Answers
    <3> QED
      BY <3>2, <3>3, <3>7 DEF Good
  <2> QED
    BY <2>4, <2>5
<1>5. Nat \subseteq S
  BY <1>3, <1>4, Induction
<1>6. Good(n)
  BY <1>1, <1>5 DEF S
<1>7. {Mended(c) : c \in ToSet(SubSeq(calls, 1, n))} = {Mended(calls[j]) : j \in 1 .. n}
  <2>1. DOMAIN SubSeq(calls, 1, n) = 1 .. n /\ \A j \in 1 .. n : SubSeq(calls, 1, n)[j] = calls[j]
    BY <1>1
  <2>2. ToSet(SubSeq(calls, 1, n)) = {calls[j] : j \in 1 .. n}
    BY <2>1 DEF ToSet
  <2> QED
    BY <2>2
<1> QED
  BY <1>6, <1>7 DEF Good, p, F

-----------------------------------------------------------------------------
(* Launch.                                                                 *)

\* The inverse of an injection.
LEMMA AntiFunctionIs ==
  ASSUME NEW S, NEW T, NEW f \in Injection(S, T)
  PROVE  /\ \A y : y \in DOMAIN AntiFunction(f) <=> \E s \in S : f[s] = y
         /\ \A s \in S : AntiFunction(f)[f[s]] = s /\ f[s] \in T
         /\ \A y \in DOMAIN AntiFunction(f) : AntiFunction(f)[y] \in S /\ f[AntiFunction(f)[y]] = y
<1>1. f \in [S -> T] /\ \A s, t \in S : f[s] = f[t] => s = t
  BY DEF Injection, IsInjective
<1>2. \A y : y \in DOMAIN AntiFunction(f) <=> \E s \in S : f[s] = y
  BY <1>1 DEF AntiFunction, Inverse, Range
<1>3. ASSUME NEW y \in DOMAIN AntiFunction(f) PROVE AntiFunction(f)[y] \in S /\ f[AntiFunction(f)[y]] = y
  <2>1. \E s \in S : f[s] = y
    BY <1>2
  <2>2. AntiFunction(f)[y] = CHOOSE s \in S : y \in Range(f) => f[s] = y
    BY <1>1, <1>2 DEF AntiFunction, Inverse, Range
  <2>3. y \in Range(f)
    BY <1>1, <2>1 DEF Range
  <2> QED
    BY <2>1, <2>2, <2>3
<1> QED
  BY <1>1, <1>2, <1>3

Migrating(p) == {i \in DOMAIN p : IsLegacy(p, i)}

Saves(p, mgr) == {Call("save", NoRef, mgr[i]) : i \in Migrating(p)}
Drops(p, mgr, listed) == {Call("drop", NoRef, mgr[i]) : i \in DOMAIN p \ listed}

\* What a launch does, with its choices in sight.
Starts(p, lost, new, kept, mgr, listed, shown, its, T, cs) ==
  /\ \A i \in Migrating(p) \ lost :
       /\ new[i] \in Refs /\ new[i] \notin DOMAIN items
       /\ \A j \in DOMAIN p : p[j].ref # new[i]
       /\ \A j \in Migrating(p) \ lost : new[i] = new[j] => i = j
  /\ \A ref : ref \in DOMAIN kept <=> ref \in DOMAIN items \/ \E i \in Migrating(p) \ lost : new[i] = ref
  /\ \A ref \in DOMAIN items : kept[ref] = items[ref]
  /\ \A i \in Migrating(p) \ lost : kept[new[i]] = p[i].legacy
  /\ \A i \in DOMAIN p : mgr[i] = Migrated(Loaded(p, items, i), IF i \in lost THEN NoRef ELSE new[i])
  /\ \A i : i \in listed <=> i \in DOMAIN p /\ mgr[i].ref # NoRef /\ (world.ios => mgr[i].ref \in DOMAIN kept)
  /\ \A ref : ref \in DOMAIN its <=> ref \in DOMAIN kept /\ \E i \in listed : mgr[i].ref = ref
  /\ \A ref \in DOMAIN its : its[ref] = kept[ref]
  /\ DOMAIN T \subseteq Slots
  /\ \A c \in DOMAIN T :
       /\ shown[c] \in listed
       /\ T[c] = [name |-> p[shown[c]].name,
                  manager |-> [mgr[shown[c]] EXCEPT !.available = mgr[shown[c]].ref \in DOMAIN kept]]
       /\ \A d \in DOMAIN T : shown[c] = shown[d] => c = d
  /\ \A i \in listed : \E c \in DOMAIN T : shown[c] = i
  /\ cs \in Requests(Saves(p, mgr) \cup Drops(p, mgr, listed))

\* A launch is Starts, for some items, managers and containers.
LEMMA LaunchStarts ==
  ASSUME NEW p, NEW lost, Launch(p, lost)
  PROVE  \E new, kept, mgr, listed, shown : Starts(p, lost, new, kept, mgr, listed, shown, items', tunnels', calls')
<1> DEFINE migrating == {i \in DOMAIN p : p[i].legacy # NoBody}
           free      == Refs \ (DOMAIN items \cup {p[i].ref : i \in DOMAIN p})
           new       == CHOOSE f \in Injection(migrating \ lost, free) : TRUE
           owner     == AntiFunction(new)
           kept      == [r \in DOMAIN items \cup DOMAIN owner |->
                           IF r \in DOMAIN owner THEN p[owner[r]].legacy ELSE items[r]]
           mgr       == [i \in DOMAIN p |->
                           Migrated(Loaded(p, items, i), IF i \in lost THEN NoRef ELSE new[i])]
           listed    == {i \in DOMAIN p : Referenced(p, kept, mgr[i]) # NoRef}
           slot      == CHOOSE f \in Injection(listed, Slots) : TRUE
           shown     == AntiFunction(slot)
<1>1. migrating = Migrating(p)
  BY DEF Migrating, IsLegacy
<1>2. /\ Injection(migrating \ lost, free) # {} /\ Injection(listed, Slots) # {}
      /\ items' = [r \in {mgr[i].ref : i \in listed} \cap DOMAIN kept |-> kept[r]]
      /\ tunnels' = [c \in DOMAIN shown |->
           LET i == shown[c] IN
           [name |-> p[i].name,
            manager |-> [mgr[i] EXCEPT !.available = mgr[i].ref \in DOMAIN kept]]]
      /\ calls' \in Requests({Call("save", NoRef, mgr[i]) : i \in migrating}
                               \cup {Call("drop", NoRef, mgr[i]) : i \in DOMAIN p \ listed})
  BY DEF Launch
<1>3. PICK g \in Injection(migrating \ lost, free) : g = new
  BY <1>2
<1>4. PICK sl \in Injection(listed, Slots) : sl = slot
  BY <1>2
<1>5. PICK o : o = owner
  OBVIOUS
<1> HIDE DEF new, free, migrating, slot
<1>6. /\ \A y : y \in DOMAIN o <=> \E i \in migrating \ lost : g[i] = y
      /\ \A i \in migrating \ lost : o[g[i]] = i /\ g[i] \in free
  <2>1. /\ \A y : y \in DOMAIN AntiFunction(g) <=> \E i \in migrating \ lost : g[i] = y
        /\ \A i \in migrating \ lost : AntiFunction(g)[g[i]] = i /\ g[i] \in free
    BY <1>3, AntiFunctionIs
  <2> QED
    BY <2>1, <1>3, <1>5
<1>7. PICK k : k = kept
  OBVIOUS
<1>8. /\ DOMAIN k = DOMAIN items \cup DOMAIN o
      /\ \A ref \in DOMAIN k : k[ref] = IF ref \in DOMAIN o THEN p[o[ref]].legacy ELSE items[ref]
  BY <1>5, <1>7
<1>9. PICK m : m = mgr
  OBVIOUS
<1>10. \A i \in DOMAIN p : m[i] = Migrated(Loaded(p, items, i), IF i \in lost THEN NoRef ELSE g[i])
  BY <1>3, <1>9
<1>11. PICK l : l = listed
  OBVIOUS
<1>12. \A i : i \in l <=> i \in DOMAIN p /\ m[i].ref # NoRef /\ (world.ios => m[i].ref \in DOMAIN k)
  BY <1>7, <1>9, <1>11 DEF Referenced
<1> HIDE DEF listed
<1>13. PICK sh : sh = shown
  OBVIOUS
<1>14. /\ DOMAIN sh \subseteq Slots
       /\ \A c \in DOMAIN sh : sh[c] \in l /\ \A d \in DOMAIN sh : sh[c] = sh[d] => c = d
       /\ \A i \in l : \E c \in DOMAIN sh : sh[c] = i
  <2>1. /\ \A y : y \in DOMAIN AntiFunction(sl) <=> \E s \in listed : sl[s] = y
        /\ \A s \in listed : AntiFunction(sl)[sl[s]] = s /\ sl[s] \in Slots
        /\ \A y \in DOMAIN AntiFunction(sl) : AntiFunction(sl)[y] \in listed /\ sl[AntiFunction(sl)[y]] = y
    BY <1>4, AntiFunctionIs
  <2> QED
    BY <2>1, <1>4, <1>11, <1>13
<1> HIDE DEF migrating, new, owner, kept, mgr, listed, slot, shown
<1>15. /\ items' = [r \in {m[i].ref : i \in l} \cap DOMAIN k |-> k[r]]
       /\ tunnels' = [c \in DOMAIN sh |->
           [name |-> p[sh[c]].name,
            manager |-> [m[sh[c]] EXCEPT !.available = m[sh[c]].ref \in DOMAIN k]]]
       /\ calls' \in Requests(Saves(p, m) \cup Drops(p, m, l))
  BY <1>1, <1>2, <1>7, <1>9, <1>11, <1>13 DEF Saves, Drops
<1>16. \A ref \in DOMAIN o : ref \notin DOMAIN items
  BY <1>6 DEF free
<1>17. \A i \in Migrating(p) \ lost :
         /\ g[i] \in Refs /\ g[i] \notin DOMAIN items
         /\ \A j \in DOMAIN p : p[j].ref # g[i]
         /\ \A j \in Migrating(p) \ lost : g[i] = g[j] => i = j
  BY <1>1, <1>6 DEF free
<1>18. \A ref : ref \in DOMAIN k <=> ref \in DOMAIN items \/ \E i \in Migrating(p) \ lost : g[i] = ref
  BY <1>1, <1>6, <1>8
<1>19. \A ref \in DOMAIN items : k[ref] = items[ref]
  BY <1>8, <1>16
<1>20. \A i \in Migrating(p) \ lost : k[g[i]] = p[i].legacy
  BY <1>1, <1>6, <1>8
<1>21. (\A ref : ref \in DOMAIN items' <=> ref \in DOMAIN k /\ \E i \in l : m[i].ref = ref) /\ \A ref \in DOMAIN items' : items'[ref] = k[ref]
  BY <1>15
<1>22. DOMAIN tunnels' = DOMAIN sh /\ \A c \in DOMAIN sh : tunnels'[c] =
           [name |-> p[sh[c]].name,
            manager |-> [m[sh[c]] EXCEPT !.available = m[sh[c]].ref \in DOMAIN k]]
  BY <1>15
<1>23. PICK its, T : its = items' /\ T = tunnels'
  OBVIOUS
<1>24. /\ DOMAIN T \subseteq Slots
       /\ \A c \in DOMAIN T :
            /\ sh[c] \in l
            /\ T[c] = [name |-> p[sh[c]].name,
                       manager |-> [m[sh[c]] EXCEPT !.available = m[sh[c]].ref \in DOMAIN k]]
            /\ \A d \in DOMAIN T : sh[c] = sh[d] => c = d
       /\ \A i \in l : \E c \in DOMAIN T : sh[c] = i
  BY <1>14, <1>22, <1>23
<1>25. /\ \A ref : ref \in DOMAIN its <=> ref \in DOMAIN k /\ \E i \in l : m[i].ref = ref
       /\ \A ref \in DOMAIN its : its[ref] = k[ref]
  BY <1>21, <1>23
<1>26. Starts(p, lost, g, k, m, l, sh, its, T, calls')
  <2>1. calls' \in Requests(Saves(p, m) \cup Drops(p, m, l))
    BY <1>15
  <2> QED
    BY <1>10, <1>12, <1>17, <1>18, <1>19, <1>20, <1>24, <1>25, <2>1 DEF Starts
<1> QED
  BY <1>23, <1>26

\* The manager of a configuration after a launch.
LEMMA StartedManager ==
  ASSUME NEW p, NEW lost, NEW new, NEW kept, NEW mgr, NEW listed, NEW shown, NEW its, NEW T, NEW cs,
         Starts(p, lost, new, kept, mgr, listed, shown, its, T, cs), PrefsOK(p), ItemsOK(items),
         NEW i \in DOMAIN p
  PROVE  /\ mgr[i] \in Managers /\ mgr[i].id = i /\ mgr[i].name = p[i].name /\ mgr[i].legacy = NoBody
         /\ mgr[i].ref \in Refs \cup {NoRef}
         /\ IsLegacy(p, i) /\ i \notin lost =>
              mgr[i].ref = new[i] /\ new[i] \in DOMAIN kept /\ kept[new[i]] = p[i].legacy /\ i \in listed
         /\ IsLegacy(p, i) /\ i \in lost => mgr[i].ref = NoRef /\ i \notin listed
         /\ ~IsLegacy(p, i) => /\ mgr[i].ref = p[i].ref
                               /\ p[i].ref \in DOMAIN kept <=> p[i].ref \in DOMAIN items
                               /\ Live(p, its, i) <=> i \in listed
                               /\ Live(p, items, i) <=> i \in listed
         /\ mgr[i].ref \in DOMAIN its <=> i \in listed /\ mgr[i].ref \in DOMAIN kept
         /\ mgr[i].ref \in DOMAIN kept => mgr[i].body \in Bodies /\ i \in listed
<1>1. mgr[i] = Migrated(Loaded(p, items, i), IF i \in lost THEN NoRef ELSE new[i])
  BY DEF Starts
<1>2. p[i] \in Entries /\ i \in Ids /\ NoBody \notin Bodies /\ NoRef \notin Refs
  BY StoreAssumption DEF PrefsOK
<1>3. /\ \A ref : ref \in DOMAIN kept <=> ref \in DOMAIN items \/ \E j \in Migrating(p) \ lost : new[j] = ref
      /\ \A j \in Migrating(p) \ lost :
           new[j] \in Refs /\ kept[new[j]] = p[j].legacy /\ \A k \in DOMAIN p : p[k].ref # new[j]
  BY DEF Starts
<1>4. DOMAIN kept \subseteq Refs /\ \A ref \in DOMAIN items : items[ref] \in Bodies
  BY <1>3 DEF ItemsOK
<1>5. i \in listed <=> mgr[i].ref # NoRef /\ (world.ios => mgr[i].ref \in DOMAIN kept)
  BY DEF Starts
<1>6. PICK l : l = Loaded(p, items, i)
  OBVIOUS
<1>7. /\ l \in Managers /\ l.id = i /\ l.name = p[i].name /\ l.legacy = p[i].legacy /\ l.ref = p[i].ref
      /\ l.ref \in DOMAIN items => l.body \in Bodies
  BY <1>2, <1>4, <1>6 DEF Loaded, Managers, Entries
<1>8. CASE ~IsLegacy(p, i)
  <2>1. mgr[i] = l
    BY <1>1, <1>6, <1>7, <1>8 DEF Migrated, IsLegacy
  <2>2. p[i].ref \in DOMAIN kept <=> p[i].ref \in DOMAIN items
    BY <1>3
  <2>3. mgr[i].legacy = NoBody /\ mgr[i].ref \in Refs \cup {NoRef}
    BY <1>2, <1>7, <1>8, <2>1 DEF IsLegacy, Entries
  <2>4. mgr[i].ref \in DOMAIN kept => i \in listed
    BY <1>2, <1>4, <1>5
  <2>5. mgr[i].ref \in DOMAIN its <=> i \in listed /\ mgr[i].ref \in DOMAIN kept
    BY <2>4 DEF Starts
  <2>6. (Live(p, its, i) <=> i \in listed) /\ (Live(p, items, i) <=> i \in listed)
    BY <1>5, <1>7, <1>8, <2>1, <2>2, <2>4, <2>5 DEF Live
  <2> QED
    BY <1>7, <1>8, <2>1, <2>2, <2>3, <2>4, <2>5, <2>6
<1>9. CASE IsLegacy(p, i)
  <2>1. p[i].legacy \in Bodies /\ i \in Migrating(p)
    BY <1>2, <1>9 DEF IsLegacy, Entries, Migrating
  <2>2. mgr[i] = [l EXCEPT !.legacy = NoBody, !.ref = IF i \in lost THEN NoRef ELSE new[i],
                           !.body = IF (IF i \in lost THEN NoRef ELSE new[i]) = NoRef THEN NoBody ELSE l.legacy]
    BY <1>1, <1>6, <1>7, <1>9 DEF Migrated, IsLegacy
  <2>3. i \notin lost => new[i] \in Refs /\ new[i] # NoRef /\ new[i] \in DOMAIN kept /\ kept[new[i]] = p[i].legacy
    BY <1>2, <1>3, <2>1
  <2>4. /\ mgr[i].id = i /\ mgr[i].name = p[i].name /\ mgr[i].legacy = NoBody
        /\ i \in lost => mgr[i].ref = NoRef
        /\ i \notin lost => mgr[i].ref = new[i] /\ mgr[i].body = p[i].legacy
    BY <1>7, <2>2, <2>3 DEF Managers
  <2>5. mgr[i] \in Managers
    BY <1>7, <2>2, <2>3, <2>1 DEF Managers
  <2>6. mgr[i].ref \in DOMAIN kept => i \in listed
    BY <1>2, <1>4, <1>5
  <2>7. mgr[i].ref \in DOMAIN its <=> i \in listed /\ mgr[i].ref \in DOMAIN kept
    BY <2>6 DEF Starts
  <2>8. mgr[i].ref \in DOMAIN kept => i \notin lost
    BY <1>2, <1>4, <2>4
  <2> QED
    BY <1>5, <1>9, <2>1, <2>3, <2>4, <2>5, <2>6, <2>7, <2>8
<1> QED
  BY <1>8, <1>9

\* A function on 1 .. n is a sequence.
LEMMA FunctionIsSeq ==
  ASSUME NEW n \in Nat, NEW S, NEW f \in [1 .. n -> S]
  PROVE  f \in Seq(S)
<1>1. f \in UNION {[1 .. k -> S] : k \in Nat}
  OBVIOUS
<1> QED
  BY <1>1, SeqDef, Zenon

\* The requests of a launch: migrations and removals, each once, in any order.
LEMMA LaunchCalls ==
  ASSUME NEW p, NEW mgr, NEW listed, PrefsOK(p), \A i \in DOMAIN p : mgr[i] \in Managers,
         NEW cs \in Requests(Saves(p, mgr) \cup Drops(p, mgr, listed))
  PROVE  /\ cs \in Seq(AllCalls) /\ InOrder(cs)
         /\ Asked(cs) = Saves(p, mgr) \cup Drops(p, mgr, listed) /\ Asked(cs) = ToSet(cs)
         /\ \A c \in Asked(cs) : c \in ManagerCalls /\ c.op \in {"save", "drop"}
<1> DEFINE S == Saves(p, mgr)
           D == Drops(p, mgr, listed)
<1>1. ASSUME NEW c \in S \cup D PROVE c \in ManagerCalls /\ c.op \in {"save", "drop"}
  <2>1. \E i \in DOMAIN p : c = Call("save", NoRef, mgr[i]) \/ c = Call("drop", NoRef, mgr[i])
    BY DEF Saves, Drops, Migrating
  <2> QED
    BY <2>1 DEF Call, ManagerCalls, Ops
<1>2. IsFiniteSet(DOMAIN p)
  BY StoreAssumption, FS_Subset DEF PrefsOK
<1>3. IsFiniteSet(S)
  <2>1. IsFiniteSet(Migrating(p))
    BY <1>2, FS_Subset DEF Migrating
  <2>2. [i \in Migrating(p) |-> Call("save", NoRef, mgr[i])] \in Surjection(Migrating(p), S)
    BY DEF Surjection, Saves
  <2> QED
    BY <2>1, <2>2, FS_Surjection
<1>4. IsFiniteSet(D)
  <2>1. IsFiniteSet(DOMAIN p \ listed)
    BY <1>2, FS_Subset
  <2>2. [i \in DOMAIN p \ listed |-> Call("drop", NoRef, mgr[i])] \in Surjection(DOMAIN p \ listed, D)
    BY DEF Surjection, Drops
  <2> QED
    BY <2>1, <2>2, FS_Surjection
<1> DEFINE A == S \cup D
<1>5. Cardinality(A) \in Nat
  BY <1>3, <1>4, FS_Union, FS_CardinalityType
<1>6. cs \in [1 .. Cardinality(A) -> A] /\ \A c \in A : \E k \in 1 .. Cardinality(A) : cs[k] = c
  BY DEF Requests, Bijection, Injection, Surjection
<1> HIDE DEF S, D
<1>7. DOMAIN cs = 1 .. Cardinality(A)
  BY <1>6
<1>8. ToSet(cs) = A
  BY <1>6, <1>7 DEF ToSet
<1>9. \A k \in DOMAIN cs : cs[k].op \in {"save", "drop"}
  BY <1>1, <1>6
<1>10. cs \in Seq(AllCalls)
  <2>1. cs \in [1 .. Cardinality(A) -> AllCalls]
    BY <1>1, <1>6 DEF AllCalls
  <2> QED
    BY <1>5, <2>1, FunctionIsSeq
<1>11. InOrder(cs)
  BY <1>9 DEF InOrder, EditOps
<1>12. Asked(cs) = A
  BY <1>1, <1>8 DEF Asked
<1> QED
  BY <1>1, <1>8, <1>10, <1>11, <1>12 DEF S, D

\* A launch, on preferences that A of what was asked for would still have changed.
LEMMA LaunchDisk ==
  ASSUME NEW p, NEW lost, NEW new, NEW kept, NEW mgr, NEW listed, NEW shown, NEW its, NEW T, NEW cs,
         Starts(p, lost, new, kept, mgr, listed, shown, its, T, cs), PrefsOK(p), ItemsOK(items),
         NEW A, NEW F, NEW G, Disk(p, items, A, F, TRUE),
         \A i \in DOMAIN p : i \in F \cup Breaking(A) \cup lost => i \in G
  PROVE  /\ Disk(p, its, Asked(cs), G, FALSE)
         /\ \A i \in DOMAIN p \ G : IsGood(p, its, i, mgr[i])
         /\ \A i \in listed : Counts(p, items, A, F, TRUE, i)
<1> DEFINE B == Asked(cs)
<1>1. /\ B = Saves(p, mgr) \cup Drops(p, mgr, listed)
      /\ \A c \in B : c \in ManagerCalls /\ c.op \in {"save", "drop"}
  <2>1. \A i \in DOMAIN p : mgr[i] \in Managers
    BY StartedManager
  <2>2. cs \in Requests(Saves(p, mgr) \cup Drops(p, mgr, listed))
    BY DEF Starts
  <2> QED
    BY <2>1, <2>2, LaunchCalls
<1> HIDE DEF B
<1>2. ASSUME NEW c \in B
      PROVE  /\ \E i \in DOMAIN p : c.manager = mgr[i] /\ c.manager.id = i
             /\ c.op = "drop" => \E i \in DOMAIN p \ listed : c.manager = mgr[i] /\ c.manager.id = i
  BY <1>1, StartedManager DEF Saves, Drops, Migrating, Call
<1>3. Of(B, "drop") \cap listed = {}
  BY <1>2 DEF Of
<1>4. \A i \in DOMAIN p \ listed : i \in Of(B, "drop")
  <2> SUFFICES ASSUME NEW i \in DOMAIN p \ listed PROVE i \in Of(B, "drop")
    OBVIOUS
  <2>1. PICK c \in B : c.op = "drop" /\ c.manager = mgr[i]
    <3>1. Call("drop", NoRef, mgr[i]) \in B
      BY <1>1 DEF Drops
    <3> QED
      BY <3>1 DEF Call
  <2> QED
    BY <2>1, StartedManager DEF Of
<1>5. Breaking(B) = {}
  BY <1>1 DEF Breaking, Breaks
<1>6. \A i \in listed : i \in DOMAIN p
  BY DEF Starts
<1>7. \A i \in DOMAIN p : Live(p, its, i) => Live(p, items, i)
  BY StartedManager DEF Live
<1>8. \A i \in listed : Live(p, items, i)
  BY <1>6, StartedManager DEF Live
<1>9. \A i \in DOMAIN p : Counts(p, its, B, G, FALSE, i) => Counts(p, items, A, F, TRUE, i)
  BY <1>4, <1>7, <1>8 DEF Counts
<1>10. ASSUME NEW i \in DOMAIN p \ G PROVE IsGood(p, items, i, p[i]) /\ i \notin lost
  BY DEF Disk, Kept
<1>11. ASSUME NEW i \in DOMAIN p \ G PROVE IsGood(p, its, i, p[i]) /\ IsGood(p, its, i, mgr[i])
  <2>1. IsGood(p, items, i, p[i]) /\ i \notin lost
    BY <1>10
  <2>2. NoRef \notin Refs /\ DOMAIN items \subseteq Refs
    BY StoreAssumption DEF ItemsOK
  <2>3. CASE IsLegacy(p, i)
    <3>1. /\ mgr[i].ref = new[i] /\ new[i] \in DOMAIN kept /\ kept[new[i]] = p[i].legacy /\ i \in listed
          /\ mgr[i].legacy = NoBody
      BY <2>1, <2>3, StartedManager
    <3>2. mgr[i].ref \in DOMAIN its /\ its[mgr[i].ref] = p[i].legacy
      BY <3>1 DEF Starts
    <3> QED
      BY <2>1, <2>3, <3>1, <3>2 DEF IsGood, IsLegacy
  <2>4. CASE ~IsLegacy(p, i)
    <3>1. p[i].legacy = NoBody /\ p[i].ref \in DOMAIN items /\ items[p[i].ref] = p[i].saved
      BY <2>1, <2>4 DEF IsGood, IsLegacy
    <3>2. mgr[i].ref = p[i].ref /\ mgr[i].legacy = NoBody /\ p[i].ref \in DOMAIN kept /\ kept[p[i].ref] = items[p[i].ref]
      <4>1. mgr[i].ref = p[i].ref /\ mgr[i].legacy = NoBody /\ p[i].ref \in DOMAIN kept
        BY <2>4, <3>1, StartedManager
      <4> QED
        BY <3>1, <4>1 DEF Starts
    <3>3. i \in listed
      BY <3>1, <3>2, StartedManager
    <3>4. p[i].ref \in DOMAIN its /\ its[p[i].ref] = items[p[i].ref]
      BY <3>2, <3>3 DEF Starts
    <3> QED
      BY <3>1, <3>2, <3>4 DEF IsGood
  <2> QED
    BY <2>3, <2>4
<1>12. Kept(p, its, B, G)
  BY <1>11 DEF Kept
<1>13. Distinct(p, its, B, G, FALSE)
  BY <1>9 DEF Disk, Distinct
<1>14. \A c \in B : /\ AddOK(p, its, B, G, FALSE, c) /\ ModOK(p, its, B, G, FALSE, c) /\ NewItem(its, c)
                    /\ RulesOK(p, its, B, G, FALSE, c)
  BY <1>1 DEF AddOK, ModOK, NewItem, RulesOK
<1>15. ASSUME NEW c \in B PROVE SaveOK(p, its, B, G, c)
  <2>1. PICK i \in DOMAIN p : c.manager = mgr[i] /\ c.manager.id = i
    BY <1>2
  <2>2. mgr[i].legacy = NoBody /\ mgr[i].name = p[i].name
    BY StartedManager
  <2>3. i \notin G => IsGood(p, its, i, mgr[i])
    BY <1>11
  <2>4. IsLegacy(p, i) /\ i \in Of(B, "drop") => mgr[i].ref = NoRef
    BY <1>3, StartedManager
  <2> QED
    BY <2>1, <2>2, <2>3, <2>4 DEF SaveOK
<1>16. ASSUME NEW c \in B PROVE DropOK(p, its, c)
  <2> SUFFICES ASSUME c.op = "drop" PROVE DropOK(p, its, c)
    BY DEF DropOK
  <2>1. PICK i \in DOMAIN p \ listed : c.manager = mgr[i] /\ c.manager.id = i
    BY <1>2
  <2>2. IsLegacy(p, i) \/ ~Live(p, its, i)
    BY StartedManager
  <2> QED
    BY <2>1, <2>2 DEF DropOK
<1>17. Disk(p, its, B, G, FALSE)
  BY <1>12, <1>13, <1>14, <1>15, <1>16 DEF Disk
<1> QED
  BY <1>6, <1>8, <1>11, <1>17 DEF Counts, B

\* The list of a launch: one container for each configuration that is kept.
LEMMA LaunchList ==
  ASSUME NEW p, NEW lost, NEW new, NEW kept, NEW mgr, NEW listed, NEW shown, NEW its, NEW T, NEW cs,
         Starts(p, lost, new, kept, mgr, listed, shown, its, T, cs), PrefsOK(p), ItemsOK(items),
         NEW A, NEW F, NEW G, Disk(p, items, A, F, TRUE), NEW U, OneOwner(p, U, A),
         \A i \in DOMAIN p : i \in F \cup Breaking(A) \cup lost => i \in G
  PROVE  /\ List(p, its, T, Asked(cs), G, FALSE) /\ OneOwner(p, T, Asked(cs))
         /\ ListOK(T) /\ ItemsOK(its) /\ cs \in Seq(AllCalls) /\ InOrder(cs)
<1> DEFINE B == Asked(cs)
<1>1. /\ B = Saves(p, mgr) \cup Drops(p, mgr, listed)
      /\ \A c \in B : c \in ManagerCalls /\ c.op \in {"save", "drop"}
      /\ cs \in Seq(AllCalls) /\ InOrder(cs)
  <2>1. \A i \in DOMAIN p : mgr[i] \in Managers
    BY StartedManager
  <2>2. cs \in Requests(Saves(p, mgr) \cup Drops(p, mgr, listed))
    BY DEF Starts
  <2> QED
    BY <2>1, <2>2, LaunchCalls
<1> HIDE DEF B
<1>2. \A i \in listed : i \in DOMAIN p
  BY DEF Starts
<1>3. ASSUME NEW c \in DOMAIN T
      PROVE  LET i == shown[c] IN
             /\ i \in listed /\ i \in DOMAIN p /\ T[c].name = p[i].name /\ T[c].manager.name = p[i].name
             /\ T[c].manager.id = i /\ T[c].manager.ref = mgr[i].ref /\ T[c].manager.legacy = NoBody
             /\ (T[c].manager.available <=> mgr[i].ref \in DOMAIN kept) /\ T[c].manager.body = mgr[i].body
             /\ T[c] \in Containers
  <2> DEFINE i == shown[c]
  <2>1. i \in listed /\ i \in DOMAIN p
        /\ T[c] = [name |-> p[i].name, manager |-> [mgr[i] EXCEPT !.available = mgr[i].ref \in DOMAIN kept]]
    BY <1>2 DEF Starts
  <2>2. mgr[i] \in Managers /\ mgr[i].id = i /\ mgr[i].name = p[i].name /\ mgr[i].legacy = NoBody
    BY <2>1, StartedManager
  <2> HIDE DEF i
  <2>3. p[i].name \in AllNames
    BY <2>1 DEF PrefsOK, Entries
  <2> QED
    <3>1. PICK m : m = mgr[i]
      OBVIOUS
    <3>2. PICK n : n = [m EXCEPT !.available = m.ref \in DOMAIN kept]
      OBVIOUS
    <3>3. n.id = i /\ n.name = p[i].name /\ n.ref = m.ref /\ n.legacy = NoBody /\ n.body = m.body
          /\ (n.available <=> m.ref \in DOMAIN kept) /\ n \in Managers
      <4>1. CASE m.ref \in DOMAIN kept
        <5>1. n = [m EXCEPT !.available = TRUE]
          BY <3>2, <4>1, Zenon
        <5> QED
          BY <2>2, <3>1, <4>1, <5>1 DEF Managers
      <4>2. CASE m.ref \notin DOMAIN kept
        <5>1. n = [m EXCEPT !.available = FALSE]
          <6>1. (m.ref \in DOMAIN kept) = FALSE
            BY <4>2
          <6> QED
            BY <3>2, <6>1, Zenon
        <5> QED
          BY <2>2, <3>1, <4>2, <5>1 DEF Managers
      <4> QED
        BY <4>1, <4>2
    <3>4. T[c] = [name |-> p[i].name, manager |-> n]
      BY <2>1, <3>1, <3>2
    <3> QED
      BY <2>1, <2>3, <3>1, <3>3, <3>4 DEF Containers, i
<1>4. ASSUME NEW c \in B
      PROVE  /\ \E i \in DOMAIN p : c.manager = mgr[i] /\ c.manager.id = i
             /\ c.op = "drop" => \E i \in DOMAIN p \ listed : c.manager = mgr[i] /\ c.manager.id = i
             /\ c.op = "save" => \E i \in Migrating(p) : c.manager = mgr[i] /\ c.manager.id = i
  BY <1>1, StartedManager DEF Saves, Drops, Migrating, Call
<1>5. OneEach(T)
  BY <1>3 DEF OneEach, Id, Starts
<1>6. ShownGood(p, its, T, B, G)
  <2>1. \A i \in DOMAIN p \ G : IsGood(p, its, i, mgr[i])
    BY ONLY Starts(p, lost, new, kept, mgr, listed, shown, its, T, cs), PrefsOK(p), ItemsOK(items),
       Disk(p, items, A, F, TRUE), \A i \in DOMAIN p : i \in F \cup Breaking(A) \cup lost => i \in G,
       LaunchDisk
  <2> SUFFICES ASSUME NEW c \in DOMAIN T, T[c].manager.id \in DOMAIN p \ G
               PROVE  IsGood(p, its, T[c].manager.id, T[c].manager)
    BY DEF ShownGood
  <2>2. IsGood(p, its, T[c].manager.id, mgr[T[c].manager.id])
    BY <2>1
  <2> QED
    BY <2>2, <1>3, StartedManager DEF IsGood
<1>7. Named(T)
  BY <1>3 DEF Named, LegacyOK
<1>8. SavedWithout(T, B)
  BY <1>3 DEF SavedWithout
<1>9. ShownDistinct(T, FALSE)
  <2> SUFFICES ASSUME NEW c \in DOMAIN T, NEW d \in DOMAIN T, T[c].name = T[d].name PROVE c = d
    BY DEF ShownDistinct
  <2>1. Counts(p, items, A, F, TRUE, shown[c]) /\ Counts(p, items, A, F, TRUE, shown[d])
    BY <1>3, LaunchDisk
  <2>2. shown[c] = shown[d]
    BY <2>1, <1>3 DEF Disk, Distinct
  <2> QED
    BY <2>2 DEF Starts
<1>10. NoneDropped(T, B, FALSE)
  BY <1>3, <1>4 DEF NoneDropped, Of, Id
<1>11. AllShown(p, T, B, FALSE)
  <2> SUFFICES ASSUME NEW i \in DOMAIN p PROVE (\E c \in DOMAIN T : Id(T, c) = i) \/ i \in Of(B, "drop")
    BY DEF AllShown
  <2>1. CASE i \in listed
    BY <2>1, <1>3 DEF Starts, Id
  <2>2. CASE i \notin listed
    <3>1. PICK c \in B : c.op = "drop" /\ c.manager = mgr[i]
      <4>1. Call("drop", NoRef, mgr[i]) \in B
        BY <1>1, <2>2 DEF Drops
      <4> QED
        BY <4>1 DEF Call
    <3> QED
      BY <3>1, StartedManager DEF Of
  <2> QED
    BY <2>1, <2>2
<1>12. ShownAgree(p, T, B, FALSE)
  <2> SUFFICES ASSUME NEW c \in DOMAIN T
               PROVE  T[c].name = p[Id(T, c)].name /\ Agrees(p, B, Id(T, c), T[c].manager)
    BY DEF ShownAgree
  <2> DEFINE i == Id(T, c)
  <2>1. i \in DOMAIN p /\ T[c].name = p[i].name /\ T[c].manager.ref = mgr[i].ref /\ T[c].manager.legacy = NoBody
    BY <1>3 DEF Id
  <2> HIDE DEF i
  <2>2. \A s \in Saving(p, B, i) : s.manager = mgr[i]
    BY <1>4 DEF Saving
  <2>3. IsLegacy(p, i) => Saving(p, B, i) # {}
    <3> SUFFICES ASSUME IsLegacy(p, i) PROVE Saving(p, B, i) # {}
      OBVIOUS
    <3>1. Call("save", NoRef, mgr[i]) \in B
      BY <1>1, <2>1 DEF Saves, Migrating
    <3> QED
      BY <3>1, <2>1, StartedManager DEF Saving, Call
  <2>4. ~IsLegacy(p, i) => mgr[i].ref = p[i].ref
    BY <2>1, StartedManager
  <2> QED
    BY <2>1, <2>2, <2>3, <2>4 DEF Agrees, i
<1>13. \A c \in B : Adding(T, FALSE, c) /\ Modifying(p, its, T, B, c) /\ Removing(p, T, FALSE, c)
  BY <1>1 DEF Adding, Modifying, Removing
<1>14. \A c \in B : c.op \in EditOps => c.slot \in Slots
  BY <1>1 DEF EditOps
<1>15. OneOwner(p, T, B)
  <2>1. ASSUME NEW ref \in Refs, NEW i \in Ids, Held(p, T, B, ref, i)
        PROVE  /\ i \in DOMAIN p
               /\ p[i].ref = ref \/ (i \in Migrating(p) \ lost /\ new[i] = ref)
    <3>1. (i \in DOMAIN p /\ p[i].ref = ref) \/ (i \in DOMAIN p /\ mgr[i].ref = ref)
      BY <2>1, <1>3, <1>4 DEF Held
    <3> QED
      BY <3>1, StartedManager, StoreAssumption DEF Migrating
  <2>2. \A ref \in Refs : \A i, j \in DOMAIN p : p[i].ref = ref /\ p[j].ref = ref => i = j
    BY DEF OneOwner, Held, PrefsOK
  <2> QED
    BY <2>1, <2>2 DEF OneOwner, Starts
<1>16. ListOK(T)
  <2>1. \A c \in DOMAIN T : T[c] \in Containers /\ (T[c].manager.available => T[c].manager.body # NoBody)
    <3> SUFFICES ASSUME NEW c \in DOMAIN T, mgr[shown[c]].ref \in DOMAIN kept PROVE mgr[shown[c]].body # NoBody
      BY <1>3
    <3>1. mgr[shown[c]].body \in Bodies
      BY <1>3, StartedManager
    <3> QED
      BY <3>1, StoreAssumption
  <2> QED
    BY <2>1 DEF ListOK, Starts
<1>17. ItemsOK(its)
  <2>1. \A ref \in DOMAIN kept : ref \in Refs /\ kept[ref] \in Bodies
    <3>1. \A i \in Migrating(p) \ lost : new[i] \in Refs /\ kept[new[i]] = p[i].legacy /\ p[i].legacy \in Bodies
      BY DEF Starts, Migrating, PrefsOK, Entries, IsLegacy
    <3> QED
      BY <3>1 DEF Starts, ItemsOK
  <2> QED
    BY <2>1 DEF Starts, ItemsOK
<1> QED
  BY <1>1, <1>5, <1>6, <1>7, <1>9, <1>10, <1>11, <1>12, <1>13, <1>14, <1>15, <1>16, <1>17, <1>8 DEF List, B

\* The disk after a step, from its parts.
LEMMA DiskNext ==
  ASSUME world' = world, Disk(prefs', items', Asked(calls'), failed', refused')
  PROVE  Disk(prefs, items, Asked(calls), failed, refused)'
<1>1. Distinct(prefs, items, Asked(calls), failed, refused)'
  BY DEF Disk, Distinct, Counts, Live, IsLegacy
<1>2. (\A c \in Asked(calls) : AddOK(prefs, items, Asked(calls), failed, refused, c))'
  BY DEF Disk, AddOK, Free, Counts, Live, IsLegacy
<1>3. (\A c \in Asked(calls) : ModOK(prefs, items, Asked(calls), failed, refused, c))'
  BY DEF Disk, ModOK, Free, Counts, Live, IsLegacy
<1>4. (\A c \in Asked(calls) : DropOK(prefs, items, c))'
  BY DEF Disk, DropOK, Live, IsLegacy
<1> QED
  BY <1>1, <1>2, <1>3, <1>4 DEF Disk

Types ==
  /\ PrefsOK(prefs) /\ ItemsOK(items) /\ ListOK(tunnels) /\ calls \in Seq(AllCalls)
  /\ changed \in BOOLEAN /\ world \in Worlds /\ failed \subseteq Ids /\ messy \in BOOLEAN /\ refused \in BOOLEAN

\* What an edit cut off by a crash leaves open counts as failed.
LEMMA CutOffIs ==
  ASSUME NEW cs \in Seq(AllCalls), NEW n \in 0 .. Len(cs)
  PROVE  Breaking(After(cs, n)) \subseteq CutOff(SubSeq(cs, n + 1, Len(cs)))
<1> SUFFICES ASSUME NEW j \in DOMAIN cs, j > n, cs[j].op # "load", Breaks(cs[j])
             PROVE  cs[j].manager.id \in CutOff(SubSeq(cs, n + 1, Len(cs)))
  BY DEF Breaking, After
<1> DEFINE s == SubSeq(cs, n + 1, Len(cs))
<1>1. j \in 1 .. Len(cs) /\ j \in Nat /\ n \in Nat /\ Len(cs) \in Nat /\ n + 1 \in 1 .. Len(cs)
  OBVIOUS
<1>2. s = [k \in 1 .. (Len(cs) - (n + 1) + 1) |-> cs[n + 1 + k - 1]]
  BY <1>1
<1>3. j - n \in DOMAIN s /\ s[j - n] = cs[j]
  BY <1>1, <1>2
<1> HIDE DEF s
<1>4. cs[j] \in ToSet(s) /\ cs[j].op \in {"modify", "remove"}
  BY <1>3 DEF ToSet, Breaks
<1> QED
  BY <1>4 DEF CutOff, s

\* A crash and the launch after it, however many requests still reach the system.
LEMMA RelaunchKeeps ==
  ASSUME Types, StoreInv, NEW n \in 0 .. Len(calls), NEW lost, Relaunch(n, lost)
  PROVE  Types' /\ StoreInv'
<1> DEFINE q == AfterCalls(n)[n]
           A == After(calls, n)
           F == failed \ UNION {Mended(c) : c \in ToSet(SubSeq(calls, 1, n))}
           l == lost \cap DOMAIN q
<1>1. /\ prefs' = q /\ Launch(q, l) /\ changed' = FALSE /\ messy' = (lost # {}) /\ refused' = FALSE /\ world' = world
      /\ failed' = (DOMAIN q) \cap (lost \cup F \cup CutOff(SubSeq(calls, n + 1, Len(calls))))
  BY DEF Relaunch
<1>2. PrefsOK(q) /\ OneOwner(q, tunnels, A) /\ Disk(q, items, A, F, TRUE)
  BY AfterCallsDisk DEF Types, StoreInv
<1> HIDE DEF q, A, F
<1>3. \A i \in DOMAIN q : i \in F \cup Breaking(A) \cup l => i \in failed'
  BY <1>1, CutOffIs DEF Types, A
<1>4. PICK new, kept, mgr, listed, shown : Starts(q, l, new, kept, mgr, listed, shown, items', tunnels', calls')
  BY <1>1, LaunchStarts
<1>5. ItemsOK(items)
  BY DEF Types
<1>6. PICK its, T, cs, G : its = items' /\ T = tunnels' /\ cs = calls' /\ G = failed'
  OBVIOUS
<1>7. Starts(q, l, new, kept, mgr, listed, shown, its, T, cs) /\ \A i \in DOMAIN q : i \in F \cup Breaking(A) \cup l => i \in G
  BY <1>3, <1>4, <1>6
<1>8. Disk(q, its, Asked(cs), G, FALSE)
  BY <1>2, <1>5, <1>7, LaunchDisk
<1>9. /\ List(q, its, T, Asked(cs), G, FALSE) /\ OneOwner(q, T, Asked(cs))
      /\ ListOK(T) /\ ItemsOK(its) /\ cs \in Seq(AllCalls) /\ InOrder(cs)
  BY <1>2, <1>5, <1>7, LaunchList
<1>10. Disk(prefs', items', Asked(calls'), failed', refused') /\ List(prefs', items', tunnels', Asked(calls'), failed', refused')
       /\ OneOwner(prefs', tunnels', Asked(calls')) /\ InOrder(calls')
  BY <1>1, <1>6, <1>8, <1>9
<1>11. StoreInv'
  BY <1>1, <1>10, DiskNext DEF StoreInv
<1>12. failed' \subseteq Ids /\ messy' \in BOOLEAN /\ PrefsOK(prefs')
  BY <1>1, <1>2 DEF PrefsOK
<1>13. ItemsOK(items') /\ ListOK(tunnels') /\ calls' \in Seq(AllCalls)
  BY <1>6, <1>9
<1> QED
  BY <1>1, <1>11, <1>12, <1>13 DEF Types

-----------------------------------------------------------------------------
(* References, containers and identities not yet in use.                   *)

\* The least of a set of numbers is one of them.
LEMMA MinIs ==
  ASSUME NEW S \in SUBSET Nat, S # {}
  PROVE  Min(S) \in S
<1>1. \E x \in S : \A y \in S : x <= y
  BY LeastNatural
<1> QED
  BY <1>1 DEF Min

\* An item just made has a reference that nobody holds.
LEMMA FreshRef ==
  ASSUME NEW s, Refs \ RefsInUse(prefs, s) # {}
  PROVE  /\ NewRef(s) \in Refs /\ NewRef(s) \notin DOMAIN s.items /\ NewRef(s) # NoRef /\ NewRef(s) # NoProtocol
         /\ \A i \in DOMAIN prefs : prefs[i].ref # NewRef(s)
         /\ \A c \in DOMAIN s.tunnels : s.tunnels[c].manager.ref # NewRef(s)
         /\ \A c \in Asked(s.calls) : c.manager.ref # NewRef(s)
<1>1. Refs \ RefsInUse(prefs, s) \in SUBSET Nat
  BY StoreAssumption
<1>2. NewRef(s) \in Refs \ RefsInUse(prefs, s)
  BY <1>1, MinIs DEF NewRef
<1>3. NewRef(s) # NoRef /\ NewRef(s) # NoProtocol
  BY <1>2, StoreAssumption DEF NoRef, NoProtocol
<1> QED
  BY <1>2, <1>3 DEF RefsInUse, Asked

\* A container just made is not in the list and in no request.
LEMMA FreshSlot ==
  ASSUME NEW s, Slots \ SlotsInUse(s) # {}
  PROVE  /\ NewSlot(s) \in Slots /\ NewSlot(s) \notin DOMAIN s.tunnels
         /\ \A c \in Asked(s.calls) : c.slot # NewSlot(s)
<1>1. Slots \ SlotsInUse(s) \in SUBSET Nat
  BY StoreAssumption
<1>2. NewSlot(s) \in Slots \ SlotsInUse(s)
  BY <1>1, MinIs DEF NewSlot
<1> QED
  BY <1>2 DEF SlotsInUse, Asked

\* A manager just made has an identity that nothing has.
LEMMA FreshId ==
  ASSUME FreshIds # {}
  PROVE  /\ Min(FreshIds) \in Ids /\ Min(FreshIds) \notin DOMAIN prefs
         /\ \A c \in DOMAIN tunnels : tunnels[c].manager.id # Min(FreshIds)
         /\ \A c \in Asked(calls) : c.manager.id # Min(FreshIds)
<1>1. FreshIds \in SUBSET Nat
  BY StoreAssumption DEF FreshIds
<1>2. Min(FreshIds) \in FreshIds
  BY <1>1, MinIs
<1> QED
  BY <1>2 DEF FreshIds, AboutManager, Asked

\* An edit is asked for only when none is under way.
LEMMA EditRoom ==
  ASSUME Types, StoreInv, MayEdit
  PROVE  /\ \A c \in ToSet(calls) : c.op \notin EditOps
         /\ \A c \in Asked(calls) : c.op \in {"save", "drop"} /\ c \in ManagerCalls
         /\ refused = FALSE /\ Breaking(Asked(calls)) = {}
         /\ Refs \ RefsInUse(prefs, Now) # {} /\ Slots \ SlotsInUse(Now) # {}
         /\ Now.items = items /\ Now.tunnels = tunnels /\ Now.calls = calls
<1>1. \A c \in ToSet(calls) : c.op \notin EditOps
  BY DEF MayEdit, EditCalls
<1>2. \A c \in Asked(calls) : c.op \in {"save", "drop"} /\ c \in ManagerCalls
  BY <1>1, AskedIsAfter, CallFields DEF Types, Asked, EditOps
<1>3. Breaking(Asked(calls)) = {}
  BY <1>2 DEF Breaking, Breaks
<1>4. Refs \ RefsInUse(prefs, Now) # {}
  <2> SUFFICES ASSUME Refs \ RefsInUse(prefs, Now) = {} PROVE FALSE
    OBVIOUS
  <2>1. Cardinality({}) = 0 /\ Cardinality(Ids) \in Nat
    BY FS_EmptySet, FS_CardinalityType, StoreAssumption
  <2>2. Cardinality(Refs \ RefsInUse(prefs, Now)) > Cardinality(Ids)
    BY DEF MayEdit
  <2> QED
    BY <2>1, <2>2
<1> QED
  BY <1>1, <1>2, <1>3, <1>4 DEF MayEdit, Types, Now

-----------------------------------------------------------------------------
(* add, modify, remove: up to the request.                                 *)

\* The name of an edit is free.
LEMMA NameFree ==
  ASSUME Types, StoreInv, MayEdit, NEW name, NEW id,
         (name \in Names /\ ~NameTaken(name)) \/ (\E c \in DOMAIN tunnels : tunnels[c].name = name /\ Id(tunnels, c) = id
                                                                     /\ id \in DOMAIN prefs),
         NEW i \in DOMAIN prefs, i # id, prefs[i].name = name
  PROVE  ~Counts(prefs, items, Asked(calls), failed, FALSE, i)
<1> DEFINE A == Asked(calls)
<1>1. /\ refused = FALSE /\ Breaking(A) = {} /\ \A c \in A : c.op \in {"save", "drop"}
      /\ Disk(prefs, items, A, failed, FALSE) /\ List(prefs, items, tunnels, A, failed, FALSE)
  BY EditRoom DEF StoreInv
<1> HIDE DEF A
<1>2. Of(A, "modify") = {}
  BY <1>1 DEF Of
<1>3. CASE \E c \in DOMAIN tunnels : tunnels[c].name = name /\ Id(tunnels, c) = id /\ id \in DOMAIN prefs
  <2>1. PICK c \in DOMAIN tunnels : tunnels[c].name = name /\ Id(tunnels, c) = id /\ id \in DOMAIN prefs
    BY <1>3
  <2>2. id \notin Of(A, "drop") /\ prefs[id].name = name
    BY <1>1, <1>2, <2>1 DEF List, NoneDropped, ShownAgree
  <2>3. Counts(prefs, items, A, failed, FALSE, id)
    BY <2>2 DEF Counts
  <2> QED
    BY <1>1, <2>1, <2>2, <2>3 DEF Disk, Distinct, A
<1>4. CASE name \in Names /\ ~NameTaken(name)
  <2>1. ~IsLegacy(prefs, i)
    BY <1>1, <1>4, StoreAssumption DEF Disk, Legacies, LegacyOK, IsLegacy
  <2>2. \A c \in DOMAIN tunnels : Id(tunnels, c) # i
    BY <1>1, <1>2, <1>4 DEF List, ShownAgree, NameTaken
  <2>3. i \in Of(A, "drop")
    BY <1>1, <2>1, <2>2 DEF List, AllShown
  <2>4. ~Live(prefs, items, i)
    BY <1>1, <2>1, <2>3 DEF Disk, DropOK, Of
  <2>5. i \in failed
    <3> SUFFICES ASSUME i \notin failed PROVE FALSE
      OBVIOUS
    <3>1. prefs[i].ref \in DOMAIN items
      BY <1>1, <2>1 DEF Disk, Kept, IsGood, IsLegacy
    <3> QED
      BY <2>4, <3>1, StoreAssumption DEF Live, Types, ItemsOK
  <2> QED
    BY <2>3, <2>4, <2>5 DEF Counts, A
<1> QED
  BY <1>3, <1>4

\* An edit c joins; its old item goes, and a new one may come.
Joining(c, new, old) ==
  /\ c \in ManagerCalls /\ c.op \in EditOps /\ c.slot \in Slots
  /\ old \in Refs => Breaks(c) /\ Held(prefs, tunnels, Asked(calls), old, c.manager.id)
  /\ \A ref \in DOMAIN items \ {old} : Same(items, new, ref)
  /\ \A i \in DOMAIN prefs : prefs[i].ref \in DOMAIN new => prefs[i].ref \in DOMAIN items

\* The request of an edit joins: less counts, and its own conditions hold.
LEMMA EditJoins ==
  ASSUME Types, StoreInv, MayEdit, NEW c, NEW new, NEW old, Joining(c, new, old)
  PROVE  LET A == Asked(calls) B == A \cup {c} IN
         /\ Breaking(B) = IF Breaks(c) THEN {c.manager.id} ELSE {}
         /\ Of(B, "drop") = Of(A, "drop") /\ Of(B, "save") = Of(A, "save")
         /\ \A i : Saving(prefs, B, i) = Saving(prefs, A, i)
         /\ \A ref, i : i \in Ids \ Breaking(B) /\ Held(prefs, tunnels, A, ref, i) => Same(items, new, ref)
         /\ \A i \in DOMAIN prefs : Counts(prefs, new, B, failed, FALSE, i) => Counts(prefs, items, A, failed, FALSE, i)
         /\ AddOK(prefs, new, B, failed, FALSE, c) /\ ModOK(prefs, new, B, failed, FALSE, c)
            /\ NewItem(new, c) /\ RulesOK(prefs, new, B, failed, FALSE, c)
            /\ (\A d \in A : c.op = "rules" /\ d.op = "save" /\ d.manager.id = c.manager.id => c.manager.legacy = NoBody)
              => /\ Disk(prefs, new, B, failed, FALSE)
                 /\ InOrder(Append(calls, c)) /\ Append(calls, c) \in Seq(AllCalls) /\ Asked(Append(calls, c)) = B
<1> DEFINE A == Asked(calls)
           B == A \cup {c}
<1>1. /\ \A d \in ToSet(calls) : d.op \notin EditOps
      /\ \A d \in A : d.op \in {"save", "drop"} /\ d \in ManagerCalls
      /\ refused = FALSE /\ Breaking(A) = {}
  BY EditRoom
<1>2. c \in ManagerCalls /\ c.op \in EditOps
  BY DEF Joining
<1>3. Disk(prefs, items, A, failed, FALSE) /\ OneOwner(prefs, tunnels, A) /\ InOrder(calls)
  BY <1>1 DEF StoreInv
<1>4. ItemsOK(items) /\ PrefsOK(prefs) /\ calls \in Seq(AllCalls)
  BY DEF Types
<1> HIDE DEF A
<1>5. Breaking(B) = IF Breaks(c) THEN {c.manager.id} ELSE {}
  BY <1>1 DEF Breaking
<1>6. Of(B, "drop") = Of(A, "drop") /\ Of(B, "save") = Of(A, "save")
  BY <1>2 DEF Of, EditOps
<1>7. \A i : Saving(prefs, B, i) = Saving(prefs, A, i)
  BY <1>2 DEF Saving, EditOps
<1>8. ASSUME NEW ref, NEW i, i \in Ids \ Breaking(B), Held(prefs, tunnels, A, ref, i) PROVE Same(items, new, ref)
  <2>1. CASE ref # old
    BY <2>1 DEF Joining, Same
  <2>2. CASE ref = old /\ ref \in Refs
    <3>1. Breaks(c) /\ Held(prefs, tunnels, A, ref, c.manager.id) /\ c.manager.id \in Ids
      BY <1>2, <2>2, CallFields DEF Joining, A
    <3>2. i = c.manager.id
      BY <1>3, <1>8, <2>2, <3>1 DEF OneOwner
    <3> QED
      BY <1>5, <1>8, <3>1, <3>2
  <2>3. CASE ref \notin Refs
    BY <2>3, <1>4 DEF Same, ItemsOK
  <2> QED
    BY <2>1, <2>2, <2>3
<1>9. \A i \in DOMAIN prefs : Live(prefs, new, i) => Live(prefs, items, i)
  BY DEF Live, Joining
<1>10. \A i \in DOMAIN prefs : Counts(prefs, new, B, failed, FALSE, i) => Counts(prefs, items, A, failed, FALSE, i)
  BY <1>6, <1>9 DEF Counts
<1>11. ASSUME AddOK(prefs, new, B, failed, FALSE, c), ModOK(prefs, new, B, failed, FALSE, c),
              NewItem(new, c), RulesOK(prefs, new, B, failed, FALSE, c)
       PROVE  Disk(prefs, new, B, failed, FALSE)
  <2>1. SaveOK(prefs, new, B, failed, c)
    BY <1>2 DEF SaveOK, EditOps
  <2>2. \A i \in DOMAIN prefs \ (failed \cup Breaking(B)) : Same(items, new, prefs[i].ref)
    BY <1>4, <1>8 DEF Held, PrefsOK
  <2>3. \A d \in A : d.manager.id \notin failed \cup Breaking(B) \/ d.op \in {"add", "modify", "rules"} =>
          Same(items, new, d.manager.ref)
    <3> SUFFICES ASSUME NEW d \in A, d.manager.id \notin Breaking(B) \/ d.op \in {"add", "modify", "rules"}
                 PROVE  Same(items, new, d.manager.ref)
      OBVIOUS
    <3>1. d.op \in {"save", "drop"} /\ d.manager.id \in Ids /\ Held(prefs, tunnels, A, d.manager.ref, d.manager.id)
      BY <1>1, CallFields DEF Held
    <3> QED
      BY <1>8, <3>1
  <2>4. Joins(prefs, items, new, A, {c}, failed, FALSE)
    BY <1>1, <1>2, <1>9, <1>11, <2>1, <2>2, <2>3 DEF Joins, EditOps
  <2> QED
    BY <1>3, <2>4, Join
<1>12. ASSUME \A d \in A : c.op = "rules" /\ d.op = "save" /\ d.manager.id = c.manager.id => c.manager.legacy = NoBody
       PROVE  InOrder(Append(calls, c)) /\ Append(calls, c) \in Seq(AllCalls) /\ Asked(Append(calls, c)) = B
  <2>1. c \in AllCalls /\ c.op \notin {"load", "save", "drop"}
    BY <1>2 DEF AllCalls, EditOps
  <2> QED
    BY <1>1, <1>3, <1>4, <1>12, <2>1, AppendInOrder DEF A
<1> QED
  BY <1>5, <1>6, <1>7, <1>8, <1>10, <1>11, <1>12 DEF A

\* The invariant after a step, from its parts.
LEMMA InvNext ==
  ASSUME world' = world, InOrder(calls'), OneOwner(prefs', tunnels', Asked(calls')),
         Disk(prefs', items', Asked(calls'), failed', refused'),
         List(prefs', items', tunnels', Asked(calls'), failed', refused')
  PROVE  StoreInv'
BY DiskNext DEF StoreInv

\* The two ways of having no reference are no references.
LEMMA NoRefs == NoRef \notin Refs /\ NoProtocol \notin Refs /\ NoRef # NoProtocol
BY StoreAssumption DEF NoRef, NoProtocol

\* add.
LEMMA AddKeeps ==
  ASSUME Types, StoreInv, NEW name \in Names, NEW body \in Bodies, Add(name, body)
  PROVE  Types' /\ StoreInv'
<1> DEFINE ref == NewRef(Now)
           i0 == Min(FreshIds)
           sl == NewSlot(Now)
           A == Asked(calls)
<1>1. /\ MayEdit /\ ~NameTaken(name) /\ FreshIds # {}
      /\ UNCHANGED <<prefs, tunnels, changed, world, failed, messy, refused>>
  BY DEF Add
<1>2. PICK m : m = [id |-> i0, name |-> name, ref |-> ref, legacy |-> NoBody, available |-> TRUE, body |-> body]
  OBVIOUS
<1>3. \/ items' = WithItem(items, ref, body, NoRef) /\ calls' = Append(calls, Call("add", sl, m))
      \/ items' = items /\ calls' = Append(calls, Call("add", sl, [m EXCEPT !.ref = NoProtocol]))
  BY <1>2 DEF Add
<1>4. /\ ref \in Refs /\ ref \notin DOMAIN items /\ \A i \in DOMAIN prefs : prefs[i].ref # ref
      /\ \A c \in DOMAIN tunnels : tunnels[c].manager.ref # ref
      /\ \A c \in A : c.manager.ref # ref
  BY <1>1, EditRoom, FreshRef
<1>5. sl \in Slots /\ sl \notin DOMAIN tunnels
  BY <1>1, EditRoom, FreshSlot
<1>6. i0 \in Ids /\ i0 \notin DOMAIN prefs /\ (\A c \in DOMAIN tunnels : tunnels[c].manager.id # i0)
      /\ (\A c \in A : c.manager.id # i0)
  BY <1>1, FreshId
<1>7. refused = FALSE /\ (\A c \in A : c.op \in {"save", "drop"}) /\ ItemsOK(items) /\ name \in AllNames
  BY <1>1, EditRoom DEF Types, AllNames
<1> HIDE DEF ref, i0, sl, A
<1>8. PICK c, new :
                /\ c.op = "add" /\ c.manager.id = i0 /\ c.manager.name = name /\ c.slot = sl /\ c.manager.legacy = NoBody
                /\ c.manager.available = TRUE
                /\ c \in ManagerCalls /\ new = items' /\ calls' = Append(calls, c) /\ ItemsOK(new)
                /\ \A r \in DOMAIN items : Same(items, new, r)
                /\ \A i \in DOMAIN prefs : prefs[i].ref \in DOMAIN new => prefs[i].ref \in DOMAIN items
                /\ \/ c.manager.ref = NoProtocol
                   \/ c.manager.ref = ref /\ ref \in DOMAIN new /\ new[ref] = c.manager.body
  <2>1. m \in Managers /\ [m EXCEPT !.ref = NoProtocol] \in Managers
    BY <1>2, <1>4, <1>6, <1>7 DEF Managers
  <2>2. \A n \in Managers : Call("add", sl, n) \in ManagerCalls
    BY <1>5 DEF Call, ManagerCalls, Ops
  <2>3. CASE items' = WithItem(items, ref, body, NoRef) /\ calls' = Append(calls, Call("add", sl, m))
    <3>1. PICK new : new = WithItem(items, ref, body, NoRef)
      OBVIOUS
    <3>2. /\ \A r : r \in DOMAIN new <=> r \in DOMAIN items \/ r = ref
          /\ new[ref] = body /\ \A r \in DOMAIN items : new[r] = items[r]
      BY <1>4, <1>7, <3>1, NoRefs DEF WithItem, With, Without, ItemsOK
    <3>3. ItemsOK(new)
      BY <1>4, <1>7, <3>2 DEF ItemsOK
    <3> WITNESS Call("add", sl, m), new
    <3>4. Call("add", sl, m) \in ManagerCalls
      BY <2>1, <2>2
    <3> QED
      BY <1>2, <1>4, <2>3, <3>1, <3>2, <3>3, <3>4 DEF Call, Same
  <2>4. CASE items' = items /\ calls' = Append(calls, Call("add", sl, [m EXCEPT !.ref = NoProtocol]))
    <3> WITNESS Call("add", sl, [m EXCEPT !.ref = NoProtocol]), items
    <3>4. Call("add", sl, [m EXCEPT !.ref = NoProtocol]) \in ManagerCalls
      BY <2>1, <2>2
    <3> QED
      BY <1>2, <1>7, <2>4, <3>4 DEF Call, Same
  <2> QED
    BY <1>3, <2>3, <2>4
<1>9. c.op = "add" /\ c.manager.id = i0 /\ c.manager.name = name /\ c.slot = sl /\ c.manager.legacy = NoBody
      /\ c \in ManagerCalls
  BY <1>8
<1>10. (\A r \in DOMAIN items : Same(items, new, r))
       /\ \A i \in DOMAIN prefs : prefs[i].ref \in DOMAIN new => prefs[i].ref \in DOMAIN items
  BY <1>8
<1>11. Joining(c, new, NoRef)
  BY <1>5, <1>9, <1>10, NoRefs DEF Joining, EditOps
<1> DEFINE B == A \cup {c}
<1>12. /\ Breaking(B) = {} /\ Of(B, "drop") = Of(A, "drop") /\ Of(B, "save") = Of(A, "save")
       /\ \A i : Saving(prefs, B, i) = Saving(prefs, A, i)
       /\ \A i \in DOMAIN prefs : Counts(prefs, new, B, failed, FALSE, i) => Counts(prefs, items, A, failed, FALSE, i)
       /\ AddOK(prefs, new, B, failed, FALSE, c) /\ ModOK(prefs, new, B, failed, FALSE, c)
            /\ NewItem(new, c) /\ RulesOK(prefs, new, B, failed, FALSE, c)
              => /\ Disk(prefs, new, B, failed, FALSE)
                 /\ InOrder(Append(calls, c)) /\ Append(calls, c) \in Seq(AllCalls) /\ Asked(Append(calls, c)) = B
  BY <1>1, <1>8, <1>11, EditJoins DEF Breaks, A
<1>13. AddOK(prefs, new, B, failed, FALSE, c)
  <2>1. \A i \in DOMAIN prefs : i # i0 /\ prefs[i].name = name => ~Counts(prefs, items, A, failed, FALSE, i)
    BY <1>1, NameFree DEF A
  <2>2. Free(prefs, new, B, failed, FALSE, c.manager)
    BY <1>8, <1>12, <2>1 DEF Free
  <2> QED
    BY <1>6, <1>8, <2>2 DEF AddOK
<1>14. ModOK(prefs, new, B, failed, FALSE, c) /\ NewItem(new, c) /\ RulesOK(prefs, new, B, failed, FALSE, c)
  <2>1. NewItem(new, c)
    BY <1>8 DEF NewItem
  <2> QED
    BY <1>9, <2>1 DEF ModOK, RulesOK
<1>15. /\ Disk(prefs, new, B, failed, FALSE) /\ InOrder(calls') /\ calls' \in Seq(AllCalls) /\ Asked(calls') = B
  BY <1>8, <1>12, <1>13, <1>14
<1>16. List(prefs, items, tunnels, A, failed, FALSE) /\ OneOwner(prefs, tunnels, A)
  BY <1>7 DEF StoreInv, A
<1>17. List(prefs, new, tunnels, B, failed, FALSE)
  <2>1. ShownGood(prefs, new, tunnels, B, failed)
    <3>1. ShownGood(prefs, items, tunnels, A, failed) /\ Breaking(A) = {}
      BY <1>1, <1>16, EditRoom DEF List, A
    <3>2. \A r : Same(items, new, r)
      BY <1>10 DEF Same
    <3> QED
      BY <1>12, <3>1, <3>2 DEF ShownGood, IsGood, Same
  <2>2. ShownAgree(prefs, tunnels, B, FALSE)
    BY <1>8, <1>12, <1>16 DEF List, ShownAgree, Agrees, Of
  <2>3. Adding(tunnels, FALSE, c)
    BY <1>1, <1>5, <1>6, <1>8 DEF Adding, Id, NameTaken
  <2>4. \A d \in B : Adding(tunnels, FALSE, d) /\ Modifying(prefs, new, tunnels, B, d) /\ Removing(prefs, tunnels, FALSE, d)
    BY <1>7, <1>8, <2>3 DEF Adding, Modifying, Removing
  <2>5. \A d \in B : d.op \in EditOps => d.slot \in Slots
    BY <1>5, <1>7, <1>8 DEF EditOps
  <2>6. SavedWithout(tunnels, B)
    BY <1>8, <1>16 DEF List, SavedWithout
  <2>7. NoneDropped(tunnels, B, FALSE) /\ AllShown(prefs, tunnels, B, FALSE)
    BY <1>12, <1>16 DEF List, NoneDropped, AllShown
  <2> QED
    BY <1>16, <2>1, <2>2, <2>4, <2>5, <2>6, <2>7 DEF List
<1>18. OneOwner(prefs, tunnels, B)
  <2>1. ASSUME NEW r \in Refs, NEW i \in Ids, Held(prefs, tunnels, B, r, i)
        PROVE  Held(prefs, tunnels, A, r, i) \/ (r = ref /\ i = i0)
    <3>1. c.manager.id = i0 /\ (c.manager.ref = ref \/ c.manager.ref \notin Refs)
      BY <1>8, NoRefs
    <3> QED
      BY <2>1, <3>1 DEF Held
  <2>2. \A i : ~Held(prefs, tunnels, A, ref, i)
    BY <1>4 DEF Held
  <2> QED
    BY <1>16, <2>1, <2>2 DEF OneOwner
<1>19. StoreInv'
  <2>1. prefs' = prefs /\ tunnels' = tunnels /\ failed' = failed /\ refused' = FALSE /\ items' = new /\ world' = world
    BY <1>1, <1>7, <1>8
  <2> QED
    BY <1>15, <1>17, <1>18, <2>1, InvNext
<1> QED
  BY <1>1, <1>8, <1>15, <1>19 DEF Types

\* remove.
LEMMA RemoveKeeps ==
  ASSUME Types, StoreInv, NEW x \in DOMAIN tunnels, RemoveTunnel(x)
  PROVE  Types' /\ StoreInv'
<1> DEFINE A == Asked(calls)
<1>1. MayEdit /\ UNCHANGED <<prefs, tunnels, changed, world, failed, messy, refused>>
  BY DEF RemoveTunnel
<1>2. PICK m : m = tunnels[x].manager
  OBVIOUS
<1>3. PICK c : c = Call("remove", x, m)
  OBVIOUS
<1>4. PICK new : new = items'
  OBVIOUS
<1>5. (new = Without(items, m.ref) \/ new = items) /\ calls' = Append(calls, c)
  BY <1>2, <1>3, <1>4 DEF RemoveTunnel
<1>6. m \in Managers /\ x \in Slots /\ m.id \in Ids /\ m.id = Id(tunnels, x)
  BY <1>2 DEF Types, ListOK, Containers, Managers, Id
<1>7. c \in ManagerCalls /\ c.op = "remove" /\ c.slot = x /\ c.manager = m
  BY <1>3, <1>6 DEF Call, ManagerCalls, Ops
<1>8. /\ \A r \in DOMAIN items \ {m.ref} : Same(items, new, r)
      /\ DOMAIN new \subseteq DOMAIN items /\ \A r \in DOMAIN new : new[r] = items[r]
  BY <1>5 DEF Without, Same
<1>9. ItemsOK(items) /\ ItemsOK(new)
  BY <1>8 DEF Types, ItemsOK
<1>10. refused = FALSE /\ (\A d \in A : d.op \in {"save", "drop"})
  BY <1>1, EditRoom
<1> HIDE DEF A
<1>11. Joining(c, new, m.ref)
  <2>1. Held(prefs, tunnels, A, m.ref, m.id)
    BY <1>2 DEF Held
  <2> QED
    BY <1>6, <1>7, <1>8, <2>1 DEF Joining, EditOps, Breaks, A
<1> DEFINE B == A \cup {c}
<1>12. AddOK(prefs, new, B, failed, FALSE, c) /\ ModOK(prefs, new, B, failed, FALSE, c)
       /\ NewItem(new, c) /\ RulesOK(prefs, new, B, failed, FALSE, c)
  BY <1>7 DEF AddOK, ModOK, NewItem, RulesOK
<1>13. /\ Breaking(B) = {m.id} /\ Of(B, "drop") = Of(A, "drop") /\ Of(B, "save") = Of(A, "save")
       /\ \A i : Saving(prefs, B, i) = Saving(prefs, A, i)
       /\ \A ref, i : i \in Ids \ Breaking(B) /\ Held(prefs, tunnels, A, ref, i) => Same(items, new, ref)
       /\ Disk(prefs, new, B, failed, FALSE) /\ InOrder(calls') /\ calls' \in Seq(AllCalls) /\ Asked(calls') = B
  BY <1>1, <1>5, <1>7, <1>11, <1>12, EditJoins DEF A, Breaks
<1>14. List(prefs, items, tunnels, A, failed, FALSE) /\ OneOwner(prefs, tunnels, A) /\ Breaking(A) = {}
  BY <1>1, <1>10, EditRoom DEF StoreInv, A
<1>15. List(prefs, new, tunnels, B, failed, FALSE)
  <2>1. ShownGood(prefs, new, tunnels, B, failed)
    <3> SUFFICES ASSUME NEW t \in DOMAIN tunnels, tunnels[t].manager.id \in DOMAIN prefs \ (failed \cup Breaking(B)),
                        tunnels[t].manager.ref # NoProtocol
                 PROVE  IsGood(prefs, new, tunnels[t].manager.id, tunnels[t].manager)
      BY DEF ShownGood
    <3>1. IsGood(prefs, items, tunnels[t].manager.id, tunnels[t].manager)
      BY <1>14 DEF List, ShownGood
    <3>2. tunnels[t].manager.id \in Ids
      BY DEF Types, PrefsOK
    <3>3. Same(items, new, tunnels[t].manager.ref)
      BY <1>13, <3>2 DEF Held
    <3> QED
      BY <3>1, <3>3 DEF IsGood, Same
  <2>2. ShownAgree(prefs, tunnels, B, FALSE)
    BY <1>7, <1>13, <1>14 DEF List, ShownAgree, Agrees, Of
  <2>4. \A d \in B : Adding(tunnels, FALSE, d) /\ Modifying(prefs, new, tunnels, B, d) /\ Removing(prefs, tunnels, FALSE, d)
    BY <1>6, <1>7, <1>10 DEF Adding, Modifying, Removing
  <2>5. \A d \in B : d.op \in EditOps => d.slot \in Slots
    BY <1>6, <1>7, <1>10 DEF EditOps
  <2>6. SavedWithout(tunnels, B)
    BY <1>7, <1>14 DEF List, SavedWithout
  <2>7. NoneDropped(tunnels, B, FALSE) /\ AllShown(prefs, tunnels, B, FALSE)
    BY <1>13, <1>14 DEF List, NoneDropped, AllShown
  <2> QED
    BY <1>14, <2>1, <2>2, <2>4, <2>5, <2>6, <2>7 DEF List
<1>16. OneOwner(prefs, tunnels, B)
  <2>1. ASSUME NEW r \in Refs, NEW i \in Ids, Held(prefs, tunnels, B, r, i)
        PROVE  Held(prefs, tunnels, A, r, i)
    BY <1>2, <1>7, <2>1 DEF Held
  <2> QED
    BY <1>14, <2>1 DEF OneOwner
<1>17. StoreInv'
  <2>1. prefs' = prefs /\ tunnels' = tunnels /\ failed' = failed /\ refused' = FALSE /\ items' = new /\ world' = world
    BY <1>1, <1>4, <1>10
  <2> QED
    BY <1>13, <1>15, <1>16, <2>1, InvNext
<1> QED
  BY <1>1, <1>4, <1>9, <1>13, <1>17 DEF Types

\* modify: with the text and without it, and when only the rules change.
LEMMA ModifyKeeps ==
  ASSUME Types, StoreInv, NEW x \in DOMAIN tunnels, NEW name \in Names \cup {tunnels[x].name}, NEW body \in Bodies,
         Modify(x, name, body)
  PROVE  Types' /\ StoreInv'
<1> DEFINE A == Asked(calls)
           ref == NewRef(Now)
<1>1. MayEdit /\ UNCHANGED <<prefs, changed, world, failed, messy, refused>>
  BY DEF Modify
<1>2. PICK m : m = tunnels[x].manager
  OBVIOUS
<1>3. PICK edited : edited = [m EXCEPT !.name = name, !.body = body, !.available = TRUE, !.legacy = NoBody]
  OBVIOUS
<1>4. /\ Renamable(m, name)
      /\ \E op, n, its :
           /\ op \in {"rules", "modify"}
           /\ items' = its
           /\ tunnels' = [tunnels EXCEPT ![x] = [name |-> IF name # m.name THEN name ELSE @.name, manager |-> n]]
           /\ calls' = Append(calls, Call(op, x, n))
           /\ \/ op = "rules" /\ its = items /\ n = m /\ name = m.name
              \/ op = "modify" /\ its = WithItem(items, ref, body, m.ref) /\ n = [edited EXCEPT !.ref = ref]
              \/ op = "modify" /\ its = items /\ n = [edited EXCEPT !.ref = NoProtocol]
  BY <1>2, <1>3 DEF Modify
<1>5. PICK op, n, new :
           /\ op \in {"rules", "modify"}
           /\ items' = new
           /\ tunnels' = [tunnels EXCEPT ![x] = [name |-> IF name # m.name THEN name ELSE @.name, manager |-> n]]
           /\ calls' = Append(calls, Call(op, x, n))
           /\ \/ op = "rules" /\ new = items /\ n = m /\ name = m.name
              \/ op = "modify" /\ new = WithItem(items, ref, body, m.ref) /\ n = [edited EXCEPT !.ref = ref]
              \/ op = "modify" /\ new = items /\ n = [edited EXCEPT !.ref = NoProtocol]
  BY <1>4
<1> op \in {"rules", "modify"}
  BY <1>5
<1>6. /\ ref \in Refs /\ ref \notin DOMAIN items /\ \A i \in DOMAIN prefs : prefs[i].ref # ref
      /\ \A c \in DOMAIN tunnels : tunnels[c].manager.ref # ref
      /\ \A c \in A : c.manager.ref # ref
  BY <1>1, EditRoom, FreshRef
<1>7. /\ refused = FALSE /\ (\A d \in A : d.op \in {"save", "drop"} /\ d \in ManagerCalls) /\ Breaking(A) = {}
      /\ Disk(prefs, items, A, failed, FALSE) /\ List(prefs, items, tunnels, A, failed, FALSE)
      /\ OneOwner(prefs, tunnels, A)
  BY <1>1, EditRoom DEF StoreInv
<1>8. ItemsOK(items) /\ PrefsOK(prefs) /\ x \in Slots /\ tunnels[x] \in Containers /\ m \in Managers /\ m.id \in Ids
      /\ tunnels[x].name \in AllNames /\ DOMAIN tunnels \subseteq Slots
  BY <1>2 DEF Types, ListOK, Containers, Managers
<1> HIDE DEF A, ref
<1>9. tunnels[x].name = m.name /\ LegacyOK(m) /\ name \in AllNames
  BY <1>2, <1>7, <1>8 DEF List, Named, AllNames
<1>10. /\ n \in Managers /\ n.id = m.id /\ n.name = name
       /\ op = "modify" => n.legacy = NoBody /\ n.available = TRUE /\ n.body = body
  BY <1>3, <1>5, <1>6, <1>8, <1>9 DEF Managers
<1>11. PICK T : /\ T = tunnels' /\ DOMAIN T = DOMAIN tunnels /\ T[x].name = name /\ T[x].manager = n
                /\ T[x] \in Containers /\ \A t \in DOMAIN tunnels \ {x} : T[t] = tunnels[t]
  <2>1. tunnels' = [tunnels EXCEPT ![x] = [name |-> name, manager |-> n]]
    BY <1>5, <1>9
  <2>2. [name |-> name, manager |-> n] \in Containers
    BY <1>9, <1>10 DEF Containers
  <2> QED
    BY <2>1, <2>2
<1>12. PICK c : c = Call(op, x, n)
  OBVIOUS
<1>13. c \in ManagerCalls /\ c.op = op /\ c.slot = x /\ c.manager = n /\ calls' = Append(calls, c)
  BY <1>5, <1>8, <1>10, <1>12 DEF Call, ManagerCalls, Ops
\* the three cases
<1>14. \/ op = "rules" /\ new = items /\ n = m /\ name = m.name
       \/ op = "modify" /\ n.ref = ref /\ ref \in DOMAIN new /\ new[ref] = body /\ m.ref \notin DOMAIN new
       \/ op = "modify" /\ new = items /\ n.ref = NoProtocol
  <2>1. n = [edited EXCEPT !.ref = ref] => n.ref = ref
    BY <1>3, <1>8 DEF Managers
  <2>2. n = [edited EXCEPT !.ref = NoProtocol] => n.ref = NoProtocol
    BY <1>3, <1>8 DEF Managers
  <2>3. new = WithItem(items, ref, body, m.ref) => ref \in DOMAIN new /\ new[ref] = body /\ m.ref \notin DOMAIN new
    BY <1>2, <1>6 DEF WithItem, With, Without
  <2> QED
    BY <1>5, <2>1, <2>2, <2>3
<1>15. /\ \A r \in DOMAIN items \ {m.ref} : Same(items, new, r)
       /\ \A r \in DOMAIN new : r \in DOMAIN items \/ r = ref
       /\ (m.ref \notin DOMAIN new /\ c.op = "modify" /\ n.ref = ref) \/ new = items
       /\ ItemsOK(new)
  <2>1. CASE new = items
    BY <2>1, <1>8 DEF Same
  <2>2. CASE new = WithItem(items, ref, body, m.ref) /\ n = [edited EXCEPT !.ref = ref] /\ op = "modify"
    BY <2>2, <1>2, <1>3, <1>6, <1>8, <1>13 DEF WithItem, With, Without, Same, ItemsOK, Managers
  <2> QED
    BY <1>5, <2>1, <2>2
<1>16. Joining(c, new, IF new = items THEN NoRef ELSE m.ref)
  <2>1. Held(prefs, tunnels, A, m.ref, m.id)
    BY <1>2 DEF Held
  <2>2. \A r \in DOMAIN items \ {IF new = items THEN NoRef ELSE m.ref} : Same(items, new, r)
    BY <1>15 DEF Same
  <2>3. \A i \in DOMAIN prefs : prefs[i].ref \in DOMAIN new => prefs[i].ref \in DOMAIN items
    BY <1>6, <1>15
  <2>4. new # items => Breaks(c)
    BY <1>6, <1>13, <1>15, NoRefs DEF Breaks
  <2> QED
    BY <1>8, <1>10, <1>13, <2>1, <2>2, <2>3, <2>4, NoRefs DEF Joining, EditOps, A
<1> DEFINE B == A \cup {c}
<1>17. /\ Breaking(B) = IF Breaks(c) THEN {m.id} ELSE {}
       /\ Of(B, "drop") = Of(A, "drop") /\ Of(B, "save") = Of(A, "save")
       /\ \A i : Saving(prefs, B, i) = Saving(prefs, A, i)
       /\ \A r, i : i \in Ids \ Breaking(B) /\ Held(prefs, tunnels, A, r, i) => Same(items, new, r)
       /\ \A i \in DOMAIN prefs : Counts(prefs, new, B, failed, FALSE, i) => Counts(prefs, items, A, failed, FALSE, i)
       /\ AddOK(prefs, new, B, failed, FALSE, c) /\ ModOK(prefs, new, B, failed, FALSE, c)
            /\ NewItem(new, c) /\ RulesOK(prefs, new, B, failed, FALSE, c)
            /\ (\A d \in A : c.op = "rules" /\ d.op = "save" /\ d.manager.id = c.manager.id => c.manager.legacy = NoBody)
              => /\ Disk(prefs, new, B, failed, FALSE)
                 /\ InOrder(Append(calls, c)) /\ Append(calls, c) \in Seq(AllCalls) /\ Asked(Append(calls, c)) = B
  <2>1. c.manager.id = m.id
    BY <1>10, <1>13
  <2> QED
    BY <1>1, <1>16, <2>1, EditJoins DEF A
<1> HIDE DEF B
\* the manager of the container agrees with what is stored
<1>18. m.id \in DOMAIN prefs => /\ Agrees(prefs, A, m.id, m) /\ prefs[m.id].name = m.name /\ m.id \notin Of(A, "drop")
  BY <1>2, <1>7, <1>9 DEF List, ShownAgree, NoneDropped, Id, Of
<1>19. name # m.name => name \in Names /\ ~NameTaken(name)
  BY <1>4, <1>9 DEF Renamable
<1>20. ModOK(prefs, new, B, failed, FALSE, c)
  <2> SUFFICES ASSUME m.id \in DOMAIN prefs PROVE ModOK(prefs, new, B, failed, FALSE, c)
    BY <1>10, <1>13 DEF ModOK
  <2>1. ASSUME NEW i \in DOMAIN prefs, i # m.id, prefs[i].name = name
        PROVE  ~Counts(prefs, items, A, failed, FALSE, i)
    <3>1. (name \in Names /\ ~NameTaken(name)) \/ (\E t \in DOMAIN tunnels : tunnels[t].name = name /\ Id(tunnels, t) = m.id
                                                    /\ m.id \in DOMAIN prefs)
      BY <1>2, <1>9, <1>19 DEF Id
    <3> QED
      BY <1>1, <2>1, <3>1, NameFree DEF A
  <2>2. Free(prefs, new, B, failed, FALSE, n)
    BY <1>10, <1>17, <2>1 DEF Free
  <2>3. name \in Names \/ name = prefs[m.id].name
    BY <1>18, <1>19
  <2> QED
    BY <1>10, <1>13, <1>17, <1>18, <2>2, <2>3 DEF ModOK
<1>21. NewItem(new, c) /\ AddOK(prefs, new, B, failed, FALSE, c)
  BY <1>6, <1>10, <1>13, <1>14, NoRefs DEF NewItem, AddOK
<1>22. RulesOK(prefs, new, B, failed, FALSE, c)
  <2> SUFFICES ASSUME op = "rules", m.id \in DOMAIN prefs PROVE RulesOK(prefs, new, B, failed, FALSE, c)
    BY <1>10, <1>13 DEF RulesOK
  <2>1. n = m /\ new = items /\ name = m.name
    BY <1>14
  <2>2. \A s \in Saving(prefs, A, m.id) : m.id \notin failed => s.manager.ref \in DOMAIN items
    BY <1>7 DEF Disk, SaveOK, Saving, IsGood
  <2>3. m.id \notin failed => m.ref # NoProtocol
    BY <1>8, <1>18, <2>2, NoRefs DEF Agrees, PrefsOK, Entries, ItemsOK
  <2>4. m.id \notin failed => IsGood(prefs, items, m.id, m)
    BY <1>2, <1>7, <2>3 DEF List, ShownGood
  <2>5. Agrees(prefs, B, m.id, m)
    BY <1>17, <1>18 DEF Agrees
  <2>6. m.legacy # NoBody => IsLegacy(prefs, m.id)
    BY <1>18 DEF Agrees
  <2> QED
    BY <1>9, <1>13, <1>18, <2>1, <2>4, <2>5, <2>6 DEF RulesOK
<1>23. \A d \in A : c.op = "rules" /\ d.op = "save" /\ d.manager.id = c.manager.id => c.manager.legacy = NoBody
  BY <1>2, <1>7, <1>13, <1>14 DEF List, SavedWithout, Id
<1>24. /\ Disk(prefs, new, B, failed, FALSE) /\ InOrder(calls') /\ calls' \in Seq(AllCalls) /\ Asked(calls') = B
  BY <1>13, <1>17, <1>20, <1>21, <1>22, <1>23
<1>25. \A t \in DOMAIN T : Id(T, t) = Id(tunnels, t) /\ (t # x => T[t] = tunnels[t])
  BY <1>2, <1>10, <1>11 DEF Id
<1>26. OneEach(T) /\ NoneDropped(T, B, FALSE) /\ AllShown(prefs, T, B, FALSE)
  BY <1>7, <1>11, <1>17, <1>25 DEF List, OneEach, NoneDropped, AllShown
<1>27. Named(T) /\ SavedWithout(T, B)
  <2>1. LegacyOK(n)
    BY <1>9, <1>10, <1>14 DEF LegacyOK
  <2>2. Named(T)
    BY <1>7, <1>10, <1>11, <2>1 DEF List, Named
  <2>3. \A d \in A : d.op = "save" /\ d.manager.id = m.id => n.legacy = NoBody
    BY <1>2, <1>7, <1>10, <1>14 DEF List, SavedWithout, Id
  <2>4. c.op # "save"
    BY <1>13
  <2> QED
    BY <1>2, <1>7, <1>11, <1>25, <2>2, <2>3, <2>4 DEF List, SavedWithout, Id, B
<1>28. ShownDistinct(T, FALSE)
  <2>1. \A t \in DOMAIN tunnels \ {x} : tunnels[t].name # name
    BY <1>7, <1>9, <1>19 DEF List, ShownDistinct, NameTaken
  <2> QED
    BY <1>7, <1>11, <2>1 DEF List, ShownDistinct
<1>29. ShownAgree(prefs, T, B, FALSE)
  <2>1. ASSUME NEW t \in DOMAIN T, t # x, Id(T, t) \in DOMAIN prefs
        PROVE  T[t].name = prefs[Id(T, t)].name /\ Agrees(prefs, B, Id(T, t), T[t].manager)
    BY <1>7, <1>11, <1>17, <1>25, <2>1 DEF List, ShownAgree, Agrees, Of
  <2>2. ASSUME Id(T, x) \in DOMAIN prefs \ Of(B, "modify")
        PROVE  T[x].name = prefs[Id(T, x)].name /\ Agrees(prefs, B, Id(T, x), T[x].manager)
    <3>1. op = "rules" /\ Id(T, x) = m.id
      <4>1. Id(T, x) = m.id
        BY <1>10, <1>11 DEF Id
      <4>2. c \in B /\ c.op = op /\ c.manager.id = m.id
        BY <1>10, <1>13 DEF B
      <4>3. op = "modify" => m.id \in Of(B, "modify")
        BY <4>2 DEF Of
      <4> QED
        BY <2>2, <4>1, <4>3
    <3> QED
      BY <1>11, <1>14, <1>17, <1>18, <2>2, <3>1 DEF Agrees
  <2> QED
    BY <2>1, <2>2 DEF ShownAgree
<1>30. ShownGood(prefs, new, T, B, failed)
  <2> SUFFICES ASSUME NEW t \in DOMAIN T, T[t].manager.id \in DOMAIN prefs \ (failed \cup Breaking(B)),
                      T[t].manager.ref # NoProtocol
               PROVE  IsGood(prefs, new, T[t].manager.id, T[t].manager)
    BY DEF ShownGood
  <2>1. T[t] = tunnels[t]
    <3>1. CASE t = x
      <4>1. ~Breaks(c)
        BY <1>10, <1>11, <1>17, <3>1
      <4>2. op = "rules"
        BY <1>11, <1>13, <3>1, <4>1 DEF Breaks
      <4>3. T[x].manager = m /\ T[x].name = tunnels[x].name
        BY <1>9, <1>11, <1>14, <4>2
      <4> QED
        BY <1>2, <1>8, <1>11, <3>1, <4>3 DEF Containers
    <3>2. CASE t # x
      BY <1>11, <3>2
    <3> QED
      BY <3>1, <3>2
  <2>2. IsGood(prefs, items, T[t].manager.id, T[t].manager)
    BY <1>7, <1>11, <2>1 DEF List, ShownGood
  <2>3. T[t].manager.id \in Ids /\ Held(prefs, tunnels, A, T[t].manager.ref, T[t].manager.id)
    BY <1>8, <1>11, <2>1 DEF Held, PrefsOK
  <2>4. Same(items, new, T[t].manager.ref)
    BY <1>17, <2>3
  <2> QED
    BY <2>2, <2>4 DEF IsGood, Same
<1>31. Modifying(prefs, new, T, B, c)
  <2> SUFFICES ASSUME c.op = "modify", n.ref # NoProtocol, m.id \in DOMAIN prefs
               PROVE  /\ n.available /\ prefs[m.id].ref \notin DOMAIN new
                      /\ \A s \in Saving(prefs, B, m.id) : s.manager.ref \notin DOMAIN new
    BY <1>10, <1>11, <1>13 DEF Modifying
  <2>1. m.ref \notin DOMAIN new /\ n.available
    BY <1>10, <1>13, <1>14
  <2>2. prefs[m.id].ref = m.ref \/ prefs[m.id].ref = NoRef
    <3>1. CASE Saving(prefs, A, m.id) = {}
      BY <1>18, <3>1 DEF Agrees
    <3>2. CASE Saving(prefs, A, m.id) # {}
      <4>1. IsLegacy(prefs, m.id)
        BY <3>2 DEF Saving
      <4> QED
        BY <1>7, <4>1 DEF Disk, Legacies, LegacyOK, IsLegacy
    <3> QED
      BY <3>1, <3>2
  <2> QED
    <3>1. \A s \in Saving(prefs, B, m.id) : s.manager.ref = m.ref
      BY <1>17, <1>18 DEF Agrees
    <3> QED
      BY <1>15, <2>1, <2>2, <3>1, NoRefs DEF ItemsOK
<1>32. List(prefs, new, T, B, failed, FALSE)
  <2>1. \A d \in B : Adding(T, FALSE, d) /\ Modifying(prefs, new, T, B, d) /\ Removing(prefs, T, FALSE, d)
    BY <1>7, <1>13, <1>31 DEF Adding, Modifying, Removing, B
  <2>2. \A d \in B : d.op \in EditOps => d.slot \in Slots
    BY <1>7, <1>8, <1>13 DEF EditOps, B
  <2> QED
    BY <1>26, <1>27, <1>28, <1>29, <1>30, <2>1, <2>2 DEF List
<1>33. OneOwner(prefs, T, B)
  <2>1. \A r \in Refs : n.ref = r => r = ref \/ r = m.ref
    BY <1>14, NoRefs
  <2>2. ASSUME NEW r \in Refs, NEW i \in Ids, Held(prefs, T, B, r, i)
        PROVE  Held(prefs, tunnels, A, r, i) \/ (r = ref /\ i = m.id)
    <3>1. CASE n.ref = r /\ n.id = i
      BY <1>2, <1>10, <2>1, <3>1 DEF Held
    <3>2. CASE ~(n.ref = r /\ n.id = i)
      BY <1>11, <1>13, <2>2, <3>2 DEF Held, B
    <3> QED
      BY <3>1, <3>2
  <2>3. \A i : ~Held(prefs, tunnels, A, ref, i)
    BY <1>6 DEF Held
  <2> QED
    BY <1>7, <2>2, <2>3 DEF OneOwner
<1>34. ListOK(T)
  <2>1. n.available => n.body # NoBody
    BY <1>2, <1>10, <1>14, StoreAssumption DEF Types, ListOK
  <2> QED
    BY <1>8, <1>11, <2>1 DEF Types, ListOK
<1>35. StoreInv'
  <2>1. prefs' = prefs /\ tunnels' = T /\ failed' = failed /\ refused' = FALSE /\ items' = new /\ world' = world
    BY <1>1, <1>5, <1>7, <1>11
  <2> QED
    BY <1>24, <1>32, <1>33, <2>1, InvNext
<1> QED
  BY <1>1, <1>5, <1>11, <1>15, <1>24, <1>34, <1>35 DEF Types

-----------------------------------------------------------------------------
(* The answers.                                                            *)

\* The request at the head of the queue is answered.
LEMMA HeadAnswered ==
  ASSUME Types, StoreInv, calls # <<>>, Head(calls).op # "load", calls' = Tail(calls)
  PROVE  /\ Answers(Asked(calls), Head(calls), Asked(calls')) /\ Head(calls) \in ManagerCalls
         /\ calls' \in Seq(AllCalls) /\ InOrder(calls')
<1>1. /\ Asked(calls) = After(calls, 0) /\ Asked(Tail(calls)) = After(calls, 1) /\ Tail(calls) \in Seq(AllCalls)
      /\ Len(calls) \in Nat \ {0} /\ Head(calls) = calls[1]
  BY AskedIsAfter DEF Types
<1>2. 1 \in 1 .. Len(calls) /\ 1 - 1 = 0
  BY <1>1
<1>3. calls[1].op # "load" => Answers(After(calls, 1 - 1), calls[1], After(calls, 1)) /\ calls[1] \in ManagerCalls
  BY <1>2, AfterStep DEF Types, StoreInv
<1>4. InOrder(Tail(calls))
  BY TailInOrder DEF Types, StoreInv
<1>5. Asked(calls') = Asked(Tail(calls))
  OBVIOUS
<1> QED
  BY <1>1, <1>2, <1>3, <1>4, <1>5

\* The list is as it was, but less is expected of it.
LEMMA ListLeft ==
  ASSUME NEW p, NEW its, NEW new, NEW T, NEW A, NEW c, NEW B, NEW F, NEW G, NEW r \in BOOLEAN, NEW s \in BOOLEAN,
         List(p, its, T, A, F, r), Answers(A, c, B), r => s, s \/ c.op \in {"add", "remove"},
         \A i \in DOMAIN p : (i \in F => i \in G) /\ (i \in Breaking(A) => i \in G \cup Breaking(B)),
         DOMAIN new \subseteq DOMAIN its,
         \A t \in DOMAIN T : T[t].manager.id \in DOMAIN p \ (G \cup Breaking(B)) => Same(its, new, T[t].manager.ref)
  PROVE  List(p, new, T, B, G, s)
<1>1. B \subseteq A /\ A \subseteq B \cup {c}
  BY DEF Answers
<1>2. s \/ (Of(B, "drop") = Of(A, "drop") /\ Of(B, "save") = Of(A, "save") /\ Of(B, "modify") = Of(A, "modify"))
  BY OfLeft
<1>3. s \/ \A i : Saving(p, B, i) = Saving(p, A, i)
  BY <1>1 DEF Saving
<1>4. ShownGood(p, new, T, B, G)
  <2> SUFFICES ASSUME NEW t \in DOMAIN T, T[t].manager.id \in DOMAIN p \ (G \cup Breaking(B)),
                      T[t].manager.ref # NoProtocol
               PROVE  IsGood(p, new, T[t].manager.id, T[t].manager)
    BY DEF ShownGood
  <2>1. IsGood(p, its, T[t].manager.id, T[t].manager)
    BY DEF List, ShownGood
  <2> QED
    BY <2>1 DEF IsGood, Same
<1>5. SavedWithout(T, B)
  BY <1>1 DEF List, SavedWithout
<1>6. ShownDistinct(T, s)
  BY DEF List, ShownDistinct
<1>7. NoneDropped(T, B, s) /\ AllShown(p, T, B, s)
  BY <1>2 DEF List, NoneDropped, AllShown
<1>8. ShownAgree(p, T, B, s)
  BY <1>2, <1>3 DEF List, ShownAgree, Agrees
<1>9. ASSUME NEW d \in B PROVE Adding(T, s, d) /\ Modifying(p, new, T, B, d) /\ Removing(p, T, s, d)
  <2>1. Adding(T, r, d) /\ Modifying(p, its, T, A, d) /\ Removing(p, T, r, d)
    BY <1>1 DEF List
  <2>2. \A i : Saving(p, B, i) \subseteq Saving(p, A, i)
    BY <1>1 DEF Saving
  <2>3. Adding(T, s, d) /\ Removing(p, T, s, d)
    BY <2>1 DEF Adding, Removing
  <2>4. Modifying(p, new, T, B, d)
    BY <2>1, <2>2 DEF Modifying
  <2> QED
    BY <2>3, <2>4
<1>10. \A d \in B : d.op \in EditOps => d.slot \in Slots
  BY <1>1 DEF List
<1> QED
  BY <1>4, <1>5, <1>6, <1>7, <1>8, <1>9, <1>10 DEF List

\* A request that fails.
LEMMA FailKeeps ==
  ASSUME Types, StoreInv, NEW c, calls # <<>>, c = Head(calls), c.op # "load", calls' = Tail(calls),
         UNCHANGED <<prefs, tunnels, changed, world>>, messy' \in BOOLEAN, refused' \in BOOLEAN,
         items' = items \/ (c.op = "add" /\ items' = Without(items, c.manager.ref)),
         refused => refused', refused' \/ c.op \in {"add", "remove"},
         failed' \subseteq Ids, \A i \in DOMAIN prefs : i \in failed \/ (Breaks(c) /\ i = c.manager.id) => i \in failed'
  PROVE  Types' /\ StoreInv'
<1> DEFINE A == Asked(calls)
           B == Asked(calls')
<1>1. /\ Answers(A, c, B) /\ c \in ManagerCalls
      /\ calls' \in Seq(AllCalls) /\ InOrder(calls')
  BY HeadAnswered
<1>2. PICK new : new = items'
  OBVIOUS
<1>3. ItemsOK(items) /\ PrefsOK(prefs) /\ ItemsOK(new) /\ refused \in BOOLEAN /\ ListOK(tunnels)
      /\ DOMAIN new \subseteq DOMAIN items /\ \A ref \in DOMAIN new : new[ref] = items[ref]
  BY <1>2 DEF Types, ItemsOK, Without
<1>4. /\ Disk(prefs, items, A, failed, refused) /\ OneOwner(prefs, tunnels, A)
      /\ List(prefs, items, tunnels, A, failed, refused)
  BY DEF StoreInv
<1> HIDE DEF A, B
<1>5. c \in A /\ B \subseteq A /\ A \subseteq B \cup {c} /\ c.manager.id \in Ids
  BY <1>1, CallFields DEF Answers
<1>6. \A i \in DOMAIN prefs : (i \in failed => i \in failed') /\ (i \in Breaking(A) => i \in failed' \cup Breaking(B))
  BY <1>1, BreakingLeft
\* the item that goes is nobody else's
<1>7. ASSUME NEW ref, NEW i \in Ids, Held(prefs, tunnels, A, ref, i), c.op = "add" => i # c.manager.id
      PROVE  Same(items, new, ref)
  <2>1. CASE new = items
    BY <2>1 DEF Same
  <2>2. CASE c.op = "add" /\ new = Without(items, c.manager.ref)
    <3>1. Held(prefs, tunnels, A, c.manager.ref, c.manager.id)
      BY <1>5 DEF Held
    <3>2. ref \in DOMAIN items => ref # c.manager.ref
      BY <1>3, <1>4, <1>5, <1>7, <2>2, <3>1 DEF OneOwner, ItemsOK
    <3> QED
      BY <2>2, <3>2 DEF Same, Without
  <2> QED
    BY <1>2, <2>1, <2>2
<1>8. c.op = "add" => /\ c.manager.id \notin DOMAIN prefs /\ \A d \in B : d.manager.id # c.manager.id
                      /\ \A t \in DOMAIN tunnels : tunnels[t].manager.id # c.manager.id
  <2> SUFFICES ASSUME c.op = "add"
               PROVE  /\ c.manager.id \notin DOMAIN prefs /\ \A d \in B : d.manager.id # c.manager.id
                      /\ \A t \in DOMAIN tunnels : tunnels[t].manager.id # c.manager.id
    OBVIOUS
  <2>1. AddOK(prefs, items, A, failed, refused, c) /\ Adding(tunnels, refused, c)
    BY <1>4, <1>5 DEF Disk, List
  <2>2. c \notin B
    BY <1>1 DEF Answers, EditOps
  <2> QED
    BY <1>5, <2>1, <2>2 DEF AddOK, Adding, Id
<1>9. Disk(prefs, items, B, failed', refused')
  <2>1. \A i \in DOMAIN prefs : /\ i \in failed => i \in failed'
                                /\ i \in Breaking(A) => i \in failed' \cup Breaking(B)
                                /\ refused' \/ (i \in Of(A, "drop") => i \in Of(B, "drop"))
                                /\ refused' \/ Saving(prefs, A, i) \subseteq Saving(prefs, B, i)
    <3>1. refused' \/ Of(B, "drop") = Of(A, "drop")
      BY <1>1, OfLeft
    <3>2. refused' \/ \A i : Saving(prefs, A, i) \subseteq Saving(prefs, B, i)
      BY <1>5 DEF Saving
    <3> QED
      BY <1>6, <3>1, <3>2
  <2>2. PICK G, s : G = failed' /\ s = refused'
    OBVIOUS
  <2>3. B \in SUBSET A /\ s \in BOOLEAN /\ (refused => s)
    BY <1>5, <2>2
  <2>5. \A i \in DOMAIN prefs : /\ i \in failed => i \in G
                                /\ i \in Breaking(A) => i \in G \cup Breaking(B)
                                /\ s \/ (i \in Of(A, "drop") => i \in Of(B, "drop"))
                                /\ s \/ Saving(prefs, A, i) \subseteq Saving(prefs, B, i)
    BY <2>1, <2>2
  <2>4. Disk(prefs, items, B, G, s)
    BY <1>3, <1>4, <2>3, <2>5, Weaken
  <2> QED
    BY <2>2, <2>4
<1>10. Disk(prefs, new, B, failed', refused')
  <2>1. \A i \in DOMAIN prefs \ (failed' \cup Breaking(B \cup {})) : Same(items, new, prefs[i].ref)
    BY <1>3, <1>7, <1>8 DEF Held, PrefsOK
  <2>2. \A d \in B : Same(items, new, d.manager.ref)
    <3> SUFFICES ASSUME NEW d \in B PROVE Same(items, new, d.manager.ref)
      OBVIOUS
    <3>1. d.manager.id \in Ids /\ Held(prefs, tunnels, A, d.manager.ref, d.manager.id)
      BY <1>1, <1>5, CallFields DEF Held, Answers
    <3> QED
      BY <1>7, <1>8, <3>1
  <2>3. \A i \in DOMAIN prefs : Live(prefs, new, i) => Live(prefs, items, i)
    BY <1>3 DEF Live
  <2>4. Joins(prefs, items, new, B, {}, failed', refused')
    BY <2>1, <2>2, <2>3 DEF Joins
  <2>5. Disk(prefs, new, B \cup {}, failed', refused')
    BY <1>9, <2>4, Join
  <2> QED
    BY <2>5
<1>11. List(prefs, new, tunnels, B, failed', refused')
  <2>1. \A t \in DOMAIN tunnels : tunnels[t].manager.id \in DOMAIN prefs \ (failed' \cup Breaking(B))
                                     => Same(items, new, tunnels[t].manager.ref)
    BY <1>3, <1>7, <1>8 DEF Held, PrefsOK
  <2> QED
    BY <1>1, <1>3, <1>4, <1>6, <2>1, ListLeft
<1>12. OneOwner(prefs, tunnels, B)
  BY <1>4, <1>5 DEF OneOwner, Held
<1>13. StoreInv'
  <2>1. prefs' = prefs /\ tunnels' = tunnels /\ items' = new /\ world' = world
    BY <1>2
  <2> QED
    BY <1>1, <1>10, <1>11, <1>12, <2>1, InvNext DEF B
<1> QED
  BY <1>1, <1>2, <1>3, <1>13 DEF Types

\* An answer gives an item no second owner.
LEMMA OwnerLeft ==
  ASSUME NEW p, NEW S, NEW T, NEW A, NEW c, NEW B, Answers(A, c, B), c \in ManagerCalls, Possible(p, c),
         OneOwner(p, S, A), \A t \in DOMAIN T : (t \in DOMAIN S /\ T[t] = S[t]) \/ T[t].manager = c.manager
  PROVE  OneOwner(Stored(p, c), T, B)
<1>1. c.op # "load" /\ c \in A
  BY CallFields DEF Answers
<1>2. ASSUME NEW ref, NEW i, Held(Stored(p, c), T, B, ref, i) PROVE Held(p, S, A, ref, i)
  <2>1. Stored(p, c) = StoredIfPossible(p, c)
    BY <1>1 DEF StoredIfPossible
  <2>2. PICK q : q = StoredIfPossible(p, c)
    OBVIOUS
  <2>3. Held(q, T, B, ref, i)
    BY <1>2, <2>1, <2>2
  <2>4. CASE Held(q, S, B, ref, i)
    BY <2>2, <2>4, StoredIsHeld
  <2>5. CASE \E t \in DOMAIN T : T[t].manager.ref = ref /\ T[t].manager.id = i
    BY <1>1, <2>5 DEF Held
  <2> QED
    BY <2>3, <2>4, <2>5 DEF Held
<1> QED
  BY <1>2 DEF OneOwner

\* The list after an add that succeeds.
LEMMA AddSucceeds ==
  ASSUME Types, StoreInv, NEW c, calls # <<>>, c = Head(calls), c.op = "add", calls' = Tail(calls),
         Possible(prefs, c), prefs' = Stored(prefs, c),
         tunnels' = With(tunnels, c.slot, [name |-> c.manager.name, manager |-> c.manager]),
         changed' \in BOOLEAN, UNCHANGED <<items, world, failed, messy, refused>>
  PROVE  Types' /\ StoreInv'
<1> DEFINE A == Asked(calls)
           B == Asked(calls')
           m == c.manager
<1>1. /\ Answers(A, c, B) /\ c \in ManagerCalls
      /\ calls' \in Seq(AllCalls) /\ InOrder(calls')
  BY HeadAnswered
<1>2. ItemsOK(items) /\ PrefsOK(prefs) /\ refused \in BOOLEAN /\ ListOK(tunnels)
  BY DEF Types
<1>3. /\ Disk(prefs, items, A, failed, refused) /\ OneOwner(prefs, tunnels, A)
      /\ List(prefs, items, tunnels, A, failed, refused)
  BY DEF StoreInv
<1>4. PICK q, T : q = prefs' /\ T = tunnels'
  OBVIOUS
<1> HIDE DEF A, B
<1>5. Disk(q, items, B, failed, refused) /\ PrefsOK(q)
  BY <1>1, <1>2, <1>3, <1>4, AnswerAdd
<1>6. /\ c \in A /\ c \notin B /\ B \subseteq A /\ A \subseteq B \cup {c} /\ m \in Managers /\ m.id \in Ids
      /\ m.name \in AllNames
      /\ m.ref # NoProtocol /\ \A d \in B : d.op \notin EditOps
  BY <1>1, CallFields DEF Answers, Possible, EditOps
<1>7. AddOK(prefs, items, A, failed, refused, c) /\ NewItem(items, c) /\ Adding(tunnels, refused, c) /\ c.slot \in Slots
  BY <1>3, <1>6 DEF Disk, List, EditOps
<1>8. /\ m.id \notin DOMAIN prefs /\ \A d \in B : d.manager.id # m.id
      /\ m.legacy = NoBody /\ m.ref \in DOMAIN items /\ items[m.ref] = m.body
      /\ m.available /\ c.slot \notin DOMAIN tunnels
      /\ \A d \in DOMAIN tunnels : Id(tunnels, d) # m.id
                                   /\ (tunnels[d].name = m.name => refused /\ ~tunnels[d].manager.available)
  BY <1>6, <1>7 DEF AddOK, NewItem, Adding
<1> DEFINE s == c.slot
<1>9. /\ DOMAIN q = DOMAIN prefs \cup {m.id} /\ q[m.id].name = m.name /\ q[m.id].ref = m.ref
      /\ q[m.id].legacy = NoBody /\ q[m.id].saved = m.body /\ \A i \in DOMAIN prefs : q[i] = prefs[i]
  BY <1>4, <1>8 DEF Stored, With, Entry
<1>10. /\ DOMAIN T = DOMAIN tunnels \cup {s} /\ T[s].name = m.name /\ T[s].manager = m /\ Id(T, s) = m.id
       /\ T[s] \in Containers /\ \A t \in DOMAIN tunnels : T[t] = tunnels[t] /\ t # s /\ Id(T, t) = Id(tunnels, t)
  BY <1>4, <1>6, <1>8 DEF With, Containers, Id
<1> HIDE DEF m, s
<1>11. Breaking(B) = {} /\ Breaking(A) = {}
  BY <1>1, BreakingLeft DEF EditOps, Breaks
<1>12. /\ Of(B, "drop") = Of(A, "drop") /\ Of(B, "save") = Of(A, "save") /\ Of(B, "modify") = Of(A, "modify")
       /\ \A op : m.id \notin Of(B, op)
  <2>1. \A op : c.op # op => Of(B, op) = Of(A, op)
    BY <1>1, OfLeft
  <2>2. \A op : m.id \notin Of(B, op)
    BY <1>8 DEF Of
  <2> QED
    BY <2>1, <2>2
<1>13. (\A i \in DOMAIN prefs : Saving(q, B, i) = Saving(prefs, A, i)) /\ Saving(q, B, m.id) = {}
  BY <1>6, <1>8, <1>9 DEF Saving, IsLegacy
<1>14. List(q, items, T, B, failed, refused)
  <2>1. OneEach(T) /\ ShownDistinct(T, refused)
    <3>1. OneEach(T)
      BY <1>3, <1>8, <1>10 DEF List, OneEach
    <3>2. ShownDistinct(T, refused)
      BY <1>3, <1>8, <1>10 DEF List, ShownDistinct
    <3> QED
      BY <3>1, <3>2
  <2>2. SavedWithout(T, B)
    BY <1>3, <1>6, <1>8, <1>10 DEF List, SavedWithout
  <2>3. ShownGood(q, items, T, B, failed)
    <3>1. IsGood(q, items, m.id, m)
      BY <1>8, <1>9 DEF IsGood
    <3>2. \A t \in DOMAIN tunnels : T[t].manager.id # m.id
      BY <1>8, <1>10 DEF Id
    <3> QED
      BY <1>3, <1>9, <1>10, <1>11, <3>1, <3>2 DEF List, ShownGood, IsGood
  <2>4. Named(T)
    BY <1>3, <1>8, <1>10 DEF List, Named, LegacyOK
  <2>5. NoneDropped(T, B, refused) /\ AllShown(q, T, B, refused)
    <3>1. NoneDropped(T, B, refused)
      BY <1>3, <1>10, <1>12 DEF List, NoneDropped
    <3>2. AllShown(q, T, B, refused)
      BY <1>3, <1>9, <1>10, <1>12 DEF List, AllShown, IsLegacy
    <3> QED
      BY <3>1, <3>2
  <2>6. ShownAgree(q, T, B, refused)
    <3>1. Agrees(q, B, m.id, m)
      BY <1>8, <1>9, <1>13 DEF Agrees, IsLegacy
    <3>2. \A i \in DOMAIN prefs : \A n : Agrees(prefs, A, i, n) => Agrees(q, B, i, n)
      BY <1>9, <1>13 DEF Agrees, IsLegacy
    <3> QED
      BY <1>3, <1>8, <1>9, <1>10, <1>12, <3>1, <3>2 DEF List, ShownAgree
  <2>7. \A d \in B : Adding(T, refused, d) /\ Modifying(q, items, T, B, d) /\ Removing(q, T, refused, d)
                     /\ (d.op \in EditOps => d.slot \in Slots)
    BY <1>6 DEF Adding, Modifying, Removing, EditOps
  <2> QED
    BY <2>1, <2>2, <2>3, <2>4, <2>5, <2>6, <2>7 DEF List
<1>15. OneOwner(q, T, B)
  <2>1. \A t \in DOMAIN T : (t \in DOMAIN tunnels /\ T[t] = tunnels[t]) \/ T[t].manager = c.manager
    BY <1>10 DEF m
  <2> QED
    BY <1>1, <1>3, <1>4, <2>1, OwnerLeft
<1>16. ListOK(T)
  BY <1>2, <1>7, <1>8, <1>10, StoreAssumption DEF ListOK, ItemsOK, s
<1>17. StoreInv'
  <2>1. prefs' = q /\ tunnels' = T /\ items' = items /\ world' = world /\ failed' = failed /\ refused' = refused
    BY <1>4
  <2> QED
    BY <1>1, <1>5, <1>14, <1>15, <2>1, InvNext DEF B
<1> QED
  BY <1>1, <1>2, <1>4, <1>5, <1>16, <1>17 DEF Types

\* A request on an existing configuration succeeds, and the list stays.
LEMMA EntryStored ==
  ASSUME NEW p, NEW q, NEW its, NEW T, NEW A, NEW c, NEW B, NEW F, NEW G, NEW r \in BOOLEAN,
         List(p, its, T, A, F, r), Answers(A, c, B), c.op \in {"modify", "rules", "save"}, c.manager.id \in DOMAIN p,
         DOMAIN q = DOMAIN p, \A i \in DOMAIN p \ {c.manager.id} : q[i] = p[i] /\ (i \in F => i \in G),
         \A t \in DOMAIN T : Id(T, t) = c.manager.id =>
           /\ c.manager.id \notin G \cup Breaking(B) /\ T[t].manager.ref # NoProtocol => IsGood(q, its, c.manager.id, T[t].manager)
           /\ r \/ c.manager.id \in Of(B, "modify")
                \/ (T[t].name = q[c.manager.id].name /\ Agrees(q, B, c.manager.id, T[t].manager)),
         r \/ c.op = "save" \/ IsLegacy(q, c.manager.id) \/ (\E t \in DOMAIN T : Id(T, t) = c.manager.id)
           \/ ~IsLegacy(p, c.manager.id) \/ c.manager.id \in Of(A, "save"),
         c.op = "save" => \A d \in B : d.manager.id = c.manager.id => Modifying(q, its, T, B, d)
  PROVE  List(q, its, T, B, G, r)
<1> DEFINE i0 == c.manager.id
<1>1. B \subseteq A /\ A \subseteq B \cup {c} /\ c \in A /\ (c.op # "save" => \A d \in B : d.op \notin EditOps)
  BY DEF Answers, EditOps
<1>2. /\ Of(B, "drop") = Of(A, "drop") /\ Of(A, "modify") \subseteq Of(B, "modify") \cup {i0}
      /\ Of(B, "save") \subseteq Of(A, "save") /\ (c.op # "save" => Of(B, "save") = Of(A, "save"))
      /\ (c.op = "save" => i0 \in Of(A, "save"))
  <2>1. Of(B, "drop") = Of(A, "drop")
    BY OfLeft
  <2>2. Of(A, "modify") \subseteq Of(B, "modify") \cup {i0}
    BY OfLeft
  <2>3. Of(B, "save") \subseteq Of(A, "save") /\ (c.op # "save" => Of(B, "save") = Of(A, "save"))
    BY OfLeft
  <2>4. c.op = "save" => i0 \in Of(A, "save")
    BY <1>1 DEF Of
  <2> QED
    BY <2>1, <2>2, <2>3, <2>4
<1>3. Breaking(A) \subseteq Breaking(B) \cup {i0}
  BY BreakingLeft
<1> HIDE DEF i0
<1>4. \A i \in DOMAIN p \ {i0} : Saving(q, B, i) = Saving(p, A, i) /\ (IsLegacy(q, i) <=> IsLegacy(p, i))
  BY <1>1 DEF Saving, IsLegacy, i0
<1>5. \A i \in DOMAIN p \ {i0} : \A n : /\ Agrees(p, A, i, n) => Agrees(q, B, i, n)
                                        /\ IsGood(p, its, i, n) => IsGood(q, its, i, n)
  BY <1>4 DEF Agrees, IsGood, IsLegacy, i0
<1>6. ShownGood(q, its, T, B, G)
  <2> SUFFICES ASSUME NEW t \in DOMAIN T, T[t].manager.id \in DOMAIN q \ (G \cup Breaking(B)),
                      T[t].manager.ref # NoProtocol
               PROVE  IsGood(q, its, T[t].manager.id, T[t].manager)
    BY DEF ShownGood
  <2>1. CASE T[t].manager.id = i0
    BY <2>1 DEF Id, i0
  <2>2. CASE T[t].manager.id # i0
    <3>1. T[t].manager.id \in DOMAIN p \ (F \cup Breaking(A))
      BY <1>3, <2>2 DEF i0
    <3> QED
      BY <1>5, <2>2, <3>1 DEF List, ShownGood
  <2> QED
    BY <2>1, <2>2
<1>7. ShownAgree(q, T, B, r)
  <2> SUFFICES ASSUME ~r, NEW t \in DOMAIN T, Id(T, t) \in DOMAIN q \ Of(B, "modify")
               PROVE  T[t].name = q[Id(T, t)].name /\ Agrees(q, B, Id(T, t), T[t].manager)
    BY DEF ShownAgree
  <2>1. CASE Id(T, t) = i0
    BY <2>1 DEF i0
  <2>2. CASE Id(T, t) # i0
    <3>1. Id(T, t) \in DOMAIN p \ Of(A, "modify")
      BY <1>2, <2>2
    <3>2. T[t].name = p[Id(T, t)].name /\ Agrees(p, A, Id(T, t), T[t].manager)
      BY <3>1 DEF List, ShownAgree
    <3> QED
      BY <1>5, <2>2, <3>1, <3>2 DEF i0
  <2> QED
    BY <2>1, <2>2
<1>8. AllShown(q, T, B, r)
  <2> SUFFICES ASSUME ~r, NEW i \in DOMAIN p, ~\E t \in DOMAIN T : Id(T, t) = i, i \notin Of(B, "drop")
               PROVE  IsLegacy(q, i) /\ i \notin Of(B, "save")
    BY DEF AllShown
  <2>1. IsLegacy(p, i) /\ i \notin Of(A, "save")
    BY <1>2 DEF List, AllShown
  <2>2. CASE i = i0
    BY <1>2, <2>1, <2>2 DEF i0
  <2>3. CASE i # i0
    BY <1>2, <1>4, <2>1, <2>3
  <2> QED
    BY <2>2, <2>3
<1>9. NoneDropped(T, B, r) /\ SavedWithout(T, B)
  BY <1>1, <1>2 DEF List, NoneDropped, SavedWithout
<1>10. ASSUME NEW d \in B
       PROVE  Adding(T, r, d) /\ Modifying(q, its, T, B, d) /\ Removing(q, T, r, d) /\ (d.op \in EditOps => d.slot \in Slots)
  <2>1. Adding(T, r, d) /\ Modifying(p, its, T, A, d) /\ Removing(p, T, r, d) /\ (d.op \in EditOps => d.slot \in Slots)
    BY <1>1 DEF List
  <2>2. Removing(q, T, r, d)
    BY <2>1 DEF Removing
  <2>3. CASE c.op # "save"
    BY <1>1, <2>1, <2>2, <2>3 DEF Modifying, EditOps
  <2>4. CASE c.op = "save" /\ d.manager.id = i0
    BY <2>1, <2>2, <2>4 DEF i0
  <2>5. CASE d.manager.id # i0
    <3>1. Modifying(q, its, T, B, d)
      BY <1>4, <2>1, <2>5 DEF Modifying, i0
    <3> QED
      BY <2>1, <2>2, <3>1
  <2> QED
    BY <2>3, <2>4, <2>5
<1> QED
  BY <1>6, <1>7, <1>8, <1>9, <1>10 DEF List

\* The list after a modify that succeeds: the container has the manager already.
LEMMA ModifySucceeds ==
  ASSUME Types, StoreInv, NEW c, calls # <<>>, c = Head(calls), c.op = "modify", calls' = Tail(calls),
         Possible(prefs, c), prefs' = Stored(prefs, c), c.slot \in DOMAIN tunnels,
         failed' = failed \ Mended(c),
         changed' \in BOOLEAN, UNCHANGED <<items, tunnels, world, messy, refused>>
  PROVE  Types' /\ StoreInv'
<1> DEFINE A == Asked(calls)
           B == Asked(calls')
           m == c.manager
           i0 == c.manager.id
           G == failed \ {c.manager.id}
<1>1. /\ Answers(A, c, B) /\ c \in ManagerCalls
      /\ calls' \in Seq(AllCalls) /\ InOrder(calls')
  BY HeadAnswered
<1>2. ItemsOK(items) /\ PrefsOK(prefs) /\ refused \in BOOLEAN /\ ListOK(tunnels)
  BY DEF Types
<1>3. /\ Disk(prefs, items, A, failed, refused) /\ OneOwner(prefs, tunnels, A)
      /\ List(prefs, items, tunnels, A, failed, refused)
  BY DEF StoreInv
<1>4. PICK q : q = prefs'
  OBVIOUS
<1> HIDE DEF A, B
<1>5. Disk(q, items, B, G, refused) /\ PrefsOK(q)
  <2> HIDE DEF G
  <2>1. PICK p, its, F, r : p = prefs /\ its = items /\ F = failed /\ r = refused
    OBVIOUS
  <2>2. PrefsOK(p) /\ ItemsOK(its) /\ Disk(p, its, A, F, r) /\ r \in BOOLEAN /\ Answers(A, c, B) /\ Possible(p, c)
    BY <2>1, <1>1, <1>2, <1>3
  <2>3. Disk(Stored(p, c), its, B, F \ {c.manager.id}, r) /\ PrefsOK(Stored(p, c))
    BY <2>2, AnswerModify
  <2> QED
    BY <2>1, <2>3, <1>4 DEF G
<1>6. /\ c \in A /\ m \in Managers /\ m.id \in Ids /\ m.ref # NoProtocol /\ m.id \in DOMAIN prefs
  BY <1>1, CallFields DEF Answers, Possible
<1>7. NewItem(items, c) /\ Modifying(prefs, items, tunnels, A, c)
  BY <1>3, <1>6 DEF Disk, List
<1>8. m.legacy = NoBody /\ m.ref \in DOMAIN items /\ items[m.ref] = m.body /\ tunnels[c.slot].manager = m
  BY <1>6, <1>7 DEF NewItem, Modifying
<1>9. /\ DOMAIN q = DOMAIN prefs /\ q[i0].name = m.name /\ q[i0].ref = m.ref
      /\ q[i0].legacy = NoBody /\ q[i0].saved = m.body /\ \A i \in DOMAIN prefs \ {i0} : q[i] = prefs[i]
  BY <1>4, <1>6, <1>8 DEF Stored, With, Entry
<1>10. \A t \in DOMAIN tunnels : Id(tunnels, t) = i0 => tunnels[t].manager = m /\ tunnels[t].name = m.name
  <2>1. Id(tunnels, c.slot) = i0
    BY <1>8 DEF Id
  <2>2. \A t \in DOMAIN tunnels : Id(tunnels, t) = i0 => t = c.slot
    BY <1>3, <2>1 DEF List, OneEach
  <2> QED
    BY <1>3, <1>8, <2>2 DEF List, Named
<1>11. IsGood(q, items, i0, m) /\ Agrees(q, B, i0, m)
  BY <1>8, <1>9 DEF IsGood, Agrees, Saving, IsLegacy
<1> HIDE DEF G
<1>12. List(q, items, tunnels, B, G, refused)
  <2>1. \A i \in DOMAIN prefs \ {c.manager.id} : q[i] = prefs[i] /\ (i \in failed => i \in G)
    BY <1>9 DEF G
  <2>2. \E t \in DOMAIN tunnels : Id(tunnels, t) = c.manager.id
    BY <1>8 DEF Id
  <2>3. \A t \in DOMAIN tunnels : Id(tunnels, t) = c.manager.id =>
           /\ c.manager.id \notin G \cup Breaking(B) /\ tunnels[t].manager.ref # NoProtocol
                => IsGood(q, items, c.manager.id, tunnels[t].manager)
           /\ refused \/ c.manager.id \in Of(B, "modify")
                \/ (tunnels[t].name = q[c.manager.id].name /\ Agrees(q, B, c.manager.id, tunnels[t].manager))
    BY <1>9, <1>10, <1>11
  <2> QED
    BY <1>1, <1>2, <1>3, <1>6, <1>9, <2>1, <2>2, <2>3, EntryStored
<1>13. OneOwner(q, tunnels, B)
  BY <1>1, <1>3, <1>4, OwnerLeft
<1>14. failed' = G
  BY <1>6 DEF Mended, G
<1>15. StoreInv'
  <2>1. prefs' = q /\ tunnels' = tunnels /\ items' = items /\ world' = world /\ refused' = refused
    BY <1>4
  <2> QED
    BY <1>1, <1>5, <1>12, <1>13, <1>14, <2>1, InvNext DEF B
<1> QED
  BY <1>1, <1>2, <1>4, <1>5, <1>14, <1>15 DEF Types, G

\* The list after the rules were saved: the list is as it was.
LEMMA RulesSucceeds ==
  ASSUME Types, StoreInv, NEW c, calls # <<>>, c = Head(calls), c.op = "rules", calls' = Tail(calls),
         Possible(prefs, c), prefs' = Stored(prefs, c), failed' = failed \ Mended(c),
         changed' \in BOOLEAN, UNCHANGED <<items, tunnels, world, messy, refused>>
  PROVE  Types' /\ StoreInv'
<1> DEFINE A == Asked(calls)
           B == Asked(calls')
           m == c.manager
           i0 == c.manager.id
<1>1. /\ Answers(A, c, B) /\ c \in ManagerCalls
      /\ calls' \in Seq(AllCalls) /\ InOrder(calls')
  BY HeadAnswered
<1>2. ItemsOK(items) /\ PrefsOK(prefs) /\ refused \in BOOLEAN /\ ListOK(tunnels)
  BY DEF Types
<1>3. /\ Disk(prefs, items, A, failed, refused) /\ OneOwner(prefs, tunnels, A)
      /\ List(prefs, items, tunnels, A, failed, refused)
  BY DEF StoreInv
<1>4. PICK q : q = prefs'
  OBVIOUS
<1> HIDE DEF A, B
<1>5. Disk(q, items, B, failed, refused) /\ PrefsOK(q)
  BY <1>1, <1>2, <1>3, <1>4, AnswerRules
<1>6. c \in A /\ m \in Managers /\ i0 \in Ids /\ m.ref # NoProtocol /\ i0 \in DOMAIN prefs /\ B \subseteq A
      /\ (\A d \in B : d.op \notin EditOps) /\ A \subseteq B \cup {c}
  BY <1>1, CallFields DEF Answers, Possible, EditOps
<1>7. RulesOK(prefs, items, A, failed, refused, c)
  BY <1>3, <1>6 DEF Disk
<1>8. /\ DOMAIN q = DOMAIN prefs /\ q[i0].name = m.name /\ q[i0].ref = m.ref
      /\ q[i0].legacy = m.legacy /\ q[i0].saved = prefs[i0].saved /\ \A i \in DOMAIN prefs \ {i0} : q[i] = prefs[i]
  BY <1>4, <1>6 DEF Stored, With, Entry
<1>9. Breaking(B) = Breaking(A) /\ i0 \notin Of(A, "modify")
  <2>1. Breaking(B) = Breaking(A)
    BY <1>1, BreakingLeft DEF Breaks
  <2>2. \A d \in A : d.op # "modify"
    BY <1>6 DEF EditOps
  <2> QED
    BY <2>1, <2>2 DEF Of
<1>10. ASSUME NEW t \in DOMAIN tunnels, Id(tunnels, t) = i0, ~refused
       PROVE  tunnels[t].name = q[i0].name /\ Agrees(q, B, i0, tunnels[t].manager)
  <2>1. tunnels[t].name = prefs[i0].name /\ Agrees(prefs, A, i0, tunnels[t].manager)
    BY <1>3, <1>6, <1>9, <1>10 DEF List, ShownAgree
  <2>2. CASE m.legacy # NoBody /\ IsLegacy(prefs, i0)
    <3>1. IsLegacy(q, i0) /\ q[i0].ref = NoRef /\ prefs[i0].ref = NoRef
      BY <1>3, <1>6, <1>7, <1>8, <2>2 DEF RulesOK, LegacyOK, IsLegacy, Disk, Legacies
    <3>2. Saving(q, B, i0) = Saving(prefs, A, i0)
      BY <1>6, <2>2, <3>1 DEF Saving
    <3>3. Agrees(q, B, i0, tunnels[t].manager)
      BY <2>1, <2>2, <3>1, <3>2 DEF Agrees
    <3> QED
      BY <1>6, <1>7, <1>8, <2>1, <3>3 DEF RulesOK
  <2>3. CASE m.legacy = NoBody /\ Agrees(prefs, A, i0, m)
    <3>1. ~IsLegacy(q, i0) /\ Saving(q, B, i0) = {}
      BY <1>8, <2>3 DEF IsLegacy, Saving
    <3>2. tunnels[t].manager.ref = m.ref /\ tunnels[t].manager.legacy = NoBody
      BY <2>1, <2>3 DEF Agrees
    <3>3. Agrees(q, B, i0, tunnels[t].manager)
      BY <1>8, <3>1, <3>2 DEF Agrees
    <3> QED
      BY <1>6, <1>7, <1>8, <2>1, <3>3 DEF RulesOK
  <2> QED
    BY <1>6, <1>7, <1>10, <2>2, <2>3 DEF RulesOK
<1>11. ASSUME NEW t \in DOMAIN tunnels, Id(tunnels, t) = i0, i0 \notin failed \cup Breaking(B), tunnels[t].manager.ref # NoProtocol
       PROVE  IsGood(q, items, i0, tunnels[t].manager)
  <2>1. IsGood(prefs, items, i0, tunnels[t].manager)
    BY <1>3, <1>6, <1>9, <1>11 DEF List, ShownGood, Id
  <2> QED
    BY <1>8, <2>1 DEF IsGood
<1>12. List(q, items, tunnels, B, failed, refused)
  <2>1. \A i \in DOMAIN prefs \ {c.manager.id} : q[i] = prefs[i] /\ (i \in failed => i \in failed)
    BY <1>8
  <2>2. refused \/ IsLegacy(q, i0) \/ ~IsLegacy(prefs, i0) \/ i0 \in Of(A, "save")
    <3> SUFFICES ASSUME IsLegacy(prefs, i0), i0 \notin Of(A, "save"), ~IsLegacy(q, i0) PROVE refused
      OBVIOUS
    <3>1. Saving(prefs, A, i0) = {}
      BY DEF Saving, Of
    <3> QED
      BY <1>6, <1>7, <1>8, <3>1 DEF RulesOK, Agrees, IsLegacy
  <2>3. \A t \in DOMAIN tunnels : Id(tunnels, t) = c.manager.id =>
           /\ c.manager.id \notin failed \cup Breaking(B) /\ tunnels[t].manager.ref # NoProtocol
                => IsGood(q, items, c.manager.id, tunnels[t].manager)
           /\ refused \/ c.manager.id \in Of(B, "modify")
                \/ (tunnels[t].name = q[c.manager.id].name /\ Agrees(q, B, c.manager.id, tunnels[t].manager))
    BY <1>10, <1>11
  <2> QED
    BY <1>1, <1>2, <1>3, <1>6, <1>8, <2>1, <2>2, <2>3, EntryStored
<1>13. OneOwner(q, tunnels, B)
  BY <1>1, <1>3, <1>4, OwnerLeft
<1>14. failed' = failed
  BY DEF Mended
<1>15. StoreInv'
  <2>1. prefs' = q /\ tunnels' = tunnels /\ items' = items /\ world' = world /\ refused' = refused
    BY <1>4
  <2> QED
    BY <1>1, <1>5, <1>12, <1>13, <1>14, <2>1, InvNext DEF B
<1> QED
  BY <1>1, <1>2, <1>4, <1>5, <1>14, <1>15 DEF Types

\* A request that removes a configuration succeeds; containers may go with it.
Dropped(p, q, T, U, c, F, G, r) ==
  /\ c.op \in {"remove", "drop"} /\ DOMAIN q = DOMAIN p \ {c.manager.id}
  /\ \A i \in DOMAIN q : q[i] = p[i] /\ (i \in F => i \in G)
  /\ DOMAIN U \subseteq DOMAIN T /\ \A t \in DOMAIN U : U[t] = T[t]
  /\ r \/ \A t \in DOMAIN T \ DOMAIN U : Id(T, t) = c.manager.id

\* The list when a configuration is gone, with its containers or without.
LEMMA EntryDropped ==
  ASSUME NEW p, NEW q, NEW its, NEW T, NEW U, NEW A, NEW c, NEW B, NEW F, NEW G, NEW r \in BOOLEAN,
         List(p, its, T, A, F, r), Answers(A, c, B), Dropped(p, q, T, U, c, F, G, r)
  PROVE  List(q, its, U, B, G, r)
<1> DEFINE i0 == c.manager.id
<1> USE DEF Dropped
<1>1. B \subseteq A /\ A \subseteq B \cup {c} /\ c \in A
  BY DEF Answers
<1>2. /\ Of(B, "drop") \subseteq Of(A, "drop") /\ Of(A, "drop") \subseteq Of(B, "drop") \cup {i0}
      /\ Of(B, "modify") = Of(A, "modify") /\ Of(B, "save") = Of(A, "save")
  <2>1. Of(B, "drop") \subseteq Of(A, "drop") /\ Of(A, "drop") \subseteq Of(B, "drop") \cup {i0}
    BY OfLeft
  <2>2. Of(B, "modify") = Of(A, "modify")
    BY OfLeft
  <2>3. Of(B, "save") = Of(A, "save")
    BY OfLeft
  <2> QED
    BY <2>1, <2>2, <2>3
<1>3. Breaking(A) \subseteq Breaking(B) \cup {i0}
  BY BreakingLeft
<1> HIDE DEF i0
<1>4. \A i \in DOMAIN q : i \in DOMAIN p \ {i0} /\ Saving(q, B, i) = Saving(p, A, i) /\ (IsLegacy(q, i) <=> IsLegacy(p, i))
  BY <1>1 DEF Saving, IsLegacy, i0
<1>5. \A i \in DOMAIN q : \A n : /\ Agrees(p, A, i, n) => Agrees(q, B, i, n)
                                 /\ IsGood(p, its, i, n) => IsGood(q, its, i, n)
  BY <1>4 DEF Agrees, IsGood
<1>6. \A t \in DOMAIN U : t \in DOMAIN T /\ Id(U, t) = Id(T, t)
  BY DEF Id
<1>7. ShownGood(q, its, U, B, G)
  BY <1>3, <1>4, <1>5 DEF List, ShownGood
<1>8. ShownAgree(q, U, B, r)
  <2> SUFFICES ASSUME ~r, NEW t \in DOMAIN U, Id(U, t) \in DOMAIN q \ Of(B, "modify")
               PROVE  U[t].name = q[Id(U, t)].name /\ Agrees(q, B, Id(U, t), U[t].manager)
    BY DEF ShownAgree
  <2>1. Id(T, t) \in DOMAIN p \ Of(A, "modify") /\ t \in DOMAIN T
    BY <1>2, <1>4, <1>6
  <2>2. T[t].name = p[Id(T, t)].name /\ Agrees(p, A, Id(T, t), T[t].manager)
    BY <2>1 DEF List, ShownAgree
  <2> QED
    BY <1>5, <1>6, <2>2
<1>9. AllShown(q, U, B, r)
  <2> SUFFICES ASSUME ~r, NEW i \in DOMAIN q, ~\E t \in DOMAIN U : Id(U, t) = i, i \notin Of(B, "drop")
               PROVE  IsLegacy(q, i) /\ i \notin Of(B, "save")
    BY DEF AllShown
  <2>1. ~\E t \in DOMAIN T : Id(T, t) = i
    BY <1>4, <1>6 DEF i0
  <2> QED
    BY <1>2, <1>4, <2>1 DEF List, AllShown
<1>10. NoneDropped(U, B, r)
  BY <1>2, <1>6 DEF List, NoneDropped
<1>11. OneEach(U) /\ Named(U) /\ ShownDistinct(U, r)
  <2>1. OneEach(U)
    BY <1>6 DEF List, OneEach
  <2>2. Named(U)
    BY <1>6 DEF List, Named
  <2>3. ShownDistinct(U, r)
    BY <1>6 DEF List, ShownDistinct
  <2> QED
    BY <2>1, <2>2, <2>3
<1>12. SavedWithout(U, B)
  BY <1>1, <1>6 DEF List, SavedWithout
<1>13. ASSUME NEW d \in B
       PROVE  Adding(U, r, d) /\ Modifying(q, its, U, B, d) /\ Removing(q, U, r, d) /\ (d.op \in EditOps => d.slot \in Slots)
  <2>1. Adding(T, r, d) /\ Modifying(p, its, T, A, d) /\ Removing(p, T, r, d) /\ (d.op \in EditOps => d.slot \in Slots)
    BY <1>1 DEF List
  <2>2. Adding(U, r, d)
    BY <1>6, <2>1 DEF Adding
  <2>3. Modifying(q, its, U, B, d)
    BY <1>4, <1>6, <2>1 DEF Modifying
  <2>4. Removing(q, U, r, d)
    BY <1>4, <1>6, <2>1 DEF Removing
  <2> QED
    BY <2>1, <2>2, <2>3, <2>4
<1> QED
  BY <1>7, <1>8, <1>9, <1>10, <1>11, <1>12, <1>13 DEF List

\* remove, and the clean-up of create.
LEMMA DropSucceeds ==
  ASSUME Types, StoreInv, NEW c, calls # <<>>, c = Head(calls), c.op \in {"remove", "drop"}, calls' = Tail(calls),
         Possible(prefs, c), prefs' = Stored(prefs, c),
         tunnels' = IF c.op = "remove" THEN Without(tunnels, c.slot) ELSE tunnels,
         failed' \subseteq failed, \A i \in DOMAIN prefs \ {c.manager.id} : i \in failed => i \in failed',
         changed' \in BOOLEAN, UNCHANGED <<items, world, messy, refused>>
  PROVE  Types' /\ StoreInv'
<1> DEFINE A == Asked(calls)
           B == Asked(calls')
           i0 == c.manager.id
<1>1. /\ Answers(A, c, B) /\ c \in ManagerCalls
      /\ calls' \in Seq(AllCalls) /\ InOrder(calls')
  BY HeadAnswered
<1>2. ItemsOK(items) /\ PrefsOK(prefs) /\ refused \in BOOLEAN /\ ListOK(tunnels)
  BY DEF Types
<1>3. /\ Disk(prefs, items, A, failed, refused) /\ OneOwner(prefs, tunnels, A)
      /\ List(prefs, items, tunnels, A, failed, refused)
  BY DEF StoreInv
<1>4. PICK q, U, G : q = prefs' /\ U = tunnels' /\ G = failed'
  OBVIOUS
<1> HIDE DEF A, B
<1>5. \A i \in DOMAIN prefs \ {c.manager.id} : i \in G <=> i \in failed
  BY <1>4
<1>6. c \in A /\ i0 \in DOMAIN prefs
  BY <1>1 DEF Answers, Possible
<1>7. Disk(q, items, B, G, refused) /\ PrefsOK(q)
  <2>1. Disk(Stored(prefs, c), items, B, G, refused) /\ PrefsOK(Stored(prefs, c))
    BY <1>1, <1>2, <1>3, <1>5, AnswerDrop
  <2> QED
    BY <2>1, <1>4
<1>8. DOMAIN q = DOMAIN prefs \ {i0} /\ \A i \in DOMAIN q : q[i] = prefs[i]
  BY <1>4 DEF Stored, Without
<1>9. /\ DOMAIN U \subseteq DOMAIN tunnels /\ \A t \in DOMAIN U : U[t] = tunnels[t]
      /\ \A t \in DOMAIN tunnels \ DOMAIN U : c.op = "remove" /\ t = c.slot
  BY <1>4 DEF Without
<1>10. refused \/ \A t \in DOMAIN tunnels \ DOMAIN U : Id(tunnels, t) = i0
  BY <1>3, <1>6, <1>9 DEF List, Removing
<1>11. List(q, items, U, B, G, refused)
  <2>1. \A i \in DOMAIN q : q[i] = prefs[i] /\ (i \in failed => i \in G)
    BY <1>5, <1>8
  <2>2. Dropped(prefs, q, tunnels, U, c, failed, G, refused)
    BY <1>8, <1>9, <1>10, <2>1 DEF Dropped
  <2> QED
    BY <1>1, <1>2, <1>3, <2>2, EntryDropped
<1>12. OneOwner(q, U, B)
  BY <1>1, <1>3, <1>4, <1>9, OwnerLeft
<1>13. ListOK(U)
  BY <1>2, <1>9 DEF ListOK
<1>14. StoreInv'
  <2>1. prefs' = q /\ tunnels' = U /\ failed' = G /\ items' = items /\ world' = world /\ refused' = refused
    BY <1>4
  <2> QED
    BY <1>1, <1>7, <1>11, <1>12, <2>1, InvNext DEF B
<1> QED
  BY <1>1, <1>2, <1>4, <1>7, <1>13, <1>14 DEF Types

\* The list after a migration was saved.
LEMMA SaveSucceeds ==
  ASSUME Types, StoreInv, NEW c, calls # <<>>, c = Head(calls), c.op = "save", calls' = Tail(calls),
         Possible(prefs, c), prefs' = Stored(prefs, c), failed' = failed \cap DOMAIN prefs',
         changed' \in BOOLEAN, UNCHANGED <<items, tunnels, world, messy, refused>>
  PROVE  Types' /\ StoreInv'
<1> DEFINE A == Asked(calls)
           B == Asked(calls')
           m == c.manager
           i0 == c.manager.id
<1>1. /\ Answers(A, c, B) /\ c \in ManagerCalls
      /\ calls' \in Seq(AllCalls) /\ InOrder(calls')
  BY HeadAnswered
<1>2. ItemsOK(items) /\ PrefsOK(prefs) /\ refused \in BOOLEAN /\ ListOK(tunnels)
  BY DEF Types
<1>3. /\ Disk(prefs, items, A, failed, refused) /\ OneOwner(prefs, tunnels, A)
      /\ List(prefs, items, tunnels, A, failed, refused)
  BY DEF StoreInv
<1>4. PICK q, G : q = prefs' /\ G = failed'
  OBVIOUS
<1> HIDE DEF A, B
<1>5. Disk(q, items, B, failed, refused) /\ PrefsOK(q)
  BY <1>1, <1>2, <1>3, <1>4, AnswerSave
<1>6. /\ c \in A /\ m \in Managers /\ i0 \in Ids /\ m.ref # NoProtocol /\ i0 \in DOMAIN prefs /\ B \subseteq A
      /\ IsLegacy(prefs, i0)
  BY <1>1, CallFields DEF Answers, Possible, IsLegacy
<1>7. SaveOK(prefs, items, A, failed, c)
  BY <1>3, <1>6 DEF Disk
<1>8. /\ DOMAIN q = DOMAIN prefs /\ q[i0].name = m.name /\ q[i0].ref = m.ref
      /\ q[i0].legacy = NoBody /\ q[i0].saved = prefs[i0].saved /\ \A i \in DOMAIN prefs \ {i0} : q[i] = prefs[i]
      /\ m.name = prefs[i0].name
  BY <1>4, <1>6, <1>7 DEF Stored, With, Entry, SaveOK
<1>9. Breaking(B) = Breaking(A) /\ Of(B, "modify") = Of(A, "modify")
  <2>1. Breaking(B) = Breaking(A)
    BY <1>1, BreakingLeft DEF Breaks
  <2>2. Of(B, "modify") = Of(A, "modify")
    BY <1>1, OfLeft
  <2> QED
    BY <2>1, <2>2
<1>10. G = failed \cap DOMAIN prefs
  BY <1>4, <1>8
<1>11. Disk(q, items, B, G, refused)
  <2>1. \A i \in DOMAIN q : /\ i \in failed => i \in G
                            /\ i \in Breaking(B) => i \in G \cup Breaking(B)
                            /\ refused \/ (i \in Of(B, "drop") => i \in Of(B, "drop"))
                            /\ refused \/ Saving(q, B, i) \subseteq Saving(q, B, i)
    BY <1>8, <1>10
  <2>2. B \in SUBSET B
    OBVIOUS
  <2> QED
    BY <1>2, <1>5, <2>1, <2>2, Weaken
<1>12. c \in Saving(prefs, A, i0) /\ Saving(q, B, i0) = {} /\ ~IsLegacy(q, i0)
  BY <1>6, <1>8 DEF Saving, IsLegacy
<1>13. ASSUME NEW t \in DOMAIN tunnels, Id(tunnels, t) = i0
       PROVE  /\ i0 \notin G \cup Breaking(B) /\ tunnels[t].manager.ref # NoProtocol => IsGood(q, items, i0, tunnels[t].manager)
              /\ refused \/ i0 \in Of(B, "modify")
                   \/ (tunnels[t].name = q[i0].name /\ Agrees(q, B, i0, tunnels[t].manager))
  <2>1. ASSUME i0 \notin G \cup Breaking(B), tunnels[t].manager.ref # NoProtocol
        PROVE  IsGood(q, items, i0, tunnels[t].manager)
    <3>1. IsGood(prefs, items, i0, tunnels[t].manager)
      BY <1>3, <1>6, <1>9, <1>10, <1>13, <2>1 DEF List, ShownGood, Id
    <3> QED
      BY <1>8, <3>1 DEF IsGood
  <2>2. ASSUME ~refused, i0 \notin Of(B, "modify")
        PROVE  tunnels[t].name = q[i0].name /\ Agrees(q, B, i0, tunnels[t].manager)
    <3>1. tunnels[t].name = prefs[i0].name /\ Agrees(prefs, A, i0, tunnels[t].manager)
      BY <1>3, <1>6, <1>9, <1>13, <2>2 DEF List, ShownAgree
    <3>2. tunnels[t].manager.legacy = NoBody /\ tunnels[t].manager.ref = m.ref
      BY <1>12, <3>1 DEF Agrees
    <3> QED
      BY <1>8, <1>12, <3>1, <3>2 DEF Agrees
  <2> QED
    BY <2>1, <2>2
<1>14. ASSUME NEW d \in B, d.manager.id = i0 PROVE Modifying(q, items, tunnels, B, d)
  <2>1. Modifying(prefs, items, tunnels, A, d)
    BY <1>3, <1>6 DEF List
  <2> QED
    BY <1>6, <1>8, <1>12, <1>14, <2>1 DEF Modifying
<1>15. List(q, items, tunnels, B, G, refused)
  <2>1. \A i \in DOMAIN prefs \ {c.manager.id} : q[i] = prefs[i] /\ (i \in failed => i \in G)
    BY <1>8, <1>10
  <2>2. i0 \in Of(A, "save")
    BY <1>6 DEF Of
  <2>3. \A t \in DOMAIN tunnels : Id(tunnels, t) = c.manager.id =>
           /\ c.manager.id \notin G \cup Breaking(B) /\ tunnels[t].manager.ref # NoProtocol
                => IsGood(q, items, c.manager.id, tunnels[t].manager)
           /\ refused \/ c.manager.id \in Of(B, "modify")
                \/ (tunnels[t].name = q[c.manager.id].name /\ Agrees(q, B, c.manager.id, tunnels[t].manager))
    BY <1>13
  <2>4. \A d \in B : d.manager.id = c.manager.id => Modifying(q, items, tunnels, B, d)
    BY <1>14
  <2> QED
    BY <1>1, <1>2, <1>3, <1>6, <1>8, <2>1, <2>2, <2>3, <2>4, EntryStored
<1>16. OneOwner(q, tunnels, B)
  BY <1>1, <1>3, <1>4, OwnerLeft
<1>17. StoreInv'
  <2>1. prefs' = q /\ failed' = G /\ tunnels' = tunnels /\ items' = items /\ world' = world /\ refused' = refused
    BY <1>4
  <2> QED
    BY <1>1, <1>11, <1>15, <1>16, <2>1, InvNext DEF B
<1> QED
  BY <1>1, <1>2, <1>4, <1>5, <1>10, <1>17 DEF Types

\* The system answers add.
LEMMA AddReturnsKeeps ==
  ASSUME Types, StoreInv, AddReturns
  PROVE  Types' /\ StoreInv'
<1> DEFINE c == Head(calls)
<1>1. calls # <<>> /\ c.op = "add" /\ calls' = Tail(calls) /\ UNCHANGED <<world, failed, messy, refused>>
  BY DEF AddReturns, Answered
<1>2. CASE Succeeds(c) /\ UNCHANGED items
           /\ tunnels' = With(tunnels, c.slot, [name |-> c.manager.name, manager |-> c.manager])
  <2>1. Possible(prefs, c) /\ prefs' = Stored(prefs, c) /\ changed' = TRUE
    BY <1>2 DEF Succeeds
  <2> QED
    BY <1>1, <1>2, <2>1, AddSucceeds
<1>3. CASE Fails(c) /\ items' = Without(items, c.manager.ref) /\ UNCHANGED tunnels
  <2>1. UNCHANGED <<prefs, changed>>
    BY <1>3 DEF Fails
  <2>2. \A i \in DOMAIN prefs : i \in failed \/ (Breaks(c) /\ i = c.manager.id) => i \in failed'
    BY <1>1 DEF Breaks
  <2>3. messy' \in BOOLEAN /\ refused' \in BOOLEAN /\ failed' \subseteq Ids /\ (refused => refused')
    BY <1>1 DEF Types
  <2> HIDE DEF c
  <2> QED
    BY <1>1, <1>3, <2>1, <2>2, <2>3, FailKeeps DEF c
<1> QED
  BY <1>2, <1>3 DEF AddReturns

\* The system answers modify.
LEMMA ModifyReturnsKeeps ==
  ASSUME Types, StoreInv, ModifyReturns
  PROVE  Types' /\ StoreInv'
<1> DEFINE c == Head(calls)
<1>1. calls # <<>> /\ c.op \in {"modify", "rules"}
  BY DEF ModifyReturns, Answered
<1>2. CASE /\ Succeeds(c) /\ c.slot \in DOMAIN tunnels
           /\ calls' = Tail(calls) /\ failed' = failed \ Mended(c)
           /\ UNCHANGED <<items, tunnels, world, messy, refused>>
  <2>1. Possible(prefs, c) /\ prefs' = Stored(prefs, c) /\ changed' = TRUE
    BY <1>2 DEF Succeeds
  <2>2. CASE c.op = "modify"
    BY <1>1, <1>2, <2>1, <2>2, ModifySucceeds
  <2>3. CASE c.op = "rules"
    BY <1>1, <1>2, <2>1, <2>3, RulesSucceeds
  <2> QED
    BY <1>1, <2>2, <2>3
<1>3. CASE \E n \in 1 .. Len(calls) : Relaunch(n, {})
  <2>1. \A n \in 1 .. Len(calls) : n \in 0 .. Len(calls)
    BY DEF Types
  <2> QED
    BY <1>3, <2>1, RelaunchKeeps
<1>4. CASE /\ Fails(c) /\ calls' = Tail(calls)
           /\ failed' = (failed \cup IF c.op = "modify" THEN {c.manager.id} ELSE {}) \cap DOMAIN prefs
           /\ messy' = TRUE /\ refused' = TRUE /\ UNCHANGED <<items, tunnels, world>>
  <2>1. UNCHANGED <<prefs, changed>>
    BY <1>4 DEF Fails
  <2>2. \A i \in DOMAIN prefs : i \in failed \/ (Breaks(c) /\ i = c.manager.id) => i \in failed'
    BY <1>1, <1>4 DEF Breaks
  <2>3. messy' \in BOOLEAN /\ refused' \in BOOLEAN /\ failed' \subseteq Ids /\ (refused => refused')
        /\ (refused' \/ c.op \in {"add", "remove"})
    BY <1>4 DEF Types, PrefsOK
  <2> HIDE DEF c
  <2> QED
    BY <1>1, <1>4, <2>1, <2>2, <2>3, FailKeeps DEF c
<1> QED
  BY <1>2, <1>3, <1>4 DEF ModifyReturns

\* The system answers remove.
LEMMA RemoveReturnsKeeps ==
  ASSUME Types, StoreInv, RemoveReturns
  PROVE  Types' /\ StoreInv'
<1> DEFINE c == Head(calls)
<1>1. calls # <<>> /\ c.op = "remove" /\ calls' = Tail(calls) /\ UNCHANGED <<items, world, messy, refused>>
  BY DEF RemoveReturns, Answered
<1>2. CASE Succeeds(c) /\ tunnels' = Without(tunnels, c.slot) /\ failed' = failed \ {c.manager.id}
  <2>1. Possible(prefs, c) /\ prefs' = Stored(prefs, c) /\ changed' = TRUE
    BY <1>2 DEF Succeeds
  <2>2. failed' \subseteq failed /\ \A i \in DOMAIN prefs \ {c.manager.id} : i \in failed => i \in failed'
    BY <1>2
  <2>3. changed' \in BOOLEAN /\ c.op \in {"remove", "drop"}
        /\ tunnels' = IF c.op = "remove" THEN Without(tunnels, c.slot) ELSE tunnels
    BY <1>1, <1>2, <2>1
  <2> HIDE DEF c
  <2> QED
    BY <1>1, <2>1, <2>2, <2>3, DropSucceeds DEF c
<1>3. CASE Fails(c) /\ UNCHANGED tunnels /\ failed' = (failed \cup {c.manager.id}) \cap DOMAIN prefs
  <2>1. UNCHANGED <<prefs, changed>>
    BY <1>3 DEF Fails
  <2>2. \A i \in DOMAIN prefs : i \in failed \/ (Breaks(c) /\ i = c.manager.id) => i \in failed'
    BY <1>3
  <2>3. messy' \in BOOLEAN /\ refused' \in BOOLEAN /\ failed' \subseteq Ids /\ (refused => refused')
    BY <1>1, <1>3 DEF Types, PrefsOK
  <2> HIDE DEF c
  <2> QED
    BY <1>1, <1>3, <2>1, <2>2, <2>3, FailKeeps DEF c
<1> QED
  BY <1>2, <1>3 DEF RemoveReturns

\* The system answers a request that no method waits for.
LEMMA BackgroundReturnsKeeps ==
  ASSUME Types, StoreInv, BackgroundReturns
  PROVE  Types' /\ StoreInv'
<1> DEFINE c == Head(calls)
<1>1. calls # <<>> /\ c.op \in {"save", "drop"} /\ calls' = Tail(calls) /\ UNCHANGED <<items, tunnels, world>>
  BY DEF BackgroundReturns, Answered
<1>2. CASE Succeeds(c) /\ failed' = failed \cap DOMAIN prefs' /\ UNCHANGED <<messy, refused>>
  <2>1. Possible(prefs, c) /\ prefs' = Stored(prefs, c) /\ changed' = TRUE
    BY <1>2 DEF Succeeds
  <2>2. CASE c.op = "save"
    BY <1>1, <1>2, <2>1, <2>2, SaveSucceeds
  <2>3. CASE c.op = "drop"
    <3>1. failed' \subseteq failed /\ \A i \in DOMAIN prefs \ {c.manager.id} : i \in failed => i \in failed'
      BY <1>2, <2>1, <2>3 DEF Stored, Without
    <3>2. changed' \in BOOLEAN /\ c.op \in {"remove", "drop"}
          /\ tunnels' = IF c.op = "remove" THEN Without(tunnels, c.slot) ELSE tunnels
      BY <1>1, <1>2, <2>1, <2>3
    <3> HIDE DEF c
    <3> QED
      BY <1>1, <1>2, <2>1, <3>1, <3>2, DropSucceeds DEF c
  <2> QED
    BY <1>1, <2>2, <2>3
<1>3. CASE /\ Fails(c)
           /\ failed' = IF Possible(prefs, c) THEN failed \cup {c.manager.id} ELSE failed
           /\ messy' = TRUE /\ refused' = TRUE
  <2>1. UNCHANGED <<prefs, changed>>
    BY <1>3 DEF Fails
  <2>2. \A i \in DOMAIN prefs : i \in failed \/ (Breaks(c) /\ i = c.manager.id) => i \in failed'
    BY <1>1, <1>3 DEF Breaks
  <2>3. c \in ManagerCalls
    BY <1>1, HeadAnswered
  <2>4. messy' \in BOOLEAN /\ refused' \in BOOLEAN /\ failed' \subseteq Ids /\ (refused => refused')
        /\ (refused' \/ c.op \in {"add", "remove"})
    BY <1>3, <2>3, CallFields DEF Types
  <2> HIDE DEF c
  <2> QED
    BY <1>1, <1>3, <2>1, <2>2, <2>4, FailKeeps DEF c
<1> QED
  BY <1>2, <1>3 DEF BackgroundReturns

\* The app ends and is started again.
LEMMA CrashKeeps ==
  ASSUME Types, StoreInv, Crash
  PROVE  Types' /\ StoreInv'
<1>1. 0 \in 0 .. Len(calls)
  BY DEF Types
<1> QED
  BY <1>1, RelaunchKeeps DEF Crash

\* A notification of the system asks for the load.
LEMMA PostReloadKeeps ==
  ASSUME Types, StoreInv, PostReload
  PROVE  Types' /\ StoreInv'
<1>1. /\ changed' = FALSE /\ calls' = Append(calls, Load) /\ \A c \in ToSet(calls) : c.op # "load"
      /\ UNCHANGED <<prefs, items, tunnels, world, failed, messy, refused>>
  BY DEF PostReload
<1>2. Load \in AllCalls /\ Load.op = "load" /\ calls \in Seq(AllCalls) /\ InOrder(calls)
  BY DEF AllCalls, Load, Types, StoreInv
<1>3. InOrder(calls') /\ calls' \in Seq(AllCalls) /\ Asked(calls') = Asked(calls)
  BY <1>1, <1>2, AppendInOrder DEF EditOps
<1>4. StoreInv'
  BY <1>1, <1>3, InvNext DEF StoreInv
<1> QED
  BY <1>1, <1>3, <1>4 DEF Types

\* A profile is added outside the app.
LEMMA AddedOutsideKeeps ==
  ASSUME Types, StoreInv, NEW name \in ProfileNames, NEW body \in Bodies, AddedOutside(name, body)
  PROVE  Types' /\ StoreInv'
<1> DEFINE i0 == Min(FreshIds)
           A == Asked(calls)
<1>1. /\ FreshIds # {} /\ \A i \in DOMAIN prefs : prefs[i].name # name
      /\ prefs' = With(prefs, i0, [name |-> name, ref |-> NoRef, legacy |-> body, saved |-> body])
      /\ changed' = TRUE /\ messy' = TRUE
      /\ UNCHANGED <<items, tunnels, calls, world, failed, refused>>
  BY DEF AddedOutside
<1>2. ItemsOK(items) /\ PrefsOK(prefs) /\ refused \in BOOLEAN /\ ListOK(tunnels)
  BY DEF Types
<1>3. /\ Disk(prefs, items, A, failed, refused) /\ OneOwner(prefs, tunnels, A)
      /\ List(prefs, items, tunnels, A, failed, refused)
  BY DEF StoreInv
<1>4. PICK q : q = prefs'
  OBVIOUS
<1>5. /\ i0 \in Ids /\ i0 \notin DOMAIN prefs /\ \A t \in DOMAIN tunnels : tunnels[t].manager.id # i0
      /\ \A c \in A : c.manager.id # i0
  BY <1>1, FreshId
<1> HIDE DEF A, i0
<1>6. /\ DOMAIN q = DOMAIN prefs \cup {i0} /\ q[i0].name = name /\ q[i0].ref = NoRef /\ q[i0].legacy = body
      /\ q[i0].saved = body /\ q[i0] \in Entries /\ \A i \in DOMAIN prefs : q[i] = prefs[i] /\ i # i0
  <2>1. [name |-> name, ref |-> NoRef, legacy |-> body, saved |-> body] \in Entries
    BY DEF Entries, AllNames
  <2> QED
    BY <2>1, <1>1, <1>4, <1>5 DEF With
<1>7. body # NoBody /\ \A n \in Names : n # name
  BY StoreAssumption
<1>8. \A i \in DOMAIN prefs : /\ IsLegacy(q, i) <=> IsLegacy(prefs, i)
                              /\ Live(q, items, i) <=> Live(prefs, items, i)
                              /\ Counts(q, items, A, failed, refused, i) <=> Counts(prefs, items, A, failed, refused, i)
                              /\ Saving(q, A, i) = Saving(prefs, A, i)
  BY <1>6 DEF IsLegacy, Live, Counts, Saving
<1>9. \A i \in DOMAIN prefs : \A m : /\ IsGood(q, items, i, m) <=> IsGood(prefs, items, i, m)
                                     /\ Agrees(q, A, i, m) <=> Agrees(prefs, A, i, m)
  BY <1>6, <1>8 DEF IsGood, Agrees
<1>10. \A m : m.name # name /\ Free(prefs, items, A, failed, refused, m) => Free(q, items, A, failed, refused, m)
  BY <1>6, <1>8 DEF Free
<1>11. \A c \in A : c.manager.id \in DOMAIN q <=> c.manager.id \in DOMAIN prefs
  BY <1>5, <1>6
<1>12. Kept(q, items, A, failed) /\ Distinct(q, items, A, failed, refused) /\ Legacies(q)
  <2>1. Kept(q, items, A, failed)
    BY <1>3, <1>6, <1>7, <1>9 DEF Disk, Kept, IsGood
  <2>2. Distinct(q, items, A, failed, refused)
    BY <1>1, <1>3, <1>6, <1>8 DEF Disk, Distinct
  <2>3. Legacies(q)
    BY <1>3, <1>6 DEF Disk, Legacies, LegacyOK
  <2> QED
    BY <2>1, <2>2, <2>3
<1>13. ASSUME NEW c \in A
       PROVE  /\ AddOK(q, items, A, failed, refused, c) /\ ModOK(q, items, A, failed, refused, c) /\ NewItem(items, c)
              /\ RulesOK(q, items, A, failed, refused, c) /\ SaveOK(q, items, A, failed, c) /\ DropOK(q, items, c)
  <2>1. /\ AddOK(prefs, items, A, failed, refused, c) /\ ModOK(prefs, items, A, failed, refused, c) /\ NewItem(items, c)
        /\ RulesOK(prefs, items, A, failed, refused, c) /\ SaveOK(prefs, items, A, failed, c) /\ DropOK(prefs, items, c)
    BY <1>3 DEF Disk
  <2>2. AddOK(q, items, A, failed, refused, c)
    BY <2>1, <1>7, <1>10, <1>11 DEF AddOK
  <2>3. ModOK(q, items, A, failed, refused, c)
    BY <2>1, <1>1, <1>6, <1>7, <1>10, <1>11 DEF ModOK
  <2>4. RulesOK(q, items, A, failed, refused, c)
    BY <2>1, <1>6, <1>8, <1>9, <1>11 DEF RulesOK
  <2>5. SaveOK(q, items, A, failed, c)
    BY <2>1, <1>6, <1>8, <1>9, <1>11 DEF SaveOK
  <2>6. DropOK(q, items, c)
    BY <2>1, <1>8, <1>11 DEF DropOK
  <2> QED
    BY <2>1, <2>2, <2>3, <2>4, <2>5, <2>6
<1>14. Disk(q, items, A, failed, refused)
  BY <1>12, <1>13 DEF Disk
<1>15. \A t \in DOMAIN tunnels : /\ Id(tunnels, t) \in DOMAIN q <=> Id(tunnels, t) \in DOMAIN prefs
                                 /\ tunnels[t].manager.id = Id(tunnels, t)
  BY <1>5, <1>6 DEF Id
<1>16. List(q, items, tunnels, A, failed, refused)
  <2>1. ShownGood(q, items, tunnels, A, failed)
    BY <1>3, <1>9, <1>15 DEF List, ShownGood
  <2>2. ShownAgree(q, tunnels, A, refused)
    BY <1>3, <1>6, <1>9, <1>15 DEF List, ShownAgree
  <2>3. AllShown(q, tunnels, A, refused)
    <3>1. IsLegacy(q, i0) /\ i0 \notin Of(A, "save")
      BY <1>5, <1>6, <1>7 DEF IsLegacy, Of
    <3> QED
      BY <1>3, <1>6, <1>8, <3>1 DEF List, AllShown
  <2>4. \A c \in A : Modifying(q, items, tunnels, A, c)
    BY <1>3, <1>6, <1>8, <1>11 DEF List, Modifying
  <2>5. \A c \in A : Removing(q, tunnels, refused, c)
    BY <1>3, <1>11 DEF List, Removing
  <2> QED
    BY <1>3, <2>1, <2>2, <2>3, <2>4, <2>5 DEF List
<1>17. OneOwner(q, tunnels, A)
  BY <1>3, <1>6, NoRefs DEF OneOwner, Held
<1>18. PrefsOK(q)
  BY <1>2, <1>5, <1>6 DEF PrefsOK
<1>19. StoreInv'
  <2>1. prefs' = q /\ tunnels' = tunnels /\ items' = items /\ world' = world /\ calls' = calls /\ failed' = failed /\ refused' = refused
    BY <1>1, <1>4
  <2> QED
    BY <1>14, <1>16, <1>17, <2>1, InvNext DEF A, StoreInv
<1> QED
  BY <1>1, <1>4, <1>18, <1>19 DEF Types

\* A configuration is deleted outside the app.
LEMMA DeletedOutsideKeeps ==
  ASSUME Types, StoreInv, NEW i0 \in Ids, DeletedOutside(i0)
  PROVE  Types' /\ StoreInv'
<1> DEFINE A == Asked(calls)
           F == failed
           G == failed \ {i0}
<1>1. /\ i0 \in DOMAIN prefs /\ prefs' = Without(prefs, i0) /\ failed' = G
      /\ changed' = TRUE /\ messy' = TRUE
      /\ UNCHANGED <<items, tunnels, calls, world, refused>>
  BY DEF DeletedOutside
<1>2. ItemsOK(items) /\ PrefsOK(prefs) /\ refused \in BOOLEAN /\ ListOK(tunnels)
  BY DEF Types
<1>3. /\ Disk(prefs, items, A, F, refused) /\ OneOwner(prefs, tunnels, A)
      /\ List(prefs, items, tunnels, A, F, refused)
  BY DEF StoreInv
<1>4. PICK q : q = prefs'
  OBVIOUS
<1>5. DOMAIN q \subseteq DOMAIN prefs /\ \A i \in DOMAIN q : q[i] = prefs[i] /\ (i \in G <=> i \in F)
  BY <1>1, <1>4 DEF Without
<1> HIDE DEF A, F, G
<1>6. \A i \in DOMAIN q : /\ IsLegacy(q, i) <=> IsLegacy(prefs, i)
                          /\ Live(q, items, i) <=> Live(prefs, items, i)
                          /\ Counts(q, items, A, G, refused, i) <=> Counts(prefs, items, A, F, refused, i)
                          /\ Saving(q, A, i) = Saving(prefs, A, i)
  BY <1>5 DEF IsLegacy, Live, Counts, Saving
<1>7. \A i \in DOMAIN q : \A m : /\ IsGood(q, items, i, m) <=> IsGood(prefs, items, i, m)
                                 /\ Agrees(q, A, i, m) <=> Agrees(prefs, A, i, m)
  BY <1>5, <1>6 DEF IsGood, Agrees
<1>8. \A m : Free(prefs, items, A, F, refused, m) => Free(q, items, A, G, refused, m)
  BY <1>5, <1>6 DEF Free
<1>9. Kept(q, items, A, G) /\ Distinct(q, items, A, G, refused) /\ Legacies(q)
  <2>1. Kept(q, items, A, G)
    BY <1>3, <1>5, <1>7 DEF Disk, Kept
  <2>2. Distinct(q, items, A, G, refused)
    BY <1>3, <1>5, <1>6 DEF Disk, Distinct
  <2>3. Legacies(q)
    BY <1>3, <1>5 DEF Disk, Legacies
  <2> QED
    BY <2>1, <2>2, <2>3
<1>10. ASSUME NEW c \in A
       PROVE  /\ AddOK(q, items, A, G, refused, c) /\ ModOK(q, items, A, G, refused, c) /\ NewItem(items, c)
              /\ RulesOK(q, items, A, G, refused, c) /\ SaveOK(q, items, A, G, c) /\ DropOK(q, items, c)
  <2>1. /\ AddOK(prefs, items, A, F, refused, c) /\ ModOK(prefs, items, A, F, refused, c) /\ NewItem(items, c)
        /\ RulesOK(prefs, items, A, F, refused, c) /\ SaveOK(prefs, items, A, F, c) /\ DropOK(prefs, items, c)
    BY <1>3 DEF Disk
  <2>2. AddOK(q, items, A, G, refused, c)
    BY <2>1, <1>5, <1>8 DEF AddOK
  <2>3. ModOK(q, items, A, G, refused, c)
    BY <2>1, <1>5, <1>8 DEF ModOK
  <2>4. RulesOK(q, items, A, G, refused, c)
    BY <2>1, <1>5, <1>6, <1>7 DEF RulesOK
  <2>5. SaveOK(q, items, A, G, c)
    BY <2>1, <1>5, <1>6, <1>7 DEF SaveOK
  <2>6. DropOK(q, items, c)
    BY <2>1, <1>5, <1>6 DEF DropOK
  <2> QED
    BY <2>1, <2>2, <2>3, <2>4, <2>5, <2>6
<1>11. Disk(q, items, A, G, refused)
  BY <1>9, <1>10 DEF Disk
<1>12. List(q, items, tunnels, A, G, refused)
  <2>1. ShownGood(q, items, tunnels, A, G)
    BY <1>3, <1>5, <1>7 DEF List, ShownGood
  <2>2. ShownAgree(q, tunnels, A, refused)
    <3> SUFFICES ASSUME ~refused, NEW t \in DOMAIN tunnels, Id(tunnels, t) \in DOMAIN q \ Of(A, "modify")
                 PROVE  tunnels[t].name = q[Id(tunnels, t)].name /\ Agrees(q, A, Id(tunnels, t), tunnels[t].manager)
      BY DEF ShownAgree
    <3>1. tunnels[t].name = prefs[Id(tunnels, t)].name /\ Agrees(prefs, A, Id(tunnels, t), tunnels[t].manager)
      BY <1>3, <1>5 DEF List, ShownAgree
    <3> QED
      BY <1>5, <1>7, <3>1
  <2>3. AllShown(q, tunnels, A, refused)
    BY <1>3, <1>5, <1>6 DEF List, AllShown
  <2>4. \A c \in A : Modifying(q, items, tunnels, A, c)
    BY <1>3, <1>5, <1>6 DEF List, Modifying
  <2>5. \A c \in A : Removing(q, tunnels, refused, c)
    BY <1>3, <1>5 DEF List, Removing
  <2> QED
    BY <1>3, <2>1, <2>2, <2>3, <2>4, <2>5 DEF List
<1>13. OneOwner(q, tunnels, A)
  BY <1>3, <1>5 DEF OneOwner, Held
<1>14. PrefsOK(q) /\ failed' \subseteq Ids
  BY <1>1, <1>2, <1>5 DEF PrefsOK, Types, G
<1>15. StoreInv'
  <2>1. prefs' = q /\ tunnels' = tunnels /\ items' = items /\ world' = world /\ calls' = calls /\ failed' = G /\ refused' = refused
    BY <1>1, <1>4
  <2> QED
    BY <1>11, <1>12, <1>13, <2>1, InvNext DEF A, StoreInv
<1> QED
  BY <1>1, <1>4, <1>14, <1>15 DEF Types
=============================================================================
