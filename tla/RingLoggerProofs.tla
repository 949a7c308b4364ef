-------------------------- MODULE RingLoggerProofs --------------------------
(***************************************************************************)
(* For every number of writers, lines and messages, as long as no writer   *)
(* is overtaken by MAX_LINES others: a time stamp vouches for its line     *)
(* (an invariant about the writers alone, as the readers only read), an    *)
(* export is the tail of the log, and the log view shows it in order.      *)
(***************************************************************************)
EXTENDS RingLogger, NumberLemmas, SequenceTheorems, TLAPS

Active == {"claimed", "cleared", "printing", "printed"}

\* The writers' state keeps its type.
WritersType ==
  /\ nextIndex \in 0 .. IndexRange - 1
  /\ lines \in [Slots -> Line]
  /\ stage \in [Writers -> Stages]
  /\ message \in [Writers -> Messages \cup {0}]
  /\ slot \in [Writers -> Slots]
  /\ clock \in 0 .. MaxMessages

\* Whoever has read the clock has a message.
HasMessage == \A w \in Writers : stage[w] \in Active \cup {"stamped"} => message[w] \in Messages

\* A slot has one writer at a time.
OwnsSlot ==
  \A v, w \in Writers : stage[v] \in Active /\ stage[w] \in Active /\ slot[v] = slot[w] => v = w

\* What a writer has done to its line so far.
Progress ==
  \A w \in Writers :
    /\ stage[w] \in {"cleared", "printing", "printed"} => lines[slot[w]].time = Unset
    /\ stage[w] = "printed" => lines[slot[w]].text = message[w]

RingInv == WritersType /\ HasMessage /\ OwnsSlot /\ Progress /\ LineIsWhole

-----------------------------------------------------------------------------
\* The remainder of a division by n is one of 0 .. n - 1.
LEMMA Remainder ==
  ASSUME NEW i \in Int, NEW n \in Nat \ {0}
  PROVE  i % n \in 0 .. n - 1
OBVIOUS

\* An index selects a line of the ring.
LEMMA SlotType == ASSUME NEW i \in Int PROVE SlotOf(i) \in Slots
<1>1. i % IndexRange \in Int
  BY Remainder, SizesAssumption
<1> QED
  BY <1>1, Remainder, SizesAssumption DEF SlotOf, Slots

\* A new log is empty and nobody is writing.
LEMMA RingInit == Init => RingInv
<1> SUFFICES ASSUME Init PROVE RingInv
  OBVIOUS
<1>1. 0 \in Slots /\ nextIndex \in 0 .. IndexRange - 1 /\ clock \in 0 .. MaxMessages
  BY SizesAssumption DEF Init, Slots
<1>2. WritersType
  BY <1>1 DEF Init, WritersType, Line, Stages, Unset, Blank
<1>3. HasMessage /\ OwnsSlot /\ Progress
  BY DEF Init, HasMessage, OwnsSlot, Progress, Active
<1>4. LineIsWhole
  BY DEF Init, LineIsWhole, Unset
<1> QED
  BY <1>2, <1>3, <1>4 DEF RingInv

\* A message is stamped: its writer owns nothing yet.
LEMMA StampInv ==
  ASSUME RingInv, NEW w \in Writers, Stamp(w)
  PROVE  RingInv'
<1> USE DEF RingInv
<1>1. clock + 1 \in Messages
  BY SizesAssumption DEF Stamp, WritersType, Messages
<1>2. WritersType'
  BY <1>1, SizesAssumption DEF Stamp, WritersType, Stages, Messages
<1>3. stage' = [stage EXCEPT ![w] = "stamped"] /\ slot' = slot /\ lines' = lines
      /\ message' = [message EXCEPT ![w] = clock + 1] /\ stage[w] = "idle"
  BY DEF Stamp
<1>4. HasMessage'
  BY <1>1, <1>3 DEF HasMessage, WritersType, Active
<1>5. OwnsSlot' /\ Progress'
  BY <1>3 DEF OwnsSlot, Progress, WritersType, Active
<1>6. LineIsWhole'
  BY <1>3 DEF LineIsWhole
<1> QED
  BY <1>2, <1>4, <1>5, <1>6

\* A slot is claimed: nobody else is at work on it, because nobody is lapped.
LEMMA ClaimInv ==
  ASSUME RingInv, ~Lapping, NEW w \in Writers, Claim(w)
  PROVE  RingInv'
<1> USE DEF RingInv
<1> DEFINE k == SlotOf(nextIndex)
<1>1. k \in Slots /\ (nextIndex + 1) % IndexRange \in 0 .. IndexRange - 1
  BY SlotType, Remainder, SizesAssumption DEF WritersType
<1>2. stage' = [stage EXCEPT ![w] = "claimed"] /\ slot' = [slot EXCEPT ![w] = k]
      /\ lines' = lines /\ message' = message /\ stage[w] = "stamped" /\ Holding(k) = {}
      /\ nextIndex' = (nextIndex + 1) % IndexRange /\ clock' = clock
  BY DEF Claim
<1> HIDE DEF k
<1>3. WritersType'
  BY <1>1, <1>2 DEF WritersType, Stages
<1>4. HasMessage'
  BY <1>2 DEF HasMessage, WritersType, Active
<1>5. \A v \in Writers : stage[v] \in Active => slot[v] # k
  BY <1>2 DEF Holding, Active
<1>6. OwnsSlot'
  BY <1>2, <1>5 DEF OwnsSlot, WritersType, Active
<1>7. Progress'
  BY <1>2 DEF Progress, WritersType
<1>8. LineIsWhole'
  BY <1>2 DEF LineIsWhole
<1> QED
  BY <1>3, <1>4, <1>6, <1>7, <1>8

\* An owner goes from one stage to the next and writes one field of its own line.
LEMMA AdvanceInv ==
  ASSUME RingInv, NEW w \in Writers, NEW from \in Active, NEW to \in Active, Advance(w, from, to),
         NEW time \in Messages \cup {Unset}, NEW text \in Messages \cup {Blank, Half},
         SetLine(w, time, text),
         to \in {"cleared", "printing", "printed"} => time = Unset,
         to = "printed" => text = message[w],
         time # Unset => text = time
  PROVE  RingInv'
<1> USE DEF RingInv
<1>1. stage' = [stage EXCEPT ![w] = to] /\ slot' = slot /\ message' = message /\ stage[w] = from
      /\ lines' = [lines EXCEPT ![slot[w]] = [time |-> time, text |-> text]]
      /\ nextIndex' = nextIndex /\ clock' = clock /\ slot[w] \in Slots
  BY DEF Advance, SetLine, WritersType
<1>2. WritersType'
  BY <1>1 DEF WritersType, Line, Active, Stages
<1>3. HasMessage' /\ OwnsSlot'
  BY <1>1 DEF HasMessage, OwnsSlot, WritersType, Active
<1>4. ASSUME NEW v \in Writers, v # w, stage[v] \in Active PROVE lines'[slot[v]] = lines[slot[v]]
  BY <1>1, <1>4 DEF OwnsSlot, WritersType
<1>5. lines'[slot[w]] = [time |-> time, text |-> text]
  BY <1>1 DEF WritersType
<1>6. Progress'
  BY <1>1, <1>4, <1>5 DEF Progress, WritersType, Active
<1>7. LineIsWhole'
  BY <1>1 DEF LineIsWhole, WritersType
<1> QED
  BY <1>2, <1>3, <1>6, <1>7

\* A writer leaves its slot to whoever comes next.
LEMMA LeaveInv ==
  ASSUME RingInv, NEW w \in Writers, NEW to \in {"idle", "dead"}, Leave(w, to),
         nextIndex' = nextIndex, clock' = clock, lines' \in [Slots -> Line], LineIsWhole',
         \A v \in Writers : v # w /\ stage[v] \in Active => lines'[slot[v]] = lines[slot[v]]
  PROVE  RingInv'
<1> USE DEF RingInv
<1>1. stage' = [stage EXCEPT ![w] = to] /\ slot' = [slot EXCEPT ![w] = 0]
      /\ message' = [message EXCEPT ![w] = 0]
  BY DEF Leave
<1>2. 0 \in Slots
  BY SizesAssumption DEF Slots
<1>3. WritersType'
  BY <1>1, <1>2 DEF WritersType, Stages
<1>4. HasMessage' /\ OwnsSlot'
  BY <1>1 DEF HasMessage, OwnsSlot, WritersType, Active
<1>5. Progress'
  BY <1>1 DEF Progress, WritersType, Active
<1> QED
  BY <1>3, <1>4, <1>5
-----------------------------------------------------------------------------
\* Every step of write_msg_to_log keeps the invariant.
LEMMA WriteInv ==
  ASSUME RingInv, ~Lapping, NEW w \in Writers, Write(w)
  PROVE  RingInv'
<1> DEFINE line == lines[slot[w]]
<1>1. /\ line.time \in Messages \cup {Unset} /\ line.text \in Messages \cup {Blank, Half}
      /\ slot[w] \in Slots
  BY DEF RingInv, WritersType, Line
<1>2. CASE Clear(w)
  BY <1>1, <1>2, AdvanceInv DEF Clear, Active
<1>3. CASE Erase(w)
  <2>1. stage[w] = "cleared" /\ line.time = Unset
    BY <1>3 DEF Erase, Advance, RingInv, Progress
  <2> QED
    BY <1>1, <1>3, <2>1, AdvanceInv DEF Erase, Active
<1>4. CASE Format(w)
  <2>1. stage[w] = "printing" /\ line.time = Unset /\ message[w] \in Messages
    BY <1>4 DEF Format, Advance, RingInv, Progress, HasMessage, Active
  <2> QED
    BY <1>1, <1>4, <2>1, AdvanceInv DEF Format, Active
<1>5. CASE Publish(w)
  <2>1. stage[w] = "printed" /\ line.text = message[w] /\ message[w] \in Messages
    BY <1>5 DEF Publish, RingInv, Progress, HasMessage, Active
  <2>2. lines' = [lines EXCEPT ![slot[w]] = [time |-> message[w], text |-> message[w]]]
    BY <1>5, <2>1 DEF Publish, SetLine
  <2>3. lines' \in [Slots -> Line] /\ LineIsWhole'
    BY <1>1, <2>1, <2>2 DEF RingInv, WritersType, Line, LineIsWhole
  <2>4. \A v \in Writers : v # w /\ stage[v] \in Active => lines'[slot[v]] = lines[slot[v]]
    BY <2>1, <2>2 DEF RingInv, WritersType, OwnsSlot, Active
  <2> QED
    BY <1>5, <2>3, <2>4, LeaveInv DEF Publish
<1> QED
  BY <1>2, <1>3, <1>4, <1>5, StampInv, ClaimInv DEF Write

\* A killed writer touches no line, and the readers touch nothing of the writers'.
LEMMA NextRingInv == ~Lapping /\ RingInv /\ [Next]_vars => RingInv'
<1> SUFFICES ASSUME ~Lapping, RingInv, [Next]_vars PROVE RingInv'
  OBVIOUS
<1>1. ASSUME NEW w \in Writers, Killed(w) PROVE RingInv'
  <2>1. lines' = lines
    BY <1>1 DEF Killed
  <2>2. lines' \in [Slots -> Line] /\ LineIsWhole'
    BY <2>1 DEF RingInv, WritersType, LineIsWhole
  <2> QED
    BY <1>1, <2>1, <2>2, LeaveInv DEF Killed
<1>2. CASE UNCHANGED writing
  BY <1>2 DEF writing, RingInv, WritersType, HasMessage, OwnsSlot, Progress, LineIsWhole
<1>3. Fetch \/ Copy \/ Deliver \/ UNCHANGED vars => UNCHANGED writing
  BY DEF Fetch, Copy, Deliver, vars, writing
<1> QED
  BY <1>1, <1>2, <1>3, WriteInv DEF Next

\* A line whose time is set holds the whole text stamped with that time, in every
\* reachable state: readers may trust time_ns, unless a writer has been lapped.
THEOREM LinesAreWhole == ~Lapping /\ Spec => []LineIsWhole
<1>1. RingInv => LineIsWhole
  BY DEF RingInv
<1>2. CASE ~Lapping
  <2>1. RingInv /\ [Next]_vars => RingInv'
    BY <1>2, NextRingInv
  <2> QED
    BY <1>1, <2>1, RingInit, PTL DEF Spec
<1>3. CASE Lapping
  BY <1>3
<1> QED
  BY <1>2, <1>3

-----------------------------------------------------------------------------
(* The slots of the claims, in a ring of lines and a ring of indices.      *)

\* The n-th claim after the log was opened gets this slot.
ClaimSlot(n) == SlotOf(FirstIndex + n - 1)

-----------------------------------------------------------------------------
\* The wrap of the index does not show in the slots.
LEMMA SlotIsRemainder ==
  ASSUME NEW i \in Int
  PROVE  SlotOf(i) = (i % MaxLines)
<1>1. PICK p \in Int : i = p * IndexRange + (i % IndexRange)
  BY Division, SizesAssumption
<1>2. PICK q \in Int : IndexRange = q * MaxLines
  <2>1. PICK q \in Int : q = IndexRange \div MaxLines /\ IndexRange = q * MaxLines + (IndexRange % MaxLines)
    BY Division, SizesAssumption
  <2>2. q * MaxLines + 0 = q * MaxLines /\ q * MaxLines \in Int
    BY SizesAssumption
  <2> QED
    BY <2>1, <2>2, SizesAssumption
<1>3. PICK r \in Int : r = (i % IndexRange)
  BY Division, SizesAssumption
<1>4. i = r + (p * q) * MaxLines /\ p * q \in Int
  BY <1>1, <1>2, <1>3, SizesAssumption
<1>5. (i % MaxLines) = (r % MaxLines)
  BY <1>4, Congruence, SizesAssumption
<1> QED
  BY <1>3, <1>5 DEF SlotOf

\* The 32-bit index may be reduced before something is added to it.
LEMMA IndexRemainderAdds ==
  ASSUME NEW i \in Int, NEW l \in Int, NEW r \in Int, r = (i % IndexRange)
  PROVE  ((r + l) % IndexRange) = ((i + l) % IndexRange)
<1>1. IndexRange \in Nat \ {0}
  BY SizesAssumption
<1> QED
  BY <1>1, RemainderAdds, Zenon

\* And so may the number of a line.
LEMMA LineRemainderAdds ==
  ASSUME NEW i \in Int, NEW l \in Int, NEW r \in Int, r = (i % MaxLines)
  PROVE  ((r + l) % MaxLines) = ((i + l) % MaxLines)
<1>1. MaxLines \in Nat \ {0}
  BY SizesAssumption
<1> QED
  BY <1>1, RemainderAdds, Zenon

\* A line's number or an index may stand for each other when lines are counted from them.
LEMMA SlotAdds ==
  ASSUME NEW i \in Int, NEW l \in Int, NEW r \in Int, r = SlotOf(i) \/ r = (i % IndexRange)
  PROVE  SlotOf(r + l) = SlotOf(i + l)
<1>1. ((i + l) % MaxLines) = SlotOf(i + l) /\ ((r + l) % MaxLines) = SlotOf(r + l)
  <2>1. i + l \in Int /\ r + l \in Int
    OBVIOUS
  <2> QED
    BY <2>1, SlotIsRemainder
<1>2. CASE r = SlotOf(i)
  BY <1>1, <1>2, SlotIsRemainder, LineRemainderAdds
<1>3. CASE r = (i % IndexRange)
  <2>1. (r % MaxLines) = (i % MaxLines)
    BY <1>3, SlotIsRemainder DEF SlotOf
  <2>2. PICK s \in Int : s = (r % MaxLines)
    <3>1. (r % MaxLines) \in Int
      BY Division, SizesAssumption
    <3> QED
      BY <3>1
  <2>3. ((s + l) % MaxLines) = ((r + l) % MaxLines) /\ ((s + l) % MaxLines) = ((i + l) % MaxLines)
    BY <2>1, <2>2, LineRemainderAdds
  <2> QED
    BY <1>1, <2>3
<1> QED
  BY <1>2, <1>3

\* A claim's slot is a slot of the ring.
LEMMA ClaimSlotType == ASSUME NEW n \in Int PROVE ClaimSlot(n) \in Slots
BY SlotType, SizesAssumption DEF ClaimSlot

\* Claims that are fewer than MaxLines apart have different slots.
LEMMA SlotsDiffer ==
  ASSUME NEW m \in Int, NEW n \in Int, ClaimSlot(m) = ClaimSlot(n), m - n < MaxLines, n - m < MaxLines
  PROVE  m = n
<1>1. PICK i \in Int, j \in Int : i = FirstIndex + m - 1 /\ j = FirstIndex + n - 1
  BY SizesAssumption
<1>2. (i % MaxLines) = (j % MaxLines)
  BY <1>1, SlotIsRemainder DEF ClaimSlot
<1>3. i - j < MaxLines /\ j - i < MaxLines
  BY <1>1, SizesAssumption
<1>4. i = j
  BY <1>2, <1>3, Apart, SizesAssumption
<1> QED
  BY <1>1, <1>4, SizesAssumption

\* A slot comes up again after MaxLines claims.
LEMMA SlotReturns ==
  ASSUME NEW n \in Int
  PROVE  ClaimSlot(n + MaxLines) = ClaimSlot(n)
<1>1. PICK i \in Int : i = FirstIndex + n - 1
  BY SizesAssumption
<1>2. PICK j \in Int : j = i + MaxLines /\ j = FirstIndex + (n + MaxLines) - 1
  BY <1>1, SizesAssumption
<1>3. PICK q \in Int : q = 1
  OBVIOUS
<1>4. j = i + q * MaxLines
  BY <1>2, <1>3, SizesAssumption
<1>5. (j % MaxLines) = (i % MaxLines)
  BY <1>4, Congruence, SizesAssumption
<1> QED
  BY <1>1, <1>2, <1>5, SlotIsRemainder DEF ClaimSlot

\* Where the index is after n claims, and l lines further.
LEMMA SlotAhead ==
  ASSUME NEW n \in Int, NEW l \in Int, NEW next, next = ((FirstIndex + n) % IndexRange)
  PROVE  /\ next \in 0 .. IndexRange - 1
         /\ SlotOf(next + l) = ClaimSlot(n + l + 1)
         /\ SlotOf(next + l - 1) = ClaimSlot(n + l)
         /\ SlotOf(next) = ClaimSlot(n + 1)
<1> USE SizesAssumption
<1>1. PICK i \in Int : i = FirstIndex + n
  OBVIOUS
<1>2. next \in 0 .. IndexRange - 1 /\ next = (i % IndexRange)
  BY Division, <1>1
<1>3. \A m \in Int : SlotOf(next + m) = ClaimSlot(n + m + 1)
  <2> TAKE m \in Int
  <2>1. SlotOf(next + m) = SlotOf(i + m)
    <3>1. next \in Int
      BY <1>2
    <3>2. PICK r \in Int : r = next
      BY <3>1
    <3> QED
      BY <1>2, <3>2, SlotAdds
  <2>2. i + m = FirstIndex + (n + m + 1) - 1
    BY <1>1
  <2> QED
    BY <2>1, <2>2 DEF ClaimSlot
<1>4. next + l - 1 = next + (l - 1) /\ n + (l - 1) + 1 = n + l /\ l - 1 \in Int
      /\ next = next + 0 /\ n + 0 + 1 = n + 1
  BY <1>2
<1>5. SlotOf(next + 0) = ClaimSlot(n + 0 + 1) /\ SlotOf(next + (l - 1)) = ClaimSlot(n + (l - 1) + 1)
  BY <1>3, <1>4
<1> QED
  BY <1>2, <1>3, <1>4, <1>5

\* The l-th line from the index of the copy on, as the readers count.
LEMMA LineAhead ==
  ASSUME NEW n \in Int, NEW l \in Int
  PROVE  SlotOf(((FirstIndex + n) % IndexRange) + l - 1) = ClaimSlot(n + l)
<1>1. PICK next : next = ((FirstIndex + n) % IndexRange)
  OBVIOUS
<1>2. SlotOf(next + l - 1) = ClaimSlot(n + l)
  BY <1>1, SlotAhead
<1> QED
  BY <1>1, <1>2

\* The line that is written next, and the one after it.
LEMMA NextSlot ==
  ASSUME NEW n \in Int, NEW next, next = ((FirstIndex + n) % IndexRange)
  PROVE  SlotOf(next) = ClaimSlot(n + 1) /\ SlotOf(next + 1) = ClaimSlot(n + 2)
<1>1. PICK l \in Int : l = 1
  OBVIOUS
<1>2. SlotOf(next) = ClaimSlot(n + 1) /\ SlotOf(next + l) = ClaimSlot(n + l + 1)
  BY SlotAhead
<1> QED
  BY <1>1, <1>2

\* The slots that follow that of the n-th claim.
LEMMA SlotFollows ==
  ASSUME NEW n \in Int, NEW l \in Int
  PROVE  /\ SlotOf(ClaimSlot(n) + l - 1) = ClaimSlot(n + l - 1)
         /\ ((ClaimSlot(n) + 1) % MaxLines) = ClaimSlot(n + 1)
<1> USE SizesAssumption
<1>1. PICK i \in Int : i = FirstIndex + n - 1
  OBVIOUS
<1>2. PICK k \in Int : k = ClaimSlot(n) /\ k = SlotOf(i)
  <2>1. ClaimSlot(n) \in Int
    BY ClaimSlotType DEF Slots
  <2> QED
    BY <1>1, <2>1 DEF ClaimSlot
<1>3. \A m \in Int : SlotOf(k + m) = ClaimSlot(n + m)
  <2> TAKE m \in Int
  <2>1. SlotOf(k + m) = SlotOf(i + m)
    BY <1>2, SlotAdds
  <2>2. i + m = FirstIndex + (n + m) - 1
    BY <1>1
  <2> QED
    BY <2>1, <2>2 DEF ClaimSlot
<1>4. SlotOf(k + (l - 1)) = ClaimSlot(n + (l - 1)) /\ k + (l - 1) = k + l - 1 /\ n + (l - 1) = n + l - 1
  BY <1>3
<1>5. SlotOf(k + 1) = ClaimSlot(n + 1)
  BY <1>3
<1>6. SlotOf(k + 1) = ((k + 1) % MaxLines)
  BY SlotIsRemainder
<1> QED
  BY <1>2, <1>4, <1>5, <1>6

-----------------------------------------------------------------------------
(* The ledger: which claim a line belongs to.                              *)

\* The claims whose slots have not been claimed again; those before the first stand
\* for slots that nobody has claimed yet.
Window == Len(claimed) - MaxLines + 1 .. Len(claimed)

AtWork(k) == \E w \in Writers : stage[w] \in Active /\ slot[w] = k
Starting(k) == \E w \in Writers : stage[w] = "claimed" /\ slot[w] = k
SomeoneDied == \E w \in Writers : stage[w] = "dead"

\* The index counts the claims, and a writer at work has one of the last MaxLines.
Ledger ==
  /\ claimed \in Seq(Messages)
  /\ nextIndex = ((FirstIndex + Len(claimed)) % IndexRange)
  /\ \A w \in Writers : stage[w] \in Active =>
       \E n \in Window : n >= 1 /\ slot[w] = ClaimSlot(n) /\ message[w] = claimed[n]

\* What a line's time may be, once its last writer has cleared it, and once it is done.
LineFollows(n) ==
  LET k == ClaimSlot(n) IN
  /\ n < 1 => lines[k].time = Unset
  /\ n >= 1 /\ (~raced \/ ~SomeoneDied) /\ ~Starting(k) => lines[k].time \in {Unset, claimed[n]}
  /\ n >= 1 /\ ~SomeoneDied /\ ~AtWork(k) => lines[k].time = claimed[n]

LinesFollow == \A n \in Window : LineFollows(n)

ClaimsInv == RingInv /\ Ledger /\ LinesFollow

-----------------------------------------------------------------------------
\* A new log has no claims.
LEMMA ClaimsInit == Init => ClaimsInv
<1> SUFFICES ASSUME Init PROVE ClaimsInv
  OBVIOUS
<1> USE SizesAssumption
<1>1. claimed = <<>> /\ Len(claimed) = 0 /\ claimed \in Seq(Messages)
  BY DEF Init
<1>2. nextIndex = ((FirstIndex + Len(claimed)) % IndexRange)
  <2>1. FirstIndex = 0 * IndexRange + FirstIndex
    OBVIOUS
  <2>2. (FirstIndex % IndexRange) = FirstIndex
    BY <2>1, UniqueRemainder
  <2> QED
    BY <1>1, <2>2 DEF Init
<1>3. Ledger
  BY <1>1, <1>2 DEF Ledger, Init, Active
<1>4. ASSUME NEW n \in Window PROVE LineFollows(n)
  <2>1. n \in Int /\ n < 1
    BY <1>1 DEF Window
  <2>2. ClaimSlot(n) \in Slots
    BY <2>1, ClaimSlotType
  <2>3. lines[ClaimSlot(n)].time = Unset
    BY <2>2 DEF Init
  <2> QED
    BY <2>1, <2>3 DEF LineFollows
<1> QED
  BY <1>3, <1>4, RingInit DEF ClaimsInv, LinesFollow

\* Claims that have not been overtaken have slots of their own.
LEMMA WindowType ==
  ASSUME Ledger
  PROVE  /\ Len(claimed) \in Nat /\ \A n \in Window : n \in Int
         /\ \A m, n \in Window : ClaimSlot(m) = ClaimSlot(n) => m = n
<1>1. Len(claimed) \in Nat
  BY DEF Ledger
<1>2. \A m, n \in Window : m \in Int /\ n \in Int /\ m - n < MaxLines /\ n - m < MaxLines
  BY <1>1, SizesAssumption DEF Window
<1> QED
  BY <1>1, <1>2, SlotsDiffer

\* A claim takes the slot of the oldest one in the window.
LEMMA ClaimMoves ==
  ASSUME ClaimsInv, NEW w \in Writers, Claim(w)
  PROVE  LET k == SlotOf(nextIndex) n == Len(claimed) IN
         /\ n \in Nat /\ k = ClaimSlot(n + 1) /\ k = ClaimSlot(n + 1 - MaxLines)
         /\ claimed' = Append(claimed, message[w]) /\ message[w] \in Messages
         /\ claimed' \in Seq(Messages) /\ Len(claimed') = n + 1 /\ claimed'[n + 1] = message[w]
         /\ \A i \in 1 .. n : claimed'[i] = claimed[i]
         /\ Window' = (Window \ {n + 1 - MaxLines}) \cup {n + 1}
         /\ nextIndex' = ((FirstIndex + Len(claimed')) % IndexRange)
<1> USE SizesAssumption
<1> DEFINE n == Len(claimed)
<1>1. n \in Nat /\ claimed \in Seq(Messages) /\ nextIndex = ((FirstIndex + n) % IndexRange)
  BY DEF ClaimsInv, Ledger
<1>2. message[w] \in Messages /\ claimed' = Append(claimed, message[w])
  BY DEF Claim, ClaimsInv, RingInv, HasMessage
<1>3. claimed' \in Seq(Messages) /\ Len(claimed') = n + 1 /\ claimed'[n + 1] = message[w]
      /\ \A i \in 1 .. n : claimed'[i] = claimed[i]
  BY <1>1, <1>2
<1>4. SlotOf(nextIndex) = ClaimSlot(n + 1)
  BY <1>1, NextSlot
<1>5. ClaimSlot(n + 1) = ClaimSlot(n + 1 - MaxLines)
  <2>1. n + 1 - MaxLines \in Int /\ n + 1 - MaxLines + MaxLines = n + 1
    BY <1>1
  <2> QED
    BY <2>1, SlotReturns
<1>6. Window' = (Window \ {n + 1 - MaxLines}) \cup {n + 1}
  BY <1>1, <1>3 DEF Window
<1>7. nextIndex' = ((FirstIndex + (n + 1)) % IndexRange)
  <2>1. nextIndex' = ((nextIndex + 1) % IndexRange)
    BY DEF Claim
  <2>2. nextIndex \in Int /\ FirstIndex + n \in Int /\ FirstIndex + n + 1 = FirstIndex + (n + 1)
    BY <1>1 DEF ClaimsInv, RingInv, WritersType
  <2>3. PICK i \in Int, r \in Int : i = FirstIndex + n /\ r = nextIndex
    BY <2>2
  <2>4. PICK l \in Int : l = 1
    OBVIOUS
  <2>5. ((r + l) % IndexRange) = ((i + l) % IndexRange)
    BY <1>1, <2>3, IndexRemainderAdds
  <2> QED
    BY <2>1, <2>2, <2>3, <2>4, <2>5
<1> QED
  BY <1>1, <1>2, <1>3, <1>4, <1>5, <1>6, <1>7

\* A claim keeps the ledger: its own line is being started, the others stay.
LEMMA ClaimFollows ==
  ASSUME ClaimsInv, ~Lapping, NEW w \in Writers, Claim(w)
  PROVE  Ledger' /\ LinesFollow'
<1> DEFINE k == SlotOf(nextIndex)
           n == Len(claimed)
<1>1. /\ n \in Nat /\ k = ClaimSlot(n + 1) /\ k = ClaimSlot(n + 1 - MaxLines)
      /\ claimed' \in Seq(Messages) /\ Len(claimed') = n + 1 /\ claimed'[n + 1] = message[w]
      /\ \A i \in 1 .. n : claimed'[i] = claimed[i]
      /\ Window' = (Window \ {n + 1 - MaxLines}) \cup {n + 1}
      /\ nextIndex' = ((FirstIndex + Len(claimed')) % IndexRange)
  BY ClaimMoves
<1>2. stage' = [stage EXCEPT ![w] = "claimed"] /\ slot' = [slot EXCEPT ![w] = k]
      /\ lines' = lines /\ message' = message /\ stage[w] = "stamped" /\ Holding(k) = {}
      /\ raced' = (raced \/ Overruns)
  BY DEF Claim
<1>3. /\ stage \in [Writers -> Stages] /\ slot \in [Writers -> Slots]
      /\ \A v \in Writers : stage[v] \in Active => slot[v] # k
  BY <1>2 DEF ClaimsInv, RingInv, WritersType, Holding, Active
<1> HIDE DEF k, n
<1>4. n + 1 \in Window' /\ n + 1 >= 1 /\ MaxLines \in Nat \ {0}
  BY <1>1, SizesAssumption
<1>5. ASSUME NEW m \in Window, m # n + 1 - MaxLines
      PROVE  m \in Window' /\ m \in Int /\ m <= n /\ (m >= 1 => claimed'[m] = claimed[m]) /\ ClaimSlot(m) # k
  <2>1. m \in Int /\ m <= n /\ m > n - MaxLines
    BY <1>1, SizesAssumption DEF Window, n
  <2>2. ClaimSlot(m) # k
    <3>1. PICK o \in Int : o = n + 1 - MaxLines
      BY <1>1, SizesAssumption
    <3>2. m - o < MaxLines /\ o - m < MaxLines /\ m # o
      BY <1>1, <1>5, <2>1, <3>1, SizesAssumption
    <3> QED
      BY <1>1, <2>1, <3>1, <3>2, SlotsDiffer
  <2> QED
    BY <1>1, <1>5, <2>1, <2>2
<1>6. Ledger'
  <2>1. ASSUME NEW v \in Writers, stage'[v] \in Active
        PROVE  \E m \in Window' : m >= 1 /\ slot'[v] = ClaimSlot(m) /\ message'[v] = claimed'[m]
    <3>1. CASE v = w
      BY <1>1, <1>2, <1>3, <1>4, <3>1
    <3>2. CASE v # w
      <4>1. stage[v] \in Active /\ slot'[v] = slot[v] /\ message'[v] = message[v]
        BY <1>2, <1>3, <2>1, <3>2
      <4>2. PICK m \in Window : m >= 1 /\ slot[v] = ClaimSlot(m) /\ message[v] = claimed[m]
        BY <4>1 DEF ClaimsInv, Ledger
      <4>3. m # n + 1 - MaxLines
        BY <1>1, <1>3, <4>1, <4>2
      <4> QED
        BY <1>5, <4>1, <4>2, <4>3
    <3> QED
      BY <3>1, <3>2
  <2> QED
    BY <1>1, <2>1 DEF Ledger, ClaimSlot
<1>7. ASSUME NEW m \in Window' PROVE LineFollows(m)'
  <2>1. CASE m = n + 1
    <3>1. PICK j : j = ClaimSlot(m)
      OBVIOUS
    <3>2. m \in Int /\ m >= 1 /\ j = k
      BY <1>1, <1>4, <2>1, <3>1
    <3>3. Starting(j)' /\ AtWork(j)'
      BY <1>2, <1>3, <3>2 DEF Starting, AtWork, Active
    <3> QED
      BY <3>1, <3>2, <3>3 DEF LineFollows, ClaimSlot
  <2>2. CASE m # n + 1
    <3>1. m \in Window /\ m # n + 1 - MaxLines
      BY <1>1, <1>7, <2>2
    <3>2. PICK j : j = ClaimSlot(m)
      OBVIOUS
    <3>3. j # k /\ (m >= 1 => claimed'[m] = claimed[m]) /\ m \in Int
      BY <1>5, <3>1, <3>2
    <3>4. (Starting(j)' <=> Starting(j)) /\ (AtWork(j)' <=> AtWork(j))
      BY <1>2, <1>3, <3>3 DEF Starting, AtWork, Active
    <3>5. (SomeoneDied' => SomeoneDied) /\ (SomeoneDied => SomeoneDied')
      BY <1>2, <1>3 DEF SomeoneDied
    <3>6. LineFollows(m)
      BY <3>1 DEF ClaimsInv, LinesFollow
    <3>7. ~raced' => ~raced
      BY <1>2
    <3> QED
      BY <1>2, <3>2, <3>3, <3>4, <3>5, <3>6, <3>7 DEF LineFollows, ClaimSlot
  <2> QED
    BY <2>1, <2>2
<1> QED
  BY <1>6, <1>7 DEF LinesFollow

\* A step of a writer at work, which leaves the time unset, publishes it, or dies.
LEMMA WorkFollows ==
  ASSUME ClaimsInv, RingInv', NEW w \in Writers, stage[w] \in Active,
         NEW to, stage' = [stage EXCEPT ![w] = to], stage[w] # to,
         \A v \in Writers : v # w => slot'[v] = slot[v] /\ message'[v] = message[v],
         to \in Active => slot'[w] = slot[w] /\ message'[w] = message[w] /\ to # "claimed"
                          /\ lines'[slot[w]].time = Unset,
         to = "idle" => lines'[slot[w]].time = message[w],
         to = "dead" => lines' = lines /\ (raced' = (raced \/ stage[w] = "claimed")),
         to # "dead" => raced' = raced,
         to \in Active \cup {"idle", "dead"},
         \A k \in Slots : k # slot[w] => lines'[k] = lines[k],
         claimed' = claimed, nextIndex' = nextIndex
  PROVE  Ledger' /\ LinesFollow'
<1>1. stage \in [Writers -> Stages] /\ slot \in [Writers -> Slots] /\ Window' = Window
  BY DEF ClaimsInv, RingInv, WritersType, Window
<1>2. stage'[w] = to /\ \A v \in Writers : v # w => stage'[v] = stage[v]
  BY <1>1
<1>3. Ledger'
  <2>1. ASSUME NEW v \in Writers, stage'[v] \in Active
        PROVE  \E m \in Window : m >= 1 /\ slot'[v] = ClaimSlot(m) /\ message'[v] = claimed[m]
    <3>1. stage[v] \in Active /\ slot'[v] = slot[v] /\ message'[v] = message[v]
      BY <1>2, <2>1
    <3> QED
      BY <3>1 DEF ClaimsInv, Ledger
  <2> QED
    BY <1>1, <2>1 DEF ClaimsInv, Ledger, ClaimSlot
<1>4. PICK i \in Window : i >= 1 /\ slot[w] = ClaimSlot(i) /\ message[w] = claimed[i]
  BY DEF ClaimsInv, Ledger
<1>5. ASSUME NEW m \in Window PROVE LineFollows(m)'
  <2>1. PICK j : j = ClaimSlot(m)
    OBVIOUS
  <2>2. j \in Slots /\ m \in Int
    BY <2>1, WindowType, ClaimSlotType DEF ClaimsInv
  <2>3. LineFollows(m)
    BY DEF ClaimsInv, LinesFollow
  <2>4. CASE m = i
    <3>1. j = slot[w] /\ m >= 1 /\ message[w] = claimed[m]
      BY <1>4, <2>1, <2>4
    <3>2. CASE to \in Active
      <4>1. AtWork(j)' /\ lines'[j].time = Unset
        BY <1>2, <3>1, <3>2 DEF AtWork
      <4> QED
        BY <2>1, <2>2, <3>1, <4>1 DEF LineFollows, ClaimSlot
    <3>3. CASE to = "idle"
      BY <2>1, <2>2, <3>1, <3>3 DEF LineFollows, ClaimSlot
    <3>4. CASE to = "dead"
      <4>1. SomeoneDied'
        BY <1>2, <3>4 DEF SomeoneDied
      <4>2. CASE raced'
        BY <2>1, <2>2, <3>1, <4>1, <4>2 DEF LineFollows, ClaimSlot
      <4>3. CASE ~raced'
        <5>1. ~raced /\ stage[w] # "claimed" /\ lines' = lines
          BY <3>4, <4>3
        <5>2. ~Starting(j)
          BY <3>1, <5>1 DEF Starting, ClaimsInv, RingInv, OwnsSlot, Active
        <5> QED
          BY <2>1, <2>2, <2>3, <3>1, <4>1, <5>1, <5>2 DEF LineFollows, ClaimSlot
      <4> QED
        BY <4>2, <4>3
    <3> QED
      BY <3>2, <3>3, <3>4
  <2>5. CASE m # i
    <3>1. j # slot[w]
      BY <1>4, <2>1, <2>5, WindowType DEF ClaimsInv
    <3>2. lines'[j] = lines[j]
      BY <2>2, <3>1
    <3>3. (Starting(j)' <=> Starting(j)) /\ (AtWork(j)' <=> AtWork(j))
      <4>1. to \in Active => slot'[w] # j
        BY <3>1
      <4>2. to \notin Active => to # "claimed"
        BY DEF Active
      <4> QED
        BY <1>1, <1>2, <3>1, <4>1, <4>2 DEF Starting, AtWork
    <3>4. SomeoneDied => SomeoneDied'
      BY <1>2 DEF SomeoneDied, Active
    <3>5. ~raced' => ~raced
      OBVIOUS
    <3> QED
      BY <2>1, <2>3, <3>2, <3>3, <3>4, <3>5 DEF LineFollows, ClaimSlot
  <2> QED
    BY <2>4, <2>5
<1> QED
  BY <1>1, <1>3, <1>5 DEF LinesFollow

\* Every step of a writer keeps the ledger and what it says of the lines.
LEMMA WriteClaims ==
  ASSUME ClaimsInv, RingInv', ~Lapping, NEW w \in Writers, Write(w) \/ Killed(w)
  PROVE  Ledger' /\ LinesFollow'
<1>1. /\ slot \in [Writers -> Slots] /\ stage \in [Writers -> Stages]
      /\ message \in [Writers -> Messages \cup {0}] /\ lines \in [Slots -> Line]
      /\ Progress
  BY DEF ClaimsInv, RingInv, WritersType
<1>2. CASE Stamp(w)
  <2>1. /\ claimed' = claimed /\ lines' = lines /\ slot' = slot /\ nextIndex' = nextIndex /\ raced' = raced
        /\ stage[w] = "idle" /\ stage' = [stage EXCEPT ![w] = "stamped"]
        /\ message' = [message EXCEPT ![w] = clock + 1] /\ Window' = Window
    BY <1>2 DEF Stamp, Window
  <2>2. Ledger'
    <3>1. \A v \in Writers : stage'[v] \in Active =>
            stage[v] \in Active /\ message'[v] = message[v]
      BY <1>1, <2>1 DEF Active
    <3> QED
      BY <2>1, <3>1 DEF ClaimsInv, Ledger, ClaimSlot
  <2>3. ASSUME NEW m \in Window PROVE LineFollows(m)'
    <3>1. PICK j : j = ClaimSlot(m)
      OBVIOUS
    <3>2. (Starting(j)' <=> Starting(j)) /\ (AtWork(j)' <=> AtWork(j))
      BY <1>1, <2>1 DEF Starting, AtWork, Active
    <3>3. SomeoneDied => SomeoneDied'
      BY <1>1, <2>1 DEF SomeoneDied
    <3> QED
      BY <2>1, <3>1, <3>2, <3>3 DEF ClaimsInv, LinesFollow, LineFollows, ClaimSlot
  <2> QED
    BY <2>1, <2>2, <2>3 DEF LinesFollow
<1>3. CASE Claim(w)
  BY <1>3, ClaimFollows
<1>4. ASSUME NEW from \in Active, NEW to \in Active, Advance(w, from, to), to # "claimed", from # to,
             NEW text, SetLine(w, Unset, text)
      PROVE  Ledger' /\ LinesFollow'
  <2>1. /\ stage[w] = from /\ stage' = [stage EXCEPT ![w] = to]
        /\ lines' = [lines EXCEPT ![slot[w]] = [time |-> Unset, text |-> text]]
        /\ message' = message /\ slot' = slot /\ claimed' = claimed /\ nextIndex' = nextIndex
        /\ raced' = raced
    BY <1>4 DEF Advance, SetLine
  <2>2. lines'[slot[w]].time = Unset /\ \A k \in Slots : k # slot[w] => lines'[k] = lines[k]
    BY <1>1, <2>1
  <2>3. to # "dead" /\ to # "idle"
    BY DEF Active
  <2> QED
    BY <1>4, <2>1, <2>2, <2>3, WorkFollows
<1>5. CASE Clear(w)
  BY <1>4, <1>5 DEF Clear, Active
<1>6. CASE Erase(w)
  <2>1. lines[slot[w]].time = Unset
    BY <1>1, <1>6 DEF Erase, Advance, Progress
  <2> QED
    BY <1>4, <1>6, <2>1 DEF Erase, Active
<1>7. CASE Format(w)
  <2>1. lines[slot[w]].time = Unset
    BY <1>1, <1>7 DEF Format, Advance, Progress
  <2> QED
    BY <1>4, <1>7, <2>1 DEF Format, Active
<1>8. CASE Publish(w)
  <2>1. /\ stage[w] = "printed" /\ stage' = [stage EXCEPT ![w] = "idle"]
        /\ message' = [message EXCEPT ![w] = 0] /\ slot' = [slot EXCEPT ![w] = 0]
        /\ lines' = [lines EXCEPT ![slot[w]] = [time |-> message[w], text |-> lines[slot[w]].text]]
        /\ claimed' = claimed /\ nextIndex' = nextIndex /\ raced' = raced
    BY <1>8 DEF Publish, Leave, SetLine
  <2>2. lines'[slot[w]].time = message[w] /\ \A k \in Slots : k # slot[w] => lines'[k] = lines[k]
    BY <1>1, <2>1
  <2>3. \A v \in Writers : v # w => slot'[v] = slot[v] /\ message'[v] = message[v]
    BY <1>1, <2>1
  <2>4. "printed" \in Active /\ "idle" \notin Active
    BY DEF Active
  <2> QED
    BY <2>1, <2>2, <2>3, <2>4, WorkFollows
<1>9. CASE Killed(w)
  <2>1. /\ stage[w] \in Active /\ stage' = [stage EXCEPT ![w] = "dead"]
        /\ message' = [message EXCEPT ![w] = 0] /\ slot' = [slot EXCEPT ![w] = 0]
        /\ lines' = lines /\ claimed' = claimed /\ nextIndex' = nextIndex
        /\ raced' = (raced \/ stage[w] = "claimed")
    BY <1>9 DEF Killed, Leave, Active
  <2>2. \A v \in Writers : v # w => slot'[v] = slot[v] /\ message'[v] = message[v]
    BY <1>1, <2>1
  <2>3. "dead" \notin Active
    BY DEF Active
  <2> QED
    BY <2>1, <2>2, <2>3, WorkFollows
<1> QED
  BY <1>2, <1>3, <1>5, <1>6, <1>7, <1>8, <1>9 DEF Write

\* The readers' steps keep them, as they write nothing.
LEMMA ReadClaims ==
  ASSUME ClaimsInv, UNCHANGED writing, raced => raced'
  PROVE  Ledger' /\ LinesFollow'
<1>1. claimed' = claimed /\ lines' = lines /\ slot' = slot /\ nextIndex' = nextIndex
      /\ stage' = stage /\ message' = message
  BY DEF writing
<1>2. Window' = Window
  BY <1>1 DEF Window
<1>3. Ledger'
  BY <1>1, <1>2 DEF ClaimsInv, Ledger, ClaimSlot
<1>4. ASSUME NEW m \in Window PROVE LineFollows(m)'
  <2>1. PICK j : j = ClaimSlot(m)
    OBVIOUS
  <2>2. (Starting(j)' <=> Starting(j)) /\ (AtWork(j)' <=> AtWork(j)) /\ (SomeoneDied' <=> SomeoneDied)
    BY <1>1 DEF Starting, AtWork, SomeoneDied
  <2> QED
    BY <1>1, <2>1, <2>2 DEF ClaimsInv, LinesFollow, LineFollows, ClaimSlot
<1> QED
  BY <1>2, <1>3, <1>4 DEF LinesFollow

\* The ledger is kept by every step.
LEMMA NextClaims == ~Lapping /\ ClaimsInv /\ [Next]_vars => ClaimsInv'
<1> SUFFICES ASSUME ~Lapping, ClaimsInv, [Next]_vars PROVE ClaimsInv'
  OBVIOUS
<1>1. RingInv'
  BY NextRingInv DEF ClaimsInv
<1>2. ASSUME NEW w \in Writers, Write(w) \/ Killed(w) PROVE Ledger' /\ LinesFollow'
  BY <1>1, <1>2, WriteClaims
<1>3. Fetch \/ Copy \/ Deliver \/ UNCHANGED vars => UNCHANGED writing /\ (raced => raced')
  <2>1. Fetch => UNCHANGED writing /\ (raced => raced')
    BY DEF Fetch
  <2>2. Copy => UNCHANGED writing /\ (raced => raced')
    <3>1. ASSUME Copy, raced PROVE raced'
      BY <3>1, Zenon DEF Copy
    <3> QED
      BY <3>1 DEF Copy
  <2>3. Deliver => UNCHANGED writing /\ (raced => raced')
    BY DEF Deliver
  <2> QED
    BY <2>1, <2>2, <2>3 DEF vars, writing
<1> QED
  BY <1>1, <1>2, <1>3, ReadClaims DEF Next, ClaimsInv

-----------------------------------------------------------------------------
(* The export.                                                             *)

\* If the lines with a time are the last ones, they are what is kept.
LEMMA WithTimeTail ==
  ASSUME NEW s \in [1 .. MaxLines -> Line], NEW e \in 0 .. MaxLines,
         \A i \in 1 .. e : s[i].time = Unset, \A i \in e + 1 .. MaxLines : s[i].time # Unset
  PROVE  WithTime(s) = [i \in 1 .. MaxLines - e |-> s[e + i]]
<1> USE SizesAssumption
<1> DEFINE Kept(l) == [i \in 1 .. (IF l <= e THEN 0 ELSE l - e) |-> s[e + i]]
           Loop(out) == out = [l \in 0 .. MaxLines |->
             IF l = 0 THEN <<>> ELSE IF s[l].time = Unset THEN out[l - 1] ELSE Append(out[l - 1], s[l])]
<1>1. Kept(0) = <<>>
  OBVIOUS
<1>2. ASSUME NEW l \in 1 .. MaxLines
      PROVE  Kept(l) = IF s[l].time = Unset THEN Kept(l - 1) ELSE Append(Kept(l - 1), s[l])
  <2>1. CASE l <= e
    BY <2>1
  <2>2. CASE l > e
    <3>1. s[l].time # Unset /\ l - e \in Nat \ {0} /\ l - 1 - e \in Nat
      BY <2>2
    <3>2. PICK n \in Nat : n = l - 1 - e
      BY <3>1
    <3>3. Kept(l - 1) = [i \in 1 .. n |-> s[e + i]] /\ Kept(l) = [i \in 1 .. n + 1 |-> s[e + i]]
      BY <2>2, <3>2
    <3>4. \A i \in 1 .. n + 1 : s[e + i] \in Line
      BY <3>2
    <3>5. PICK t : t = [i \in 1 .. n |-> s[e + i]]
      OBVIOUS
    <3>6. t \in Seq(Line) /\ Len(t) = n
      <4>1. t \in [1 .. n -> Line]
        <5>1. \A i \in 1 .. n : s[e + i] \in Line
          BY <3>4
        <5> QED
          BY <3>5, <5>1, Zenon
      <4>2. t \in Seq(Line)
        BY <4>1, SeqDef
      <4> QED
        BY <4>1, <4>2, LenProperties
    <3>7. Append(t, s[l]) = [i \in 1 .. n + 1 |-> s[e + i]]
      BY <3>2, <3>4, <3>5, <3>6
    <3> QED
      BY <3>1, <3>3, <3>5, <3>7
  <2> QED
    BY <2>1, <2>2
<1>3. PICK out : out = CHOOSE f : Loop(f)
  OBVIOUS
<1>4. Loop(out)
  <2>1. PICK f : f = [l \in 0 .. MaxLines |-> Kept(l)]
    OBVIOUS
  <2> HIDE DEF Kept
  <2>2. ASSUME NEW l \in 0 .. MaxLines
        PROVE  f[l] = IF l = 0 THEN <<>> ELSE IF s[l].time = Unset THEN f[l - 1] ELSE Append(f[l - 1], s[l])
    BY <1>1, <1>2, <2>1
  <2>3. Loop(f)
    BY <2>1, <2>2
  <2> HIDE DEF Loop
  <2> QED
    BY <1>3, <2>3
<1>5. WithTime(s) = out[MaxLines]
  BY <1>3 DEF WithTime
<1>10. ASSUME NEW l \in 1 .. MaxLines
       PROVE  out[l] = IF s[l].time = Unset THEN out[l - 1] ELSE Append(out[l - 1], s[l])
  <2>1. l \in 0 .. MaxLines /\ l # 0
    OBVIOUS
  <2>2. out[l] = IF l = 0 THEN <<>> ELSE IF s[l].time = Unset THEN out[l - 1] ELSE Append(out[l - 1], s[l])
    BY <1>4, <2>1, Zenon
  <2> QED
    BY <2>1, <2>2
<1> DEFINE S == {l \in Nat : l <= MaxLines => out[l] = Kept(l)}
<1> HIDE DEF Kept
<1>6. 0 \in S
  BY <1>1, <1>4
<1>7. ASSUME NEW l \in Nat, l \in S PROVE l + 1 \in S
  <2>1. SUFFICES ASSUME l + 1 <= MaxLines PROVE out[l + 1] = Kept(l + 1)
    OBVIOUS
  <2>2. PICK m \in 1 .. MaxLines : m = l + 1 /\ m - 1 = l
    BY <2>1
  <2>3. out[m] = IF s[m].time = Unset THEN out[m - 1] ELSE Append(out[m - 1], s[m])
    BY <1>10
  <2>4. out[m - 1] = Kept(m - 1)
    BY <1>7, <2>1, <2>2
  <2> QED
    BY <1>2, <2>2, <2>3, <2>4
<1> HIDE DEF S
<1>8. MaxLines \in S
  BY <1>6, <1>7, Induction
<1>9. out[MaxLines] = Kept(MaxLines)
  BY <1>8 DEF S
<1> QED
  BY <1>5, <1>9 DEF Kept

\* At rest every line of the window is published: what the export keeps is the tail.
LEMMA ClaimsExport == ClaimsInv => ExportIsTail
<1> SUFFICES ASSUME ClaimsInv, Quiet
             PROVE  LET out  == Export([next |-> nextIndex, lines |-> lines])
                        kept == IF Len(claimed) < MaxLines THEN Len(claimed) ELSE MaxLines
                    IN  /\ Len(out) = kept
                        /\ \A i \in 1 .. kept : out[i].text = claimed[Len(claimed) - kept + i]
  BY DEF ExportIsTail
<1> USE SizesAssumption
<1>1. PICK n \in Nat : n = Len(claimed) /\ nextIndex = ((FirstIndex + n) % IndexRange)
  BY DEF ClaimsInv, Ledger
<1>2. PICK e \in 0 .. MaxLines : e = IF n < MaxLines THEN MaxLines - n ELSE 0
  <2>1. (IF n < MaxLines THEN MaxLines - n ELSE 0) \in 0 .. MaxLines
    OBVIOUS
  <2> QED
    BY <2>1
<1>3. PICK s : s = [l \in 1 .. MaxLines |-> lines[SlotOf(nextIndex + l - 1)]]
  OBVIOUS
<1>4. ASSUME NEW l \in 1 .. MaxLines
      PROVE  /\ s[l] \in Line
             /\ l <= e => s[l].time = Unset
             /\ l > e => n - MaxLines + l \in 1 .. n /\ s[l].time = claimed[n - MaxLines + l]
                         /\ s[l].time # Unset /\ s[l].text = s[l].time
  <2>1. PICK m \in Int : m = n - MaxLines + l
    BY <1>1
  <2>2. SlotOf(nextIndex + l - 1) = ClaimSlot(n + l)
    <3>1. n \in Int /\ l \in Int /\ nextIndex = ((FirstIndex + n) % IndexRange)
      BY <1>1
    <3>2. SlotOf(((FirstIndex + n) % IndexRange) + l - 1) = ClaimSlot(n + l)
      BY <3>1, LineAhead
    <3> QED
      BY <3>1, <3>2
  <2>3. ClaimSlot(n + l) = ClaimSlot(m)
    <3>1. m + MaxLines = n + l
      BY <1>1, <2>1
    <3> QED
      BY <3>1, SlotReturns
  <2>4. PICK k \in Slots : k = ClaimSlot(m)
    BY ClaimSlotType
  <2>5. s[l] = lines[k] /\ m \in Window
    BY <1>1, <1>3, <2>1, <2>2, <2>3, <2>4 DEF Window
  <2>6. lines[k] \in Line /\ (lines[k].time # Unset => lines[k].text = lines[k].time)
    BY DEF ClaimsInv, RingInv, WritersType, LineIsWhole
  <2>7. ~SomeoneDied /\ ~AtWork(k)
    BY DEF Quiet, SomeoneDied, AtWork, Active
  <2>8. (m < 1 => lines[k].time = Unset) /\ (m >= 1 => lines[k].time = claimed[m])
    BY <2>4, <2>5, <2>7 DEF ClaimsInv, LinesFollow, LineFollows
  <2>9. \A i \in 1 .. n : claimed[i] \in Messages
    BY <1>1 DEF ClaimsInv, Ledger
  <2>10. (l <= e => m < 1) /\ (l > e => m \in 1 .. n)
    BY <1>1, <1>2, <2>1
  <2>11. \A i \in Messages : i # Unset
    BY DEF Messages, Unset
  <2> QED
    BY <2>1, <2>5, <2>6, <2>8, <2>9, <2>10, <2>11
<1>5. PICK out : out = Export([next |-> nextIndex, lines |-> lines])
  OBVIOUS
<1>6. out = WithTime(s)
  BY <1>3, <1>5 DEF Export
<1>7. s \in [1 .. MaxLines -> Line] /\ (\A i \in 1 .. e : s[i].time = Unset)
      /\ \A i \in e + 1 .. MaxLines : s[i].time # Unset
  BY <1>3, <1>4, <1>2
<1>8. out = [i \in 1 .. MaxLines - e |-> s[e + i]]
  BY <1>6, <1>7, WithTimeTail
<1>9. MaxLines - e \in Nat /\ MaxLines - e = IF n < MaxLines THEN n ELSE MaxLines
  BY <1>1, <1>2
<1>10. Len(out) = MaxLines - e
  BY <1>8, <1>9
<1>11. ASSUME NEW i \in 1 .. MaxLines - e
       PROVE  out[i].text = claimed[n - (MaxLines - e) + i]
  <2>1. PICK l \in 1 .. MaxLines : l = e + i /\ l > e
    OBVIOUS
  <2>2. out[i] = s[l]
    BY <1>8, <2>1
  <2>3. n - MaxLines + l = n - (MaxLines - e) + i
    BY <1>1, <1>2, <2>1
  <2> QED
    BY <1>4, <2>1, <2>2, <2>3
<1> QED
  BY <1>1, <1>5, <1>9, <1>10, <1>11

-----------------------------------------------------------------------------
(* The types, and view_lines_from_cursor, a round at a time.               *)

Whole(m) == [time |-> m, text |-> m]

CopyType ==
  copy = NoCopy \/ copy \in [next : 0 .. IndexRange - 1, lines : [Slots -> Line], done : 0 .. CopyLength]

TypeInv == WritersType /\ CopyType /\ cursor \in Slots \cup {NoCursor}

-----------------------------------------------------------------------------
(* view_lines_from_cursor.                                                 *)

Start(log, from) == IF from = NoCursor THEN log.next ELSE from
Rounds(log, from, n, f) ==
  f = [l \in 0 .. n |-> IF l = 0 THEN [cursor |-> from, out |-> <<>>, over |-> FALSE]
                        ELSE Round(log, f[l - 1], SlotOf(Start(log, from) + l - 1))]

\* The loop of view_lines_from_cursor: n rounds are a function of the number of the round.
LEMMA RoundsExist ==
  ASSUME NEW log, NEW from, NEW n \in Nat
  PROVE  \E f : Rounds(log, from, n, f)
<1> DEFINE S == {i \in Nat : \E f : Rounds(log, from, i, f)}
           first == [cursor |-> from, out |-> <<>>, over |-> FALSE]
           next(s, l) == Round(log, s, SlotOf(Start(log, from) + l - 1))
<1>1. 0 \in S
  <2>1. PICK f : f = [l \in 0 .. 0 |-> first]
    OBVIOUS
  <2>2. \A l \in 0 .. 0 : f[l] = IF l = 0 THEN first ELSE next(f[l - 1], l)
    BY <2>1
  <2>3. f = [l \in 0 .. 0 |-> IF l = 0 THEN first ELSE next(f[l - 1], l)]
    BY <2>1, <2>2
  <2> QED
    BY <2>3 DEF Rounds
<1>2. ASSUME NEW i \in Nat, i \in S PROVE i + 1 \in S
  <2>1. PICK f : Rounds(log, from, i, f)
    BY <1>2
  <2>2. \A l \in 0 .. i : f[l] = IF l = 0 THEN first ELSE next(f[l - 1], l)
    BY <2>1, Zenon DEF Rounds
  <2>3. PICK g : g = [l \in 0 .. i + 1 |-> IF l <= i THEN f[l] ELSE next(f[i], i + 1)]
    OBVIOUS
  <2> HIDE DEF first, next
  <2>4. ASSUME NEW l \in 0 .. i + 1
        PROVE  g[l] = IF l = 0 THEN first ELSE next(g[l - 1], l)
    <3>1. CASE l <= i
      <4>1. g[l] = f[l] /\ (l # 0 => g[l - 1] = f[l - 1]) /\ l \in 0 .. i
        BY <2>3, <3>1
      <4> QED
        BY <2>2, <4>1
    <3>2. CASE l = i + 1
      BY <2>3, <3>2
    <3> QED
      BY <3>1, <3>2
  <2>5. g = [l \in 0 .. i + 1 |-> IF l = 0 THEN first ELSE next(g[l - 1], l)]
    BY <2>3, <2>4
  <2> QED
    BY <2>5 DEF Rounds, first, next
<1> HIDE DEF S
<1>3. n \in S
  BY <1>1, <1>2, Induction
<1> QED
  BY <1>3 DEF S

\* View is what the last round leaves.
LEMMA ViewRounds ==
  ASSUME NEW log, NEW from
  PROVE  \E f : /\ f[0] = [cursor |-> from, out |-> <<>>, over |-> FALSE]
                /\ \A l \in 1 .. MaxLines :
                     f[l] = Round(log, f[l - 1], SlotOf(Start(log, from) + l - 1))
                /\ View(log, from) = f[MaxLines]
<1>1. MaxLines \in Nat
  BY SizesAssumption
<1>2. PICK f : f = CHOOSE g : Rounds(log, from, MaxLines, g)
  OBVIOUS
<1>3. Rounds(log, from, MaxLines, f)
  BY <1>1, <1>2, RoundsExist
<1>4. View(log, from) = f[MaxLines]
  BY <1>2 DEF View, Rounds, Start
<1>5. ASSUME NEW l \in 0 .. MaxLines
      PROVE  f[l] = IF l = 0 THEN [cursor |-> from, out |-> <<>>, over |-> FALSE]
                    ELSE Round(log, f[l - 1], SlotOf(Start(log, from) + l - 1))
  BY <1>3, Zenon DEF Rounds
<1>6. f[0] = [cursor |-> from, out |-> <<>>, over |-> FALSE]
  <2>1. 0 \in 0 .. MaxLines
    BY <1>1
  <2>2. f[0] = IF 0 = 0 THEN [cursor |-> from, out |-> <<>>, over |-> FALSE]
               ELSE Round(log, f[0 - 1], SlotOf(Start(log, from) + 0 - 1))
    BY <1>5, <2>1, Zenon
  <2> QED
    BY <2>2
<1>7. ASSUME NEW l \in 1 .. MaxLines
      PROVE  f[l] = Round(log, f[l - 1], SlotOf(Start(log, from) + l - 1))
  <2>1. l \in 0 .. MaxLines /\ l # 0
    BY <1>1
  <2> QED
    BY <1>5, <2>1
<1> QED
  BY <1>4, <1>6, <1>7

\* The state of the loop while it goes on and once it has broken off.
Going(c, o) == [cursor |-> c, out |-> o, over |-> FALSE]
Broken(c, o) == [cursor |-> c, out |-> o, over |-> TRUE]

\* A round, field by field.

LEMMA RoundIs ==
  ASSUME NEW log, NEW c, NEW o, NEW k
  PROVE  /\ Round(log, Broken(c, o), k) = Broken(c, o)
         /\ c # NoCursor /\ AtEnd(log, k) => Round(log, Going(c, o), k) = Broken(c, o)
         /\ c = NoCursor /\ log.lines[k].time = Unset
              => Round(log, Going(c, o), k) = Going(c, o)
         /\ c # NoCursor /\ log.lines[k].time = Unset
              => Round(log, Going(c, o), k) = Broken(c, o)
         /\ ~(c # NoCursor /\ AtEnd(log, k)) /\ log.lines[k].time # Unset
              => Round(log, Going(c, o), k) =
                   Going((k + 1) % MaxLines, Append(o, log.lines[k]))
<1>1. Round(log, Broken(c, o), k) = Broken(c, o)
  BY DEF Round, Going, Broken
<1>2. ASSUME c # NoCursor, AtEnd(log, k)
      PROVE  Round(log, Going(c, o), k) = Broken(c, o)
  BY <1>2 DEF Round, Going, Broken
<1>3. ASSUME c = NoCursor, log.lines[k].time = Unset
      PROVE  Round(log, Going(c, o), k) = Going(c, o)
  BY <1>3 DEF Round, Going, Broken, StopsAtGap
<1>5. ASSUME c # NoCursor, log.lines[k].time = Unset
      PROVE  Round(log, Going(c, o), k) = Broken(c, o)
  BY <1>5 DEF Round, Going, Broken, StopsAtGap
<1>4. ASSUME ~(c # NoCursor /\ AtEnd(log, k)), log.lines[k].time # Unset
      PROVE  Round(log, Going(c, o), k) = Going((k + 1) % MaxLines, Append(o, log.lines[k]))
  BY <1>4 DEF Round, Going, Broken
<1> QED
  BY <1>1, <1>2, <1>3, <1>4, <1>5

\* The cursor selects a line.
LEMMA ViewCursor ==
  ASSUME NEW log, log.next \in Int, NEW from \in Slots \cup {NoCursor}
  PROVE  View(log, from).cursor \in Slots \cup {NoCursor}
<1> DEFINE Good(s) == \E c \in Slots \cup {NoCursor} : \E o : s = Going(c, o) \/ s = Broken(c, o)
<1>1. PICK f : /\ f[0] = Going(from, <<>>)
               /\ \A l \in 1 .. MaxLines :
                    f[l] = Round(log, f[l - 1], SlotOf(Start(log, from) + l - 1))
               /\ View(log, from) = f[MaxLines]
  BY ViewRounds DEF Going
<1> DEFINE S == {l \in Nat : l <= MaxLines => Good(f[l])}
<1>2. 0 \in S
  BY <1>1
<1>3. ASSUME NEW i \in Nat, i \in S PROVE i + 1 \in S
  <2>1. ASSUME i + 1 <= MaxLines PROVE Good(f[i + 1])
    <3>1. PICK l \in 1 .. MaxLines : l = i + 1 /\ l - 1 = i
      BY <2>1, SizesAssumption
    <3>2. PICK k \in Slots : k = SlotOf(Start(log, from) + l - 1)
      <4>1. Start(log, from) + l - 1 \in Int
        BY DEF Start, Slots
      <4> QED
        BY <4>1, SlotType
    <3>3. f[l] = Round(log, f[i], k)
      BY <1>1, <3>1, <3>2
    <3>4. Good(f[i])
      <4>1. i <= MaxLines
        BY <2>1, SizesAssumption
      <4> QED
        BY <1>3, <4>1
    <3>5. PICK c \in Slots \cup {NoCursor} : \E o : f[i] = Going(c, o) \/ f[i] = Broken(c, o)
      BY <3>4
    <3>8. PICK o : f[i] = Going(c, o) \/ f[i] = Broken(c, o)
      BY <3>5
    <3>6. ((k + 1) % MaxLines) \in Slots
      <4>1. k + 1 \in Int
        BY DEF Slots
      <4> QED
        BY <4>1, Remainder, SizesAssumption DEF Slots
    <3>7. Good(Round(log, f[i], k))
      <4>1. CASE f[i] = Broken(c, o)
        BY <4>1, RoundIs
      <4>2. CASE f[i] = Going(c, o) /\ c # NoCursor /\ AtEnd(log, k)
        BY <4>2, RoundIs
      <4>3. CASE f[i] = Going(c, o) /\ log.lines[k].time = Unset
        <5>1. Round(log, f[i], k) = Going(c, o) \/ Round(log, f[i], k) = Broken(c, o)
          BY <4>3, RoundIs
        <5> QED
          BY <5>1
      <4>4. CASE f[i] = Going(c, o) /\ ~(c # NoCursor /\ AtEnd(log, k)) /\ log.lines[k].time # Unset
        BY <3>6, <4>4, RoundIs
      <4> QED
        BY <3>8, <4>1, <4>2, <4>3, <4>4
    <3> HIDE DEF Good
    <3> QED
      BY <3>1, <3>3, <3>7
  <2> HIDE DEF Good
  <2> QED
    BY <2>1
<1> HIDE DEF S, Good
<1>4. MaxLines \in S
  BY <1>2, <1>3, Induction, SizesAssumption
<1>5. Good(f[MaxLines])
  BY <1>4, SizesAssumption DEF S
<1> QED
  BY <1>1, <1>5 DEF Good, Going, Broken

-----------------------------------------------------------------------------
(* Types, whether or not writers are lapped.                               *)

\* A new log has its type.
LEMMA TypeInit == Init => TypeInv
<1>1. NoCursor \in Slots \cup {NoCursor}
  OBVIOUS
<1> QED
  BY <1>1, RingInit DEF RingInv, TypeInv, CopyType, Init

\* Every step keeps the types, whoever is lapped.
LEMMA NextType == TypeInv /\ [Next]_vars => TypeInv'
<1> SUFFICES ASSUME TypeInv, [Next]_vars PROVE TypeInv'
  OBVIOUS
<1> USE DEF TypeInv
<1>1. ASSUME UNCHANGED writing PROVE WritersType'
  BY <1>1 DEF writing, WritersType
<1>2. ASSUME UNCHANGED reading PROVE CopyType' /\ cursor' \in Slots \cup {NoCursor}
  BY <1>2 DEF reading, CopyType
<1>3. 0 \in Slots /\ 0 \in Messages \cup {0}
  BY SizesAssumption DEF Slots
<1>4. ASSUME NEW w \in Writers, Write(w) \/ Killed(w) PROVE TypeInv'
  <2>1. UNCHANGED reading
    BY <1>4 DEF Write, Stamp, Claim, Clear, Erase, Format, Publish, Killed, Advance, reading
  <2>2. /\ message[w] \in Messages \cup {0} /\ lines[slot[w]] \in Line /\ slot[w] \in Slots
        /\ lines[slot[w]].time \in Messages \cup {Unset}
        /\ lines[slot[w]].text \in Messages \cup {Blank, Half}
    BY DEF WritersType, Line
  <2>3. ASSUME NEW time \in Messages \cup {0}, NEW text \in Messages \cup {0, Half}, SetLine(w, time, text)
        PROVE  lines' \in [Slots -> Line]
    <3>1. [time |-> time, text |-> text] \in Line
      BY DEF Line, Unset, Blank
    <3> QED
      BY <2>2, <2>3, <3>1 DEF SetLine, WritersType
  <2>4. ASSUME NEW from, NEW to \in Stages, Advance(w, from, to), lines' \in [Slots -> Line]
        PROVE  WritersType'
    BY <2>4 DEF Advance, WritersType
  <2>5. CASE Stamp(w)
    <3>1. clock + 1 \in Messages
      BY <2>5, SizesAssumption DEF Stamp, WritersType, Messages
    <3>2. WritersType'
      BY <2>5, <3>1, SizesAssumption DEF Stamp, WritersType, Stages, Messages
    <3> QED
      BY <1>2, <2>1, <3>2
  <2>6. CASE Claim(w)
    <3>1. SlotOf(nextIndex) \in Slots /\ ((nextIndex + 1) % IndexRange) \in 0 .. IndexRange - 1
      BY SlotType, Remainder, SizesAssumption DEF WritersType
    <3>2. stage' = [stage EXCEPT ![w] = "claimed"] /\ slot' = [slot EXCEPT ![w] = SlotOf(nextIndex)]
          /\ lines' = lines /\ message' = message /\ clock' = clock
          /\ nextIndex' = ((nextIndex + 1) % IndexRange)
      BY <2>6 DEF Claim
    <3>3. WritersType'
      BY <3>1, <3>2 DEF WritersType, Stages
    <3> QED
      BY <1>2, <2>1, <3>3
  <2>7. CASE Clear(w)
    <3>1. lines' \in [Slots -> Line]
      BY <2>2, <2>3, <2>7 DEF Clear, Unset, Blank
    <3> QED
      BY <1>2, <2>1, <2>4, <2>7, <3>1 DEF Clear, Stages
  <2>8. CASE Erase(w)
    <3>1. lines' \in [Slots -> Line]
      BY <2>2, <2>3, <2>8 DEF Erase, Unset
    <3> QED
      BY <1>2, <2>1, <2>4, <2>8, <3>1 DEF Erase, Stages
  <2>9. CASE Format(w)
    <3>1. lines' \in [Slots -> Line]
      BY <2>2, <2>3, <2>9 DEF Format, Unset
    <3> QED
      BY <1>2, <2>1, <2>4, <2>9, <3>1 DEF Format, Stages
  <2>10. ASSUME NEW to \in {"idle", "dead"}, Leave(w, to), lines' \in [Slots -> Line],
                UNCHANGED <<nextIndex, clock>>
         PROVE  WritersType'
    BY <1>3, <2>10 DEF Leave, WritersType, Stages
  <2>11. CASE Publish(w)
    <3>1. lines' \in [Slots -> Line]
      BY <2>2, <2>3, <2>11 DEF Publish, Blank
    <3> QED
      BY <1>2, <2>1, <2>10, <2>11, <3>1 DEF Publish
  <2>12. CASE Killed(w)
    <3>1. lines' \in [Slots -> Line]
      BY <2>12 DEF Killed, WritersType
    <3> QED
      BY <1>2, <2>1, <2>10, <2>12, <3>1 DEF Killed
  <2> QED
    BY <1>4, <2>5, <2>6, <2>7, <2>8, <2>9, <2>11, <2>12 DEF Write
<1>5. CASE Fetch
  <2>1. CopyType'
    BY <1>5, SizesAssumption DEF Fetch, CopyType, WritersType, CopyLength
  <2> QED
    BY <1>1, <1>5, <2>1 DEF Fetch
<1>6. CASE Copy
  <2>1. copy \in [next : 0 .. IndexRange - 1, lines : [Slots -> Line], done : 0 .. CopyLength]
    BY <1>6 DEF Copy, CopyType, NoCopy
  <2>2. PICK k \in Slots : k = copy.done \div 2
    BY <1>6, SizesAssumption DEF Copy, CopyLength, Slots
  <2>3. PICK line \in Line :
          copy' = [copy EXCEPT !.done = @ + 1, !.lines[k] = line]
    <3>1. copy.lines[k] \in Line /\ lines[k] \in Line
      BY <2>1 DEF WritersType
    <3>2. [copy.lines[k] EXCEPT !.time = lines[k].time] \in Line
          /\ [copy.lines[k] EXCEPT !.text = lines[k].text] \in Line
      BY <3>1 DEF Line
    <3>3. copy' = [copy EXCEPT !.done = @ + 1,
                     !.lines[k] = IF (copy.done % 2) = 0 THEN [@ EXCEPT !.time = lines[k].time]
                                  ELSE [@ EXCEPT !.text = lines[k].text]]
      BY <1>6, <2>2 DEF Copy
    <3> QED
      BY <3>2, <3>3
  <2>4. copy' = [next |-> copy.next, lines |-> [copy.lines EXCEPT ![k] = line], done |-> copy.done + 1]
    BY <2>1, <2>3
  <2>5. copy.done + 1 \in 0 .. CopyLength
    BY <1>6, SizesAssumption DEF Copy, CopyLength
  <2>6. copy.next \in 0 .. IndexRange - 1 /\ [copy.lines EXCEPT ![k] = line] \in [Slots -> Line]
    BY <2>1
  <2>7. copy' \in [next : 0 .. IndexRange - 1, lines : [Slots -> Line], done : 0 .. CopyLength]
    BY <2>4, <2>5, <2>6
  <2> QED
    BY <1>1, <1>6, <2>7 DEF Copy, CopyType
<1>7. CASE Deliver
  <2>1. copy.next \in Int
    BY SizesAssumption DEF CopyType, NoCopy
  <2>2. cursor' \in Slots \cup {NoCursor}
    BY <1>7, <2>1, ViewCursor DEF Deliver
  <2> QED
    BY <1>1, <1>7, <2>2 DEF Deliver, CopyType
<1>8. CASE UNCHANGED vars
  BY <1>1, <1>2, <1>8 DEF vars, writing, reading
<1> QED
  BY <1>4, <1>5, <1>6, <1>7, <1>8 DEF Next

\* Lines handed over are whole and consecutive, the newest being claim n's.
LinesUpTo(out, n, messages) ==
  /\ out \in Seq(Line) /\ Len(out) <= n
  /\ \A i \in 1 .. Len(out) : out[i] = Whole(messages[n - Len(out) + i])

\* What the loop has found after l rounds, with the claims m + 1 .. n ahead of it.
Nothing(from, s) == from = NoCursor /\ s = Going(NoCursor, <<>>)
Found(from, m, n, messages, s, l) ==
  \E e \in Nat : \E o \in Seq(Line) :
    /\ \/ s = Going(ClaimSlot(e + 1), o) /\ e = m + l
       \/ s = Broken(ClaimSlot(e + 1), o)
    /\ m <= e /\ e <= n /\ LinesUpTo(o, e, messages)
    /\ IF from = NoCursor THEN m < e ELSE Len(o) = e - m

\* What the copy must hold for that: each claim's line is whole or has no time.
Readable(log, m, n, messages) ==
  /\ m \in Int /\ n \in Nat /\ m <= n
  /\ log.next = ((FirstIndex + n) % IndexRange)
  /\ \A j \in m + 1 .. n : LET line == log.lines[ClaimSlot(j)] IN
       line.time # Unset => j >= 1 /\ line = Whole(messages[j]) /\ line \in Line

\* One more line after those found.
LEMMA AppendUpTo ==
  ASSUME NEW o, NEW e \in Nat, NEW messages, LinesUpTo(o, e, messages), Whole(messages[e + 1]) \in Line
  PROVE  /\ LinesUpTo(Append(o, Whole(messages[e + 1])), e + 1, messages)
         /\ Append(o, Whole(messages[e + 1])) \in Seq(Line)
         /\ Len(Append(o, Whole(messages[e + 1]))) = Len(o) + 1
<1>1. PICK x \in Line : x = Whole(messages[e + 1])
  OBVIOUS
<1>2. o \in Seq(Line) /\ Len(o) \in Nat /\ Len(o) <= e
  BY DEF LinesUpTo
<1>3. PICK p : p = Append(o, x)
  OBVIOUS
<1>4. p \in Seq(Line) /\ Len(p) = Len(o) + 1 /\ p[Len(o) + 1] = x /\ \A i \in 1 .. Len(o) : p[i] = o[i]
  BY <1>2, <1>3
<1>5. ASSUME NEW i \in 1 .. Len(p) PROVE p[i] = Whole(messages[e + 1 - Len(p) + i])
  <2>1. CASE i = Len(o) + 1
    <3>1. e + 1 - Len(p) + i = e + 1
      BY <1>2, <1>4, <2>1
    <3> QED
      BY <1>1, <1>4, <2>1, <3>1
  <2>2. CASE i # Len(o) + 1
    <3>1. i \in 1 .. Len(o) /\ e + 1 - Len(p) + i = e - Len(o) + i
      BY <1>2, <1>4, <2>2
    <3> QED
      BY <1>4, <3>1 DEF LinesUpTo
  <2> QED
    BY <2>1, <2>2
<1>6. LinesUpTo(p, e + 1, messages)
  BY <1>2, <1>4, <1>5 DEF LinesUpTo
<1> QED
  BY <1>1, <1>3, <1>4, <1>6

\* One round at the line of claim m + l.
LEMMA RoundFinds ==
  ASSUME NEW log, NEW from, NEW m, NEW n, NEW messages, NEW s, NEW l \in 1 .. MaxLines,
         Readable(log, m, n, messages),
         \/ from = NoCursor /\ m = n - MaxLines
         \/ from # NoCursor /\ m \in Nat /\ n - m < MaxLines,
         Nothing(from, s) \/ Found(from, m, n, messages, s, l - 1)
  PROVE  LET t == Round(log, s, ClaimSlot(m + l))
         IN  Nothing(from, t) \/ Found(from, m, n, messages, t, l)
<1> USE SizesAssumption
<1>1. m \in Int /\ n \in Nat /\ m <= n /\ m + l \in Int
  BY DEF Readable
<1>2. PICK k \in Slots : k = ClaimSlot(m + l)
  BY <1>1, ClaimSlotType
<1>3. ((k + 1) % MaxLines) = ClaimSlot(m + l + 1)
  BY <1>1, <1>2, SlotFollows
<1>4. AtEnd(log, k) <=> k = ClaimSlot(n + 1)
  <2>1. SlotOf(log.next) = ClaimSlot(n + 1)
    BY <1>1, NextSlot DEF Readable
  <2> QED
    BY <2>1 DEF AtEnd
<1>5. \A j \in Int : ClaimSlot(j) # NoCursor
  BY ClaimSlotType DEF Slots, NoCursor
<1>6. CASE Nothing(from, s)
  <2>1. from = NoCursor /\ m = n - MaxLines /\ s = Going(NoCursor, <<>>)
    BY <1>6 DEF Nothing
  <2>2. m + l \in m + 1 .. n
    BY <1>1, <2>1
  <2>3. CASE log.lines[k].time = Unset
    <3>1. Round(log, s, k) = Going(NoCursor, <<>>)
      BY <2>1, <2>3, RoundIs
    <3> QED
      BY <1>2, <2>1, <3>1 DEF Nothing
  <2>4. CASE log.lines[k].time # Unset
    <3>1. PICK j \in Nat : j = m + l /\ j >= 1 /\ j <= n /\ m < j
      BY <1>1, <1>2, <2>2, <2>4 DEF Readable
    <3>2. log.lines[k] = Whole(messages[j]) /\ Whole(messages[j]) \in Line
      BY <1>2, <2>2, <2>4, <3>1 DEF Readable
    <3>3. PICK o : o = Append(<<>>, Whole(messages[j]))
      OBVIOUS
    <3>4. Round(log, s, k) = Going(ClaimSlot(j + 1), o)
      <4>1. PICK c, none : c = NoCursor /\ none = <<>>
        OBVIOUS
      <4>2. Round(log, Going(c, none), k) = Going((k + 1) % MaxLines, Append(none, log.lines[k]))
        <5>1. ~(c # NoCursor /\ AtEnd(log, k))
          BY <4>1
        <5> QED
          BY <2>4, <5>1, RoundIs
      <4>3. ((k + 1) % MaxLines) = ClaimSlot(j + 1)
        BY <1>3, <3>1
      <4> QED
        BY <2>1, <3>2, <3>3, <4>1, <4>2, <4>3
    <3>5. o \in Seq(Line) /\ LinesUpTo(o, j, messages)
      <4>1. PICK d \in Nat : d = j - 1 /\ d + 1 = j
        BY <3>1
      <4>2. LinesUpTo(<<>>, d, messages)
        BY DEF LinesUpTo
      <4>3. Whole(messages[d + 1]) = Whole(messages[j]) /\ Whole(messages[d + 1]) \in Line
        BY <3>2, <4>1
      <4>4. o = Append(<<>>, Whole(messages[d + 1]))
        BY <3>3, <4>3
      <4>5. o \in Seq(Line) /\ LinesUpTo(o, d + 1, messages)
        BY <4>2, <4>3, <4>4, AppendUpTo
      <4> QED
        BY <4>1, <4>5
    <3>6. Found(from, m, n, messages, Round(log, s, k), l)
      BY <1>1, <2>1, <3>1, <3>4, <3>5 DEF Found
    <3> QED
      BY <1>2, <3>6
  <2> QED
    BY <2>3, <2>4
<1>7. CASE Found(from, m, n, messages, s, l - 1)
  <2>1. PICK e \in Nat : \E o \in Seq(Line) :
          /\ \/ s = Going(ClaimSlot(e + 1), o) /\ e = m + (l - 1)
             \/ s = Broken(ClaimSlot(e + 1), o)
          /\ m <= e /\ e <= n /\ LinesUpTo(o, e, messages)
          /\ IF from = NoCursor THEN m < e ELSE Len(o) = e - m
    BY <1>7 DEF Found
  <2>2. PICK o \in Seq(Line) :
          /\ \/ s = Going(ClaimSlot(e + 1), o) /\ e = m + (l - 1)
             \/ s = Broken(ClaimSlot(e + 1), o)
          /\ m <= e /\ e <= n /\ LinesUpTo(o, e, messages)
          /\ IF from = NoCursor THEN m < e ELSE Len(o) = e - m
    BY <2>1
  <2>3. ASSUME Round(log, s, k) = Broken(ClaimSlot(e + 1), o)
        PROVE  Found(from, m, n, messages, Round(log, s, k), l)
    BY <2>2, <2>3 DEF Found
  <2>4. CASE s = Broken(ClaimSlot(e + 1), o)
    <3>1. Round(log, s, k) = Broken(ClaimSlot(e + 1), o)
      BY <2>4, RoundIs
    <3> QED
      BY <1>2, <2>3, <3>1
  <2>5. CASE s = Going(ClaimSlot(e + 1), o) /\ e = m + (l - 1)
    <3>1. ClaimSlot(e + 1) # NoCursor /\ m + l = e + 1
      BY <1>1, <1>5, <2>5
    <3>2. CASE AtEnd(log, k) \/ log.lines[k].time = Unset
      <4>1. Round(log, s, k) = Broken(ClaimSlot(e + 1), o)
        BY <2>5, <3>1, <3>2, RoundIs
      <4> QED
        BY <1>2, <2>3, <4>1
    <3>3. CASE ~AtEnd(log, k) /\ log.lines[k].time # Unset
      <4>1. e < n
        <5>1. e # n
          BY <1>2, <1>4, <3>1, <3>3
        <5> QED
          BY <1>1, <2>2, <5>1
      <4>2. e + 1 \in m + 1 .. n
        BY <1>1, <2>2, <4>1
      <4>3. log.lines[k] = Whole(messages[e + 1]) /\ Whole(messages[e + 1]) \in Line
        BY <1>2, <3>1, <3>3, <4>2 DEF Readable
      <4>4. PICK p : p = Append(o, Whole(messages[e + 1]))
        OBVIOUS
      <4>5. LinesUpTo(p, e + 1, messages) /\ p \in Seq(Line) /\ Len(p) = Len(o) + 1
        BY <2>2, <4>3, <4>4, AppendUpTo
      <4>6. PICK d \in Nat : d = e + 1 /\ d = m + l
        BY <3>1
      <4>7. Round(log, s, k) = Going(ClaimSlot(d + 1), p)
        BY <1>3, <2>5, <3>1, <3>3, <4>3, <4>4, <4>6, RoundIs
      <4>8. m <= d /\ d <= n /\ (IF from = NoCursor THEN m < d ELSE Len(p) = d - m)
        BY <1>1, <2>2, <4>1, <4>5, <4>6
      <4>9. LinesUpTo(p, d, messages)
        BY <4>5, <4>6
      <4>10. Found(from, m, n, messages, Round(log, s, k), l)
        BY <4>5, <4>6, <4>7, <4>8, <4>9 DEF Found
      <4> QED
        BY <1>2, <4>10
    <3> QED
      BY <3>2, <3>3
  <2> QED
    BY <2>2, <2>4, <2>5
<1> QED
  BY <1>6, <1>7

\* view_lines_from_cursor hands over the lines of the claims after the cursor, in their
\* order, and leaves the cursor behind the last of them.
LEMMA ViewFinds ==
  ASSUME NEW log, NEW from, NEW m, NEW n, NEW messages,
         Readable(log, m, n, messages),
         \/ from = NoCursor /\ m = n - MaxLines
         \/ from = ClaimSlot(m + 1) /\ m \in Nat /\ n - m < MaxLines
  PROVE  LET s == View(log, from)
         IN  Nothing(from, s) \/ Found(from, m, n, messages, s, MaxLines)
<1> USE SizesAssumption
<1>1. m \in Int /\ n \in Nat /\ m <= n
  BY DEF Readable
<1>2. PICK f : /\ f[0] = Going(from, <<>>)
               /\ \A l \in 1 .. MaxLines :
                    f[l] = Round(log, f[l - 1], SlotOf(Start(log, from) + l - 1))
               /\ View(log, from) = f[MaxLines]
  BY ViewRounds DEF Going
<1>3. m \in Nat => ClaimSlot(m + 1) # NoCursor
  BY <1>1, ClaimSlotType DEF Slots, NoCursor
<1>4. \/ from = NoCursor /\ m = n - MaxLines
      \/ from # NoCursor /\ from = ClaimSlot(m + 1) /\ m \in Nat /\ n - m < MaxLines
  BY <1>3
<1>5. ASSUME NEW l \in 1 .. MaxLines PROVE SlotOf(Start(log, from) + l - 1) = ClaimSlot(m + l)
  <2>1. CASE from = NoCursor
    <3>1. Start(log, from) = ((FirstIndex + n) % IndexRange) /\ m + l + MaxLines = n + l /\ m + l \in Int
      BY <1>1, <1>4, <2>1 DEF Start, Readable
    <3>2. SlotOf(((FirstIndex + n) % IndexRange) + l - 1) = ClaimSlot(n + l)
      <4>1. n \in Int /\ l \in Int
        BY <1>1
      <4> QED
        BY <4>1, LineAhead, Zenon
    <3>3. ClaimSlot(m + l + MaxLines) = ClaimSlot(m + l)
      BY <3>1, SlotReturns
    <3> QED
      BY <3>1, <3>2, <3>3
  <2>2. CASE from # NoCursor
    <3>1. Start(log, from) = ClaimSlot(m + 1) /\ m + 1 \in Int /\ m + 1 + l - 1 = m + l
      BY <1>1, <1>4, <2>2 DEF Start
    <3>2. SlotOf(ClaimSlot(m + 1) + l - 1) = ClaimSlot(m + 1 + l - 1)
      BY <3>1, SlotFollows
    <3> QED
      BY <3>1, <3>2
  <2> QED
    BY <2>1, <2>2
<1> DEFINE Ok(l) == Nothing(from, f[l]) \/ Found(from, m, n, messages, f[l], l)
           S == {l \in Nat : l <= MaxLines => Ok(l)}
<1>6. Ok(0)
  <2>1. CASE from = NoCursor
    BY <1>2, <2>1 DEF Nothing
  <2>2. CASE from # NoCursor
    <3>1. f[0] = Going(ClaimSlot(m + 1), <<>>) /\ m \in Nat
      BY <1>2, <1>4, <2>2
    <3>2. <<>> \in Seq(Line) /\ Len(<<>>) = 0 /\ LinesUpTo(<<>>, m, messages)
      BY <3>1 DEF LinesUpTo
    <3>3. m = m + 0 /\ m <= m /\ 0 = m - m
      BY <1>1
    <3> QED
      BY <1>1, <2>2, <3>1, <3>2, <3>3 DEF Found
  <2> QED
    BY <2>1, <2>2
<1>7. ASSUME NEW i \in Nat, i + 1 <= MaxLines, Ok(i) PROVE Ok(i + 1)
  <2>1. PICK l \in 1 .. MaxLines : l = i + 1 /\ l - 1 = i
    BY <1>7
  <2>2. f[l] = Round(log, f[i], ClaimSlot(m + l))
    BY <1>2, <1>5, <2>1
  <2>3. Nothing(from, f[i]) \/ Found(from, m, n, messages, f[i], l - 1)
    BY <1>7, <2>1
  <2>4. Nothing(from, f[l]) \/ Found(from, m, n, messages, f[l], l)
    BY <1>4, <2>2, <2>3, RoundFinds
  <2> QED
    BY <2>1, <2>4
<1> HIDE DEF Ok
<1>8. 0 \in S
  BY <1>6
<1>9. \A i \in Nat : i \in S => i + 1 \in S
  BY <1>7
<1> HIDE DEF S
<1>10. MaxLines \in S
  BY <1>8, <1>9, Induction
<1>11. Ok(MaxLines)
  BY <1>10 DEF S
<1> QED
  BY <1>2, <1>11 DEF Ok

-----------------------------------------------------------------------------
(* The log view, step by step.                                             *)

\* The line of claim n in the copy, as far as it is copied: its time is that claim's, and
\* then the line in the log is still whole and nobody is at work on it.
CopiedWell(n) ==
  \E k \in Slots :
    /\ k = ClaimSlot(n)
    /\ copy.done > 2 * k =>
         \/ copy.lines[k].time = Unset
         \/ /\ n >= 1 /\ copy.lines[k].time = claimed[n]
            /\ lines[k] = Whole(claimed[n]) /\ ~AtWork(k)
    /\ copy.done > 2 * k + 1 =>
         copy.lines[k].time = Unset \/ copy.lines[k].text = copy.lines[k].time

\* The log view has shown the claims up to m, and stands at the next one.
CursorAt(m) ==
  \/ cursor = NoCursor /\ shown = <<>> /\ m = Len(claimed) - MaxLines
  \/ /\ cursor = ClaimSlot(m + 1) /\ m \in Nat /\ m > Len(claimed) - MaxLines
     /\ LinesUpTo(shown, m, claimed)

\* The copy was begun at n claims; none has been made since if there is no cursor.
CopyAt(m) ==
  \E n \in Nat :
    /\ m <= n /\ n <= Len(claimed)
    /\ copy.next = ((FirstIndex + n) % IndexRange)
    /\ cursor = NoCursor => n = Len(claimed)
    /\ \A j \in m + 1 .. n : CopiedWell(j)

FollowerAt(m) == m <= Len(claimed) /\ CursorAt(m) /\ (copy = NoCopy \/ CopyAt(m))
Following == raced \/ \E m \in Int : FollowerAt(m)
FollowInv == ClaimsInv /\ TypeInv /\ Following

-----------------------------------------------------------------------------
\* A new log view has shown nothing.
LEMMA FollowInit == Init => FollowInv
<1> SUFFICES ASSUME Init PROVE FollowInv
  OBVIOUS
<1>1. Len(claimed) = 0 /\ 0 - MaxLines \in Int /\ 0 - MaxLines <= 0
  BY SizesAssumption DEF Init
<1>2. FollowerAt(0 - MaxLines)
  BY <1>1 DEF Init, FollowerAt, CursorAt
<1> QED
  BY <1>1, <1>2, ClaimsInit, TypeInit DEF FollowInv, Following

\* A writer's step that is no claim leaves the lines nobody is at work on.
LEMMA WorkKeeps ==
  ASSUME TypeInv, NEW w \in Writers, Write(w) \/ Killed(w), ~Claim(w),
         NEW k \in Slots, ~AtWork(k)
  PROVE  lines'[k] = lines[k] /\ ~AtWork(k)' /\ claimed' = claimed /\ UNCHANGED reading
<1>1. stage \in [Writers -> Stages] /\ slot \in [Writers -> Slots] /\ lines \in [Slots -> Line]
  BY DEF TypeInv, WritersType
<1>2. claimed' = claimed /\ UNCHANGED reading
  BY DEF Write, Stamp, Claim, Clear, Erase, Format, Publish, Killed, Advance, reading
<1>3. CASE Stamp(w)
  <2>1. lines' = lines /\ slot' = slot /\ stage' = [stage EXCEPT ![w] = "stamped"]
    BY <1>3 DEF Stamp
  <2> QED
    BY <1>1, <1>2, <2>1 DEF AtWork, Active
<1>4. ASSUME stage[w] \in Active, NEW to, stage' = [stage EXCEPT ![w] = to],
             to \in Active => slot' = slot,
             \A v \in Writers : v # w => slot'[v] = slot[v],
             \A i \in Slots : i # slot[w] => lines'[i] = lines[i]
      PROVE  lines'[k] = lines[k] /\ ~AtWork(k)'
  <2>1. slot[w] # k
    BY <1>4 DEF AtWork
  <2>2. \A v \in Writers : stage'[v] \in Active => stage[v] \in Active /\ slot'[v] = slot[v]
    BY <1>1, <1>4
  <2> QED
    BY <1>4, <2>1, <2>2 DEF AtWork
<1>5. ASSUME NEW from \in Active, NEW to, Advance(w, from, to), NEW time, NEW text, SetLine(w, time, text)
      PROVE  lines'[k] = lines[k] /\ ~AtWork(k)'
  <2>1. stage[w] \in Active /\ stage' = [stage EXCEPT ![w] = to] /\ slot' = slot
        /\ lines' = [lines EXCEPT ![slot[w]] = [time |-> time, text |-> text]]
    BY <1>5 DEF Advance, SetLine
  <2>2. \A i \in Slots : i # slot[w] => lines'[i] = lines[i]
    BY <1>1, <2>1
  <2> QED
    BY <1>4, <2>1, <2>2
<1>6. CASE Clear(w)
  BY <1>2, <1>5, <1>6 DEF Clear, Active
<1>7. CASE Erase(w)
  BY <1>2, <1>5, <1>7 DEF Erase, Active
<1>8. CASE Format(w)
  BY <1>2, <1>5, <1>8 DEF Format, Active
<1>9. CASE Publish(w)
  <2>1. stage[w] \in Active /\ stage' = [stage EXCEPT ![w] = "idle"] /\ slot' = [slot EXCEPT ![w] = 0]
        /\ lines' = [lines EXCEPT ![slot[w]] = [time |-> message[w], text |-> lines[slot[w]].text]]
    BY <1>9 DEF Publish, Leave, SetLine, Active
  <2>2. /\ \A i \in Slots : i # slot[w] => lines'[i] = lines[i]
        /\ \A v \in Writers : v # w => slot'[v] = slot[v]
    BY <1>1, <2>1
  <2>3. "idle" \notin Active
    BY DEF Active
  <2> QED
    BY <1>2, <1>4, <2>1, <2>2, <2>3
<1>10. CASE Killed(w)
  <2>1. stage[w] \in Active /\ stage' = [stage EXCEPT ![w] = "dead"] /\ slot' = [slot EXCEPT ![w] = 0]
        /\ lines' = lines
    BY <1>10 DEF Killed, Leave, Active
  <2>2. \A v \in Writers : v # w => slot'[v] = slot[v]
    BY <1>1, <2>1
  <2>3. "dead" \notin Active
    BY DEF Active
  <2> QED
    BY <1>2, <1>4, <2>1, <2>2, <2>3
<1> QED
  BY <1>3, <1>6, <1>7, <1>8, <1>9, <1>10 DEF Write

\* So a copy that is under way stays as good as it was.
LEMMA WorkFollower ==
  ASSUME TypeInv, NEW w \in Writers, Write(w) \/ Killed(w), ~Claim(w), NEW m \in Int, FollowerAt(m)
  PROVE  FollowerAt(m)'
<1>1. claimed' = claimed /\ copy' = copy /\ cursor' = cursor /\ shown' = shown
  BY DEF Write, Stamp, Claim, Clear, Erase, Format, Publish, Killed, Advance, reading
<1>2. ASSUME NEW j, CopiedWell(j) PROVE CopiedWell(j)'
  <2>1. PICK k \in Slots :
          /\ k = ClaimSlot(j)
          /\ copy.done > 2 * k =>
               \/ copy.lines[k].time = Unset
               \/ /\ j >= 1 /\ copy.lines[k].time = claimed[j]
                  /\ lines[k] = Whole(claimed[j]) /\ ~AtWork(k)
          /\ copy.done > 2 * k + 1 =>
               copy.lines[k].time = Unset \/ copy.lines[k].text = copy.lines[k].time
    BY <1>2 DEF CopiedWell
  <2>2. ~AtWork(k) => lines'[k] = lines[k] /\ ~AtWork(k)'
    BY WorkKeeps
  <2>3. k = ClaimSlot(j)'
    BY <2>1 DEF ClaimSlot
  <2> QED
    BY <1>1, <2>1, <2>2, <2>3 DEF CopiedWell
<1>3. CursorAt(m)'
  BY <1>1 DEF FollowerAt, CursorAt, ClaimSlot
<1>4. CopyAt(m) => CopyAt(m)'
  <2>1. ASSUME CopyAt(m) PROVE CopyAt(m)'
    <3>1. PICK n \in Nat : /\ m <= n /\ n <= Len(claimed)
                           /\ copy.next = ((FirstIndex + n) % IndexRange)
                           /\ cursor = NoCursor => n = Len(claimed)
                           /\ \A j \in m + 1 .. n : CopiedWell(j)
      BY <2>1 DEF CopyAt
    <3>2. \A j \in m + 1 .. n : CopiedWell(j)'
      BY <1>2, <3>1
    <3> QED
      BY <1>1, <3>1, <3>2 DEF CopyAt
  <2> QED
    BY <2>1
<1> QED
  BY <1>1, <1>3, <1>4 DEF FollowerAt

\* A claim that does not overrun the follower.
LEMMA ClaimFollower ==
  ASSUME ClaimsInv, TypeInv, ~Lapping, NEW w \in Writers, Claim(w), ~raced', NEW m \in Int, FollowerAt(m)
  PROVE  \E p \in Int : FollowerAt(p)'
<1> USE SizesAssumption
<1>1. PICK n \in Nat : n = Len(claimed)
  BY DEF ClaimsInv, Ledger
<1>2. PICK c : c = SlotOf(nextIndex)
  OBVIOUS
<1>3. /\ c = ClaimSlot(n + 1) /\ Len(claimed') = n + 1
      /\ \A i \in 1 .. n : claimed'[i] = claimed[i]
      /\ nextIndex = ((FirstIndex + n) % IndexRange)
  BY <1>1, <1>2, ClaimMoves DEF ClaimsInv, Ledger
<1>4. /\ stage' = [stage EXCEPT ![w] = "claimed"] /\ slot' = [slot EXCEPT ![w] = c]
      /\ lines' = lines /\ copy' = copy /\ cursor' = cursor /\ shown' = shown /\ ~Overruns
  BY <1>2 DEF Claim, reading
<1>5. /\ stage \in [Writers -> Stages] /\ slot \in [Writers -> Slots]
  BY DEF TypeInv, WritersType
<1>6. m <= n /\ CursorAt(m) /\ (copy = NoCopy \/ CopyAt(m))
  BY <1>1 DEF FollowerAt
<1>7. CASE cursor = NoCursor
  <2>1. copy = NoCopy
    BY <1>4, <1>7 DEF Overruns
  <2>2. m + 1 \in Int /\ ClaimSlot(m + 1) # NoCursor
    BY ClaimSlotType DEF Slots, NoCursor
  <2>3. shown = <<>> /\ m = n - MaxLines
    BY <1>1, <1>6, <1>7, <2>2 DEF CursorAt
  <2>4. PICK p \in Int : p = m + 1 /\ p = n + 1 - MaxLines /\ p <= n + 1
    BY <2>2, <2>3
  <2>5. FollowerAt(p)'
    BY <1>3, <1>4, <1>7, <2>1, <2>3, <2>4 DEF FollowerAt, CursorAt
  <2> QED
    BY <2>5
<1>8. CASE cursor # NoCursor
  <2>1. cursor = ClaimSlot(m + 1) /\ m \in Nat /\ m > n - MaxLines /\ LinesUpTo(shown, m, claimed)
    BY <1>1, <1>6, <1>8 DEF CursorAt
  <2>2. SlotOf(nextIndex + 1) = ClaimSlot(n + 2)
    <3>1. n \in Int
      OBVIOUS
    <3> QED
      BY <1>3, <3>1, NextSlot
  <2>3. m # n + 1 - MaxLines
    <3>1. SUFFICES ASSUME m = n + 1 - MaxLines PROVE FALSE
      OBVIOUS
    <3>2. PICK i \in Int : i = m + 1 /\ i + MaxLines = n + 2
      BY <3>1
    <3>3. ClaimSlot(i + MaxLines) = ClaimSlot(i)
      BY SlotReturns
    <3>4. SlotOf(nextIndex + 1) = cursor
      BY <2>1, <2>2, <3>2, <3>3
    <3> QED
      BY <1>4, <1>8, <3>4 DEF Overruns
  <2>4. m > n + 1 - MaxLines /\ m <= n + 1
    BY <1>6, <2>1, <2>3
  <2>5. LinesUpTo(shown, m, claimed')
    <3>1. shown \in Seq(Line) /\ Len(shown) \in Nat /\ Len(shown) <= m
      BY <2>1 DEF LinesUpTo
    <3>2. ASSUME NEW i \in 1 .. Len(shown) PROVE shown[i] = Whole(claimed'[m - Len(shown) + i])
      <4>1. m - Len(shown) + i \in 1 .. n
        BY <1>6, <3>1
      <4>2. claimed'[m - Len(shown) + i] = claimed[m - Len(shown) + i]
        BY <1>3, <4>1
      <4> QED
        BY <2>1, <4>2 DEF LinesUpTo
    <3> QED
      BY <3>1, <3>2 DEF LinesUpTo
  <2>6. CursorAt(m)'
    <3>1. LinesUpTo(shown, m, claimed)'
      BY <1>4, <2>5 DEF LinesUpTo, Whole
    <3>2. cursor' = ClaimSlot(m + 1)'
      BY <1>4, <2>1 DEF ClaimSlot
    <3>3. m > Len(claimed') - MaxLines
      BY <1>3, <2>4
    <3> QED
      BY <2>1, <3>1, <3>2, <3>3 DEF CursorAt
  <2>7. ASSUME NEW e \in Nat, e <= n, NEW j \in m + 1 .. e, CopiedWell(j) PROVE CopiedWell(j)'
    <3>1. PICK k \in Slots :
            /\ k = ClaimSlot(j)
            /\ copy.done > 2 * k =>
                 \/ copy.lines[k].time = Unset
                 \/ /\ j >= 1 /\ copy.lines[k].time = claimed[j]
                    /\ lines[k] = Whole(claimed[j]) /\ ~AtWork(k)
            /\ copy.done > 2 * k + 1 =>
                 copy.lines[k].time = Unset \/ copy.lines[k].text = copy.lines[k].time
      BY <2>7 DEF CopiedWell
    <3>2. k # c
      <4>1. PICK i \in Int : i = n + 1
        OBVIOUS
      <4>2. j \in Int /\ i - j < MaxLines /\ j - i < MaxLines /\ i # j
        BY <2>4, <2>7, <4>1
      <4>3. ClaimSlot(i) # ClaimSlot(j)
        BY <4>2, SlotsDiffer
      <4> QED
        BY <1>3, <3>1, <4>1, <4>3
    <3>3. ~AtWork(k) => ~AtWork(k)'
      BY <1>4, <1>5, <3>2 DEF AtWork
    <3>4. j >= 1 /\ claimed'[j] = claimed[j]
      BY <1>3, <2>1, <2>7
    <3>5. k = ClaimSlot(j)'
      BY <3>1 DEF ClaimSlot
    <3> QED
      BY <1>4, <3>1, <3>3, <3>4, <3>5 DEF CopiedWell
  <2>8. ASSUME CopyAt(m) PROVE CopyAt(m)'
    <3>1. PICK e \in Nat : /\ m <= e /\ e <= Len(claimed)
                           /\ copy.next = ((FirstIndex + e) % IndexRange)
                           /\ \A j \in m + 1 .. e : CopiedWell(j)
      BY <2>8 DEF CopyAt
    <3>2. e <= n /\ e <= Len(claimed')
      BY <1>1, <1>3, <3>1
    <3>3. \A j \in m + 1 .. e : CopiedWell(j)'
      BY <2>7, <3>1, <3>2
    <3> QED
      BY <1>4, <1>8, <3>1, <3>2, <3>3 DEF CopyAt
  <2>9. m <= Len(claimed')
    BY <1>3, <2>4
  <2>10. FollowerAt(m)'
    BY <1>4, <1>6, <2>6, <2>8, <2>9 DEF FollowerAt
  <2> QED
    BY <2>10
<1> QED
  BY <1>7, <1>8

\* The copy is begun: nothing of it is there yet.
LEMMA FetchFollower ==
  ASSUME ClaimsInv, Fetch, NEW m \in Int, FollowerAt(m)
  PROVE  FollowerAt(m)'
<1> USE SizesAssumption
<1>1. /\ copy' = [next |-> nextIndex, lines |-> lines, done |-> 0]
      /\ claimed' = claimed /\ cursor' = cursor /\ shown' = shown /\ lines' = lines
  BY DEF Fetch, writing
<1>2. CursorAt(m)' /\ m <= Len(claimed')
  BY <1>1 DEF FollowerAt, CursorAt, ClaimSlot
<1>3. PICK n \in Nat : n = Len(claimed) /\ nextIndex = ((FirstIndex + n) % IndexRange)
  BY DEF ClaimsInv, Ledger
<1>4. ASSUME NEW j \in m + 1 .. n PROVE CopiedWell(j)'
  <2>1. j \in Int
    OBVIOUS
  <2>2. PICK k \in Slots : k = ClaimSlot(j)
    BY <2>1, ClaimSlotType
  <2>3. ~(0 > 2 * k) /\ ~(0 > 2 * k + 1)
    BY DEF Slots
  <2>4. copy'.done = 0 /\ k = ClaimSlot(j)'
    BY <1>1, <2>2 DEF ClaimSlot
  <2> QED
    BY <2>3, <2>4 DEF CopiedWell
<1>5. m <= n
  BY <1>3 DEF FollowerAt
<1>6. CopyAt(m)'
  <2>1. copy'.next = ((FirstIndex + n) % IndexRange) /\ n <= Len(claimed') /\ n = Len(claimed')
    BY <1>1, <1>3
  <2> QED
    BY <1>4, <1>5, <2>1 DEF CopyAt
<1> QED
  BY <1>2, <1>6 DEF FollowerAt

\* One more field is copied: the time of a line that is whole, or the text under it.
LEMMA CopyFollower ==
  ASSUME ClaimsInv, TypeInv, Copy, ~raced', NEW m \in Int, FollowerAt(m)
  PROVE  FollowerAt(m)'
<1> USE SizesAssumption
<1>1. copy \in [next : 0 .. IndexRange - 1, lines : [Slots -> Line], done : 0 .. CopyLength]
  BY DEF Copy, TypeInv, CopyType, NoCopy
<1>2. PICK d \in Int : d = copy.done
  BY <1>1
<1>3. PICK h \in Slots : h = copy.done \div 2 /\ (d = 2 * h \/ d = 2 * h + 1)
                         /\ ((d % 2) = 0 <=> d = 2 * h)
  <2>1. d \in 0 .. 2 * MaxLines - 1
    BY <1>2 DEF Copy, CopyLength
  <2>2. PICK q \in Int, r \in 0 .. 1 : q = d \div 2 /\ r = (d % 2) /\ d = q * 2 + r
    <3>1. d \div 2 \in Int /\ (d % 2) \in 0 .. 2 - 1 /\ d = (d \div 2) * 2 + (d % 2)
      BY Division
    <3> QED
      BY <3>1
  <2>3. q \in Slots
    BY <2>1, <2>2 DEF Slots
  <2>4. (d = 2 * q \/ d = 2 * q + 1) /\ (r = 0 <=> d = 2 * q)
    BY <2>2
  <2> QED
    BY <1>2, <2>2, <2>3, <2>4
<1>4. /\ claimed' = claimed /\ cursor' = cursor /\ shown' = shown /\ lines' = lines
      /\ stage' = stage /\ slot' = slot /\ ~raced
      /\ ~\E w \in Holding(h) : stage[w] = "claimed"
  <2>1. raced' = (raced \/ \E w \in Holding(h) : stage[w] = "claimed")
    BY <1>3 DEF Copy
  <2> QED
    BY <2>1 DEF Copy, writing
<1>5. /\ copy.lines[h] \in Line /\ lines[h] \in Line
      /\ lines \in [Slots -> Line]
  BY <1>1 DEF TypeInv, WritersType
<1>6. PICK line \in Line :
        /\ copy' = [next |-> copy.next, lines |-> [copy.lines EXCEPT ![h] = line], done |-> d + 1]
        /\ d = 2 * h => line.time = lines[h].time
        /\ d # 2 * h => line.time = copy.lines[h].time /\ line.text = lines[h].text
  <2>1. copy' = [copy EXCEPT !.done = @ + 1,
                   !.lines[h] = IF (copy.done % 2) = 0 THEN [@ EXCEPT !.time = lines[h].time]
                                ELSE [@ EXCEPT !.text = lines[h].text]]
    BY <1>3 DEF Copy
  <2>2. PICK even, odd : /\ even = [copy.lines[h] EXCEPT !.time = lines[h].time]
                         /\ odd = [copy.lines[h] EXCEPT !.text = lines[h].text]
    OBVIOUS
  <2>3. /\ even \in Line /\ even.time = lines[h].time
        /\ odd \in Line /\ odd.time = copy.lines[h].time /\ odd.text = lines[h].text
    BY <1>5, <2>2 DEF Line
  <2>4. copy' = [copy EXCEPT !.done = @ + 1, !.lines[h] = IF (copy.done % 2) = 0 THEN even ELSE odd]
    BY <2>1, <2>2
  <2>5. CASE d = 2 * h
    <3>1. copy' = [copy EXCEPT !.done = @ + 1, !.lines[h] = even]
      BY <1>2, <1>3, <2>4, <2>5
    <3>2. copy' = [next |-> copy.next, lines |-> [copy.lines EXCEPT ![h] = even], done |-> d + 1]
      BY <1>1, <1>2, <3>1
    <3> QED
      BY <2>3, <2>5, <3>2
  <2>6. CASE d # 2 * h
    <3>1. copy' = [copy EXCEPT !.done = @ + 1, !.lines[h] = odd]
      BY <1>2, <1>3, <2>4, <2>6
    <3>2. copy' = [next |-> copy.next, lines |-> [copy.lines EXCEPT ![h] = odd], done |-> d + 1]
      BY <1>1, <1>2, <3>1
    <3> QED
      BY <2>3, <2>6, <3>2
  <2> QED
    BY <2>5, <2>6
<1>7. CursorAt(m)' /\ m <= Len(claimed')
  BY <1>4 DEF FollowerAt, CursorAt, ClaimSlot
<1>8. PICK n \in Nat :
        /\ m <= n /\ n <= Len(claimed)
        /\ copy.next = ((FirstIndex + n) % IndexRange)
        /\ cursor = NoCursor => n = Len(claimed)
        /\ \A j \in m + 1 .. n : CopiedWell(j)
  BY <1>1 DEF FollowerAt, CopyAt, Copy, NoCopy
<1>9. m >= Len(claimed) - MaxLines /\ Len(claimed) \in Nat
  BY DEF FollowerAt, CursorAt, ClaimsInv, Ledger
<1>10. ASSUME NEW j \in m + 1 .. n PROVE CopiedWell(j)'
  <2>1. PICK k \in Slots :
          /\ k = ClaimSlot(j)
          /\ d > 2 * k =>
               \/ copy.lines[k].time = Unset
               \/ /\ j >= 1 /\ copy.lines[k].time = claimed[j]
                  /\ lines[k] = Whole(claimed[j]) /\ ~AtWork(k)
          /\ d > 2 * k + 1 =>
               copy.lines[k].time = Unset \/ copy.lines[k].text = copy.lines[k].time
    BY <1>2, <1>8 DEF CopiedWell
  <2>2. PICK t : t = copy'.lines[k]
    OBVIOUS
  <2>3. copy'.done = d + 1 /\ k = ClaimSlot(j)' /\ (AtWork(k)' <=> AtWork(k)) /\ k \in Int
    BY <1>4, <1>6, <2>1 DEF ClaimSlot, AtWork, Slots
  <2>4. SUFFICES /\ d + 1 > 2 * k =>
                      \/ t.time = Unset
                      \/ j >= 1 /\ t.time = claimed[j] /\ lines[k] = Whole(claimed[j]) /\ ~AtWork(k)
                 /\ d + 1 > 2 * k + 1 => t.time = Unset \/ t.text = t.time
    BY <1>4, <2>2, <2>3 DEF CopiedWell
  <2>5. CASE k # h
    <3>1. t = copy.lines[k]
      BY <1>1, <1>6, <2>2, <2>5
    <3>2. (d + 1 > 2 * k => d > 2 * k) /\ (d + 1 > 2 * k + 1 => d > 2 * k + 1)
      BY <1>3, <2>3, <2>5 DEF Slots
    <3> QED
      BY <2>1, <3>1, <3>2
  <2>6. CASE k = h /\ d = 2 * h
    <3>1. t.time = lines[k].time /\ ~(d + 1 > 2 * k + 1)
      <4>1. t = line
        BY <1>1, <1>6, <2>2, <2>6
      <4> QED
        BY <1>2, <1>6, <2>6, <4>1
    <3>2. ASSUME lines[k].time # Unset
          PROVE  j >= 1 /\ lines[k].time = claimed[j] /\ lines[k] = Whole(claimed[j]) /\ ~AtWork(k)
      <4>1. j \in Window
        BY <1>8, <1>9 DEF Window
      <4>2. LineFollows(j)
        BY <4>1 DEF ClaimsInv, LinesFollow
      <4>3. ~Starting(k)
        BY <1>4, <2>6 DEF Starting, Holding
      <4>4. j >= 1
        BY <1>8, <2>1, <3>2, <4>2 DEF LineFollows
      <4>5. lines[k].time = claimed[j]
        BY <1>4, <2>1, <3>2, <4>2, <4>3, <4>4 DEF LineFollows
      <4>6. lines[k].text = lines[k].time
        BY <3>2 DEF ClaimsInv, RingInv, LineIsWhole
      <4>7. lines[k] = Whole(claimed[j])
        BY <1>5, <4>5, <4>6 DEF Line, Whole
      <4>8. ~AtWork(k)
        BY <3>2, <4>3 DEF AtWork, Starting, Active, ClaimsInv, RingInv, Progress
      <4> QED
        BY <4>4, <4>5, <4>7, <4>8
    <3> QED
      BY <3>1, <3>2
  <2>7. CASE k = h /\ d # 2 * h
    <3>1. t.time = copy.lines[k].time /\ t.text = lines[k].text /\ d > 2 * k
      <4>1. t = line
        BY <1>1, <1>6, <2>2, <2>7
      <4> QED
        BY <1>3, <1>6, <2>3, <2>7, <4>1
    <3>2. t.time # Unset => t.text = t.time
      BY <2>1, <3>1 DEF Whole
    <3> QED
      BY <2>1, <3>1, <3>2
  <2> QED
    BY <2>5, <2>6, <2>7
<1>11. CopyAt(m)'
  <2>1. copy'.next = copy.next
    BY <1>6
  <2> QED
    BY <1>4, <1>8, <1>10, <2>1 DEF CopyAt
<1> QED
  BY <1>7, <1>11 DEF FollowerAt

\* Lines that follow the lines shown so far, in front of those shown next.
LEMMA JoinUpTo ==
  ASSUME NEW a, NEW b, NEW m \in Nat, NEW e \in Nat, NEW messages,
         LinesUpTo(a, m, messages), LinesUpTo(b, e, messages), Len(b) = e - m
  PROVE  LinesUpTo(a \o b, e, messages)
<1>1. a \in Seq(Line) /\ b \in Seq(Line) /\ Len(a) \in Nat /\ Len(b) \in Nat /\ Len(a) <= m
  BY DEF LinesUpTo
<1>2. PICK c : c = a \o b
  OBVIOUS
<1>3. /\ c \in Seq(Line) /\ Len(c) = Len(a) + Len(b)
      /\ \A i \in 1 .. Len(c) : c[i] = IF i <= Len(a) THEN a[i] ELSE b[i - Len(a)]
  <2>1. a \o b \in Seq(Line) /\ Len(a \o b) = Len(a) + Len(b)
    BY <1>1, ConcatProperties
  <2>2. \A i \in 1 .. Len(a) + Len(b) : (a \o b)[i] = IF i <= Len(a) THEN a[i] ELSE b[i - Len(a)]
    BY <1>1, ConcatProperties
  <2> QED
    BY <1>2, <2>1, <2>2
<1>4. ASSUME NEW i \in 1 .. Len(c) PROVE c[i] = Whole(messages[e - Len(c) + i])
  <2>1. CASE i <= Len(a)
    <3>1. i \in 1 .. Len(a) /\ m - Len(a) + i = e - Len(c) + i
      BY <1>1, <1>3, <2>1
    <3>2. a[i] = Whole(messages[m - Len(a) + i])
      BY <3>1 DEF LinesUpTo
    <3> QED
      BY <1>3, <2>1, <3>1, <3>2
  <2>2. CASE i > Len(a)
    <3>1. PICK j \in 1 .. Len(b) : j = i - Len(a) /\ e - Len(b) + j = e - Len(c) + i
      <4>1. PICK p \in Nat, q \in Nat : p = Len(a) /\ q = Len(b)
        BY <1>1
      <4>2. Len(c) = p + q /\ i \in 1 .. p + q /\ i > p
        BY <1>3, <2>2, <4>1
      <4>3. i - p \in 1 .. q /\ e - q + (i - p) = e - (p + q) + i
        BY <4>2
      <4> QED
        BY <4>1, <4>2, <4>3
    <3>2. b[j] = Whole(messages[e - Len(b) + j])
      BY DEF LinesUpTo
    <3>3. c[i] = b[j]
      BY <1>1, <1>3, <2>2, <3>1
    <3> QED
      BY <3>1, <3>2, <3>3
  <2> QED
    BY <1>1, <1>3, <2>1, <2>2
<1> QED
  BY <1>1, <1>2, <1>3, <1>4 DEF LinesUpTo

\* The view goes on where it stopped, over the lines the copy has whole.
LEMMA DeliverFollower ==
  ASSUME ClaimsInv, TypeInv, Deliver, NEW m \in Int, FollowerAt(m)
  PROVE  \E p \in Int : FollowerAt(p)'
<1> USE SizesAssumption
<1>1. copy # NoCopy
  BY DEF Deliver, NoCopy, CopyLength
<1>2. copy \in [next : 0 .. IndexRange - 1, lines : [Slots -> Line], done : 0 .. CopyLength]
  BY <1>1 DEF TypeInv, CopyType
<1>3. PICK n \in Nat :
        /\ m <= n /\ n <= Len(claimed)
        /\ copy.next = ((FirstIndex + n) % IndexRange)
        /\ cursor = NoCursor => n = Len(claimed)
        /\ \A j \in m + 1 .. n : CopiedWell(j)
  BY <1>1 DEF FollowerAt, CopyAt
<1>4. PICK total \in Nat : total = Len(claimed)
  BY DEF ClaimsInv, Ledger
<1>5. PICK s : s = View(copy, cursor)
  OBVIOUS
<1>6. /\ cursor' = s.cursor /\ shown' = shown \o s.out /\ copy' = NoCopy /\ claimed' = claimed
  BY <1>5 DEF Deliver, writing
<1>7. ASSUME NEW j \in m + 1 .. n, copy.lines[ClaimSlot(j)].time # Unset
      PROVE  /\ j >= 1 /\ copy.lines[ClaimSlot(j)] = Whole(claimed[j])
             /\ copy.lines[ClaimSlot(j)] \in Line
  <2>1. PICK k \in Slots :
          /\ k = ClaimSlot(j)
          /\ copy.done > 2 * k =>
               \/ copy.lines[k].time = Unset
               \/ /\ j >= 1 /\ copy.lines[k].time = claimed[j]
                  /\ lines[k] = Whole(claimed[j]) /\ ~AtWork(k)
          /\ copy.done > 2 * k + 1 =>
               copy.lines[k].time = Unset \/ copy.lines[k].text = copy.lines[k].time
    BY <1>3 DEF CopiedWell
  <2>2. copy.done > 2 * k /\ copy.done > 2 * k + 1
    BY DEF Deliver, CopyLength, Slots
  <2>3. PICK line \in Line : line = copy.lines[k]
    BY <1>2
  <2>4. j >= 1 /\ line.time = claimed[j] /\ line.text = line.time
    BY <1>7, <2>1, <2>2, <2>3
  <2>5. line = Whole(claimed[j])
    BY <2>4 DEF Line, Whole
  <2> QED
    BY <2>1, <2>3, <2>4, <2>5
<1>8. Readable(copy, m, n, claimed)
  BY <1>3, <1>7 DEF Readable
<1>9. \/ cursor = NoCursor /\ shown = <<>> /\ m = n - MaxLines
      \/ /\ cursor = ClaimSlot(m + 1) /\ m \in Nat /\ n - m < MaxLines /\ m > total - MaxLines
         /\ LinesUpTo(shown, m, claimed) /\ cursor # NoCursor
  <2>1. m \in Nat => ClaimSlot(m + 1) # NoCursor
    BY ClaimSlotType DEF Slots, NoCursor
  <2> QED
    BY <1>3, <1>4, <2>1 DEF FollowerAt, CursorAt
<1>10. Nothing(cursor, s) \/ Found(cursor, m, n, claimed, s, MaxLines)
  BY <1>5, <1>8, <1>9, ViewFinds
<1>11. CASE Nothing(cursor, s)
  <2>1. cursor = NoCursor /\ s.cursor = NoCursor /\ s.out = <<>>
    BY <1>11 DEF Nothing, Going
  <2>2. shown' = <<>> /\ cursor' = NoCursor /\ m = total - MaxLines /\ m <= total
    BY <1>3, <1>4, <1>6, <1>9, <2>1
  <2>3. FollowerAt(m)'
    BY <1>4, <1>6, <2>2 DEF FollowerAt, CursorAt
  <2> QED
    BY <2>3
<1>12. CASE Found(cursor, m, n, claimed, s, MaxLines)
  <2>1. PICK e \in Nat : \E o \in Seq(Line) :
          /\ s = Going(ClaimSlot(e + 1), o) \/ s = Broken(ClaimSlot(e + 1), o)
          /\ m <= e /\ e <= n /\ LinesUpTo(o, e, claimed)
          /\ IF cursor = NoCursor THEN m < e ELSE Len(o) = e - m
    BY <1>12 DEF Found
  <2>2. PICK o \in Seq(Line) :
          /\ s = Going(ClaimSlot(e + 1), o) \/ s = Broken(ClaimSlot(e + 1), o)
          /\ m <= e /\ e <= n /\ LinesUpTo(o, e, claimed)
          /\ IF cursor = NoCursor THEN m < e ELSE Len(o) = e - m
    BY <2>1
  <2>3. s.cursor = ClaimSlot(e + 1) /\ s.out = o
    BY <2>2 DEF Going, Broken
  <2>4. LinesUpTo(shown', e, claimed) /\ e > total - MaxLines
    <3>1. CASE cursor = NoCursor
      <4>1. shown = <<>> /\ m = n - MaxLines /\ n = total
        BY <1>3, <1>4, <1>9, <3>1
      <4>2. shown' = o
        BY <1>6, <2>3, <4>1
      <4> QED
        BY <2>2, <3>1, <4>1, <4>2
    <3>2. CASE cursor # NoCursor
      <4>1. m \in Nat /\ m > total - MaxLines /\ LinesUpTo(shown, m, claimed)
        BY <1>9, <3>2
      <4>2. Len(o) = e - m
        BY <2>2, <3>2
      <4>3. LinesUpTo(shown \o o, e, claimed)
        BY <2>2, <4>1, <4>2, JoinUpTo
      <4> QED
        BY <1>6, <2>2, <2>3, <4>1, <4>3
    <3> QED
      BY <3>1, <3>2
  <2>5. CursorAt(e)'
    <3>1. LinesUpTo(shown, e, claimed)'
      BY <1>6, <2>4 DEF LinesUpTo, Whole
    <3>2. cursor' = ClaimSlot(e + 1)'
      BY <1>6, <2>3 DEF ClaimSlot
    <3>3. e > Len(claimed') - MaxLines
      BY <1>4, <1>6, <2>4
    <3> QED
      BY <3>1, <3>2, <3>3 DEF CursorAt
  <2>6. e <= Len(claimed')
    BY <1>3, <1>4, <1>6, <2>2
  <2>7. FollowerAt(e)'
    BY <1>6, <2>5, <2>6 DEF FollowerAt
  <2> QED
    BY <2>7
<1> QED
  BY <1>10, <1>11, <1>12

\* The follower's place is kept by every step.
LEMMA NextFollows == ~Lapping /\ FollowInv /\ [Next]_vars => FollowInv'
<1> SUFFICES ASSUME ~Lapping, FollowInv, [Next]_vars PROVE FollowInv'
  OBVIOUS
<1> USE DEF FollowInv
<1>1. ClaimsInv' /\ TypeInv'
  BY NextClaims, NextType
<1>2. SUFFICES ASSUME ~raced' PROVE \E p \in Int : FollowerAt(p)'
  BY <1>1 DEF Following
<1>3. raced => raced'
  <2>1. ASSUME NEW w \in Writers, Write(w) \/ Killed(w), raced PROVE raced'
    <3>1. CASE Claim(w)
      BY <2>1, <3>1, Zenon DEF Claim
    <3>2. CASE Killed(w)
      BY <2>1, <3>2, Zenon DEF Killed
    <3> QED
      BY <2>1, <3>1, <3>2 DEF Write, Stamp, Clear, Erase, Format, Publish, Advance
  <2>2. ASSUME Copy, raced PROVE raced'
    BY <2>2, Zenon DEF Copy
  <2> QED
    BY <2>1, <2>2 DEF Next, Fetch, Deliver, vars
<1>4. PICK m \in Int : FollowerAt(m)
  BY <1>2, <1>3 DEF Following
<1>5. ASSUME NEW w \in Writers, Write(w) \/ Killed(w) PROVE \E p \in Int : FollowerAt(p)'
  <2>1. CASE Claim(w)
    BY <1>2, <1>4, <2>1, ClaimFollower
  <2>2. CASE ~Claim(w)
    BY <1>4, <1>5, <2>2, WorkFollower
  <2> QED
    BY <2>1, <2>2
<1>6. CASE Fetch
  BY <1>4, <1>6, FetchFollower
<1>7. CASE Copy
  BY <1>2, <1>4, <1>7, CopyFollower
<1>8. CASE Deliver
  BY <1>4, <1>8, DeliverFollower
<1>9. CASE UNCHANGED vars
  <2>1. ASSUME NEW j, CopiedWell(j) PROVE CopiedWell(j)'
    BY <1>9, <2>1 DEF CopiedWell, vars, ClaimSlot, AtWork
  <2>2. CopyAt(m) => CopyAt(m)'
    BY <1>9, <2>1 DEF CopyAt, vars
  <2>3. FollowerAt(m)'
    BY <1>4, <1>9, <2>2 DEF FollowerAt, CursorAt, vars, ClaimSlot
  <2> QED
    BY <2>3
<1> QED
  BY <1>5, <1>6, <1>7, <1>8, <1>9 DEF Next

\* What has been shown up to a place is in the order of the claims.
LEMMA FollowingShows == FollowInv => ShownInOrder
<1> SUFFICES ASSUME FollowInv, ~raced PROVE ShownInOrder
  BY DEF ShownInOrder
<1>1. PICK m \in Int : FollowerAt(m)
  BY DEF FollowInv, Following
<1>2. PICK total \in Nat : total = Len(claimed)
  BY DEF FollowInv, ClaimsInv, Ledger
<1>3. CASE shown = <<>>
  BY <1>2, <1>3 DEF ShownInOrder
<1>4. CASE shown # <<>>
  <2>1. m <= total /\ LinesUpTo(shown, m, claimed)
    BY <1>1, <1>2, <1>4 DEF FollowerAt, CursorAt
  <2>2. PICK f \in 0 .. total - Len(shown) : f = m - Len(shown)
    BY <2>1 DEF LinesUpTo
  <2>3. \A i \in 1 .. Len(shown) : shown[i] = [time |-> claimed[f + i], text |-> claimed[f + i]]
    BY <2>1, <2>2 DEF LinesUpTo, Whole
  <2> QED
    BY <1>2, <2>2, <2>3 DEF ShownInOrder
<1> QED
  BY <1>3, <1>4

-----------------------------------------------------------------------------
\* Every variable keeps its type, lapped writers or not: index, slots and cursor
\* stay within the ring whatever write_msg_to_log and the view do.
THEOREM RingTypes == Spec => []TypeOK
<1>1. TypeInv => TypeOK
  BY DEF TypeInv, WritersType, TypeOK
<1> QED
  BY <1>1, TypeInit, NextType, PTL DEF Spec

\* With nobody at work, write_log_to_file writes the last MaxLines claims in their
\* order, across the wraps of ring and index, unless a writer was lapped.
THEOREM ExportsAreTails == ~Lapping /\ Spec => []ExportIsTail
<1>1. CASE ~Lapping
  <2>1. ClaimsInv /\ [Next]_vars => ClaimsInv'
    BY <1>1, NextClaims
  <2> QED
    BY <2>1, ClaimsInit, ClaimsExport, PTL DEF Spec
<1>2. CASE Lapping
  BY <1>2
<1> QED
  BY <1>1, <1>2

\* The log view shows whole lines in the order of their claims, none twice and none
\* left out, although it copies the log beside the writers, unless it was overrun or
\* met one of the races of the comments.
THEOREM ViewsAreInOrder == ~Lapping /\ Spec => []ShownInOrder
<1>1. CASE ~Lapping
  <2>1. FollowInv /\ [Next]_vars => FollowInv'
    BY <1>1, NextFollows
  <2> QED
    BY <2>1, FollowInit, FollowingShows, PTL DEF Spec
<1>2. CASE Lapping
  BY <1>2
<1> QED
  BY <1>1, <1>2
=============================================================================
