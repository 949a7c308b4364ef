----------------------------- MODULE RingLogger -----------------------------
(***************************************************************************)
(* ringlogger.c and its readers Logger and LogViewHelper: a ring of lines  *)
(* in a memory-mapped file that several threads and processes (the app and *)
(* the network extension) write without a lock, and that the log view      *)
(* follows with a cursor.                                                  *)
(*                                                                         *)
(* A message is a number, in the order its clock was read; it stands for   *)
(* both the time stamp and the text that write_msg_to_log stores.  A line  *)
(* is the pair of what its two fields hold: their agreement is what makes  *)
(* a line whole.  Each access to shared memory is a step of its own.       *)
(***************************************************************************)
EXTENDS Integers, Sequences, FiniteSets

CONSTANTS
  Writers,       \* threads that call write_msg_to_log
  MaxLines,      \* MAX_LINES
  IndexRange,    \* values of the 32-bit next_index, a multiple of MaxLines
  MaxMessages,   \* bound: messages written
  FirstIndex,    \* next_index when the log is opened
  Lapping,       \* TRUE: a writer may be overtaken by MaxLines others
  Mortal         \* the writers whose process may be killed half way

ASSUME SizesAssumption ==
  /\ MaxLines \in Nat \ {0} /\ MaxMessages \in Nat
  /\ IndexRange \in Nat \ {0} /\ IndexRange % MaxLines = 0
  /\ FirstIndex \in 0 .. IndexRange - 1
ASSUME LogSwitchesAssumption == Lapping \in BOOLEAN /\ Mortal \subseteq Writers

Slots == 0 .. MaxLines - 1
Messages == 1 .. MaxMessages
Unset == 0           \* time_ns is 0
Blank == 0           \* the memory of a new log
Half == -1           \* between memset and the end of snprintf
NoCursor == -1       \* UINT32_MAX

Line == [time : Messages \cup {Unset}, text : Messages \cup {Blank, Half}]
Stages == {"idle", "stamped", "claimed", "cleared", "printing", "printed", "dead"}

VARIABLES
  nextIndex,   \* log->next_index
  lines,       \* log->lines
  stage,       \* how far each writer is
  message,     \* the message each writer is writing
  slot,        \* the slot each writer has claimed
  clock,       \* messages stamped so far
  claimed,     \* history: messages in the order of their claims
  copy,        \* the follower's copy of the log, and how much of it is copied
  cursor,      \* LogViewHelper.cursor
  shown,       \* lines handed to the log view
  raced        \* history: the follower met one of the races of the comments

vars == <<nextIndex, lines, stage, message, slot, clock, claimed, copy, cursor, shown, raced>>
writing == <<nextIndex, lines, stage, message, slot, clock, claimed>>
reading == <<copy, cursor, shown>>

NoCopy == [next |-> 0, lines |-> <<>>, done |-> -1]
CopyLength == 2 * MaxLines     \* every line is two fields

\* (mutant of SlotOf: the index is not taken modulo MAX_LINES)
SlotOfIndex(i) == i % IndexRange

SlotOf(i) == (i % IndexRange) % MaxLines

-----------------------------------------------------------------------------
(* write_msg_to_log                                                        *)

\* clock_gettime.
Stamp(w) ==
  /\ stage[w] = "idle" /\ clock < MaxMessages
  /\ clock' = clock + 1
  /\ message' = [message EXCEPT ![w] = clock + 1]
  /\ stage' = [stage EXCEPT ![w] = "stamped"]
  /\ UNCHANGED <<nextIndex, lines, slot, claimed, reading, raced>>

Holding(k) == {w \in Writers : stage[w] \notin {"idle", "stamped", "dead"} /\ slot[w] = k}

\* The follower would lose the oldest unread line to this claim.
Overruns ==
  IF cursor = NoCursor THEN copy # NoCopy ELSE SlotOf(nextIndex + 1) = cursor

\* atomic_fetch_add.
Claim(w) ==
  /\ stage[w] = "stamped"
  /\ Lapping \/ Holding(SlotOf(nextIndex)) = {}
  /\ slot' = [slot EXCEPT ![w] = SlotOf(nextIndex)]
  /\ nextIndex' = (nextIndex + 1) % IndexRange
  /\ stage' = [stage EXCEPT ![w] = "claimed"]
  /\ claimed' = Append(claimed, message[w])
  /\ raced' = (raced \/ Overruns)
  /\ UNCHANGED <<lines, message, clock, reading>>

\* (mutant of SetLine: the time is left in place while the text is rewritten)
SetTextOnly(w, time, text) ==
  lines' = [lines EXCEPT ![slot[w]] = [time |-> IF time = Unset THEN @.time ELSE time, text |-> text]]

SetLine(w, time, text) ==
  lines' = [lines EXCEPT ![slot[w]] = [time |-> time, text |-> text]]

Advance(w, from, to) ==
  /\ stage[w] = from
  /\ stage' = [stage EXCEPT ![w] = to]
  /\ UNCHANGED <<nextIndex, message, slot, clock, claimed, reading, raced>>

\* The call is over, and its local variables with it.
Leave(w, to) ==
  /\ stage' = [stage EXCEPT ![w] = to]
  /\ message' = [message EXCEPT ![w] = 0] /\ slot' = [slot EXCEPT ![w] = 0]

\* atomic_store(&line->time_ns, 0).
Clear(w) == Advance(w, "claimed", "cleared") /\ SetLine(w, Unset, lines[slot[w]].text)

\* memset, and snprintf under way.
Erase(w) == Advance(w, "cleared", "printing") /\ SetLine(w, lines[slot[w]].time, Half)

Format(w) == Advance(w, "printing", "printed") /\ SetLine(w, lines[slot[w]].time, message[w])

\* atomic_store(&line->time_ns, ...).
Publish(w) ==
  /\ stage[w] = "printed" /\ Leave(w, "idle")
  /\ SetLine(w, message[w], lines[slot[w]].text)
  /\ UNCHANGED <<nextIndex, clock, claimed, reading, raced>>

\* The writer's process is killed; the file stays.
Killed(w) ==
  /\ w \in Mortal /\ stage[w] \in {"claimed", "cleared", "printing", "printed"}
  /\ Leave(w, "dead")
  /\ raced' = (raced \/ stage[w] = "claimed")
  /\ UNCHANGED <<nextIndex, lines, clock, claimed, reading>>

-----------------------------------------------------------------------------
(* view_lines_from_cursor and write_log_to_file, on a copy of the log.     *)

\* (mutant of AtEnd: the loop stops at the newest line, not after it)
AtNewest(log, k) == k = SlotOf(log.next + MaxLines - 1)

\* The line that is written next: everything has been shown.
AtEnd(log, k) == k = SlotOf(log.next)

\* (mutant of StopsAtGap: a line that is being written is passed over)
NeverStops(from) == FALSE

\* A line without a time ends the loop, but before the first line shown.
StopsAtGap(from) == from # NoCursor

\* One round of the loop, at line k: s is the cursor, the lines passed to the
\* callback, and whether the loop has broken off.
Round(log, s, k) ==
  IF s.over \/ (s.cursor # NoCursor /\ AtEnd(log, k)) THEN [s EXCEPT !.over = TRUE]
  ELSE IF log.lines[k].time = Unset THEN [s EXCEPT !.over = StopsAtGap(s.cursor)]
  ELSE [s EXCEPT !.cursor = (k + 1) % MaxLines, !.out = Append(@, log.lines[k])]

View(log, from) ==
  LET start == IF from = NoCursor THEN log.next ELSE from
      rounds[l \in 0 .. MaxLines] ==
        IF l = 0 THEN [cursor |-> from, out |-> <<>>, over |-> FALSE]
        ELSE Round(log, rounds[l - 1], SlotOf(start + l - 1))
  IN  rounds[MaxLines]

\* The lines with a time among the MaxLines lines of s.
WithTime(s) ==
  LET out[l \in 0 .. MaxLines] ==
        IF l = 0 THEN <<>>
        ELSE IF s[l].time = Unset THEN out[l - 1] ELSE Append(out[l - 1], s[l])
  IN  out[MaxLines]

\* (mutant of Export: the lines in slot order)
ExportFromZero(log) == WithTime([l \in 1 .. MaxLines |-> log.lines[l - 1]])

\* The lines of the exported file.
Export(log) == WithTime([l \in 1 .. MaxLines |-> log.lines[SlotOf(log.next + l - 1)]])

-----------------------------------------------------------------------------
(* fetchLogEntriesSinceLastFetch: one at a time (isFetchingLogEntries).    *)

Fetch ==
  /\ copy = NoCopy
  /\ copy' = [next |-> nextIndex, lines |-> lines, done |-> 0]
  /\ UNCHANGED <<writing, cursor, shown, raced>>

\* memcpy goes on: the time of a line, then its text.
Copy ==
  /\ copy.done \in 0 .. CopyLength - 1
  /\ LET k == copy.done \div 2
     IN  /\ copy' = [copy EXCEPT !.done = @ + 1,
                       !.lines[k] = IF copy.done % 2 = 0 THEN [@ EXCEPT !.time = lines[k].time]
                                    ELSE [@ EXCEPT !.text = lines[k].text]]
         /\ raced' = (raced \/ \E w \in Holding(k) : stage[w] = "claimed")
  /\ UNCHANGED <<writing, cursor, shown>>

Deliver ==
  /\ copy.done = CopyLength
  /\ LET v == View(copy, cursor) IN cursor' = v.cursor /\ shown' = shown \o v.out
  /\ copy' = NoCopy
  /\ UNCHANGED <<writing, raced>>

-----------------------------------------------------------------------------
Init ==
  /\ nextIndex = FirstIndex /\ lines = [k \in Slots |-> [time |-> Unset, text |-> Blank]]
  /\ stage = [w \in Writers |-> "idle"] /\ message = [w \in Writers |-> 0]
  /\ slot = [w \in Writers |-> 0] /\ clock = 0 /\ claimed = <<>>
  /\ copy = NoCopy /\ cursor = NoCursor /\ shown = <<>> /\ raced = FALSE

Write(w) ==
  Stamp(w) \/ Claim(w) \/ Clear(w) \/ Erase(w) \/ Format(w) \/ Publish(w)

Next == (\E w \in Writers : Write(w) \/ Killed(w)) \/ Fetch \/ Copy \/ Deliver

Spec == Init /\ [][Next]_vars

\* Writers that have begun go on; the log view keeps fetching on its timer.
FairSpec ==
  /\ Spec
  /\ \A w \in Writers : WF_vars(Write(w) /\ stage[w] # "idle")
  /\ WF_vars(Fetch) /\ WF_vars(Copy) /\ WF_vars(Deliver)

-----------------------------------------------------------------------------
(* Properties.                                                             *)

TypeOK ==
  /\ nextIndex \in 0 .. IndexRange - 1 /\ lines \in [Slots -> Line]
  /\ stage \in [Writers -> Stages] /\ message \in [Writers -> Messages \cup {0}]
  /\ slot \in [Writers -> Slots] /\ clock \in 0 .. MaxMessages
  /\ cursor \in Slots \cup {NoCursor}

\* "Race: More than MAX_LINES writers and this will clash": with no more writers
\* than lines, no two of them are at work on the same line.
WritersDoNotClash == \A k \in Slots : Cardinality(Holding(k)) <= 1

\* time_ns vouches for the text: a line whose time is set holds the whole text of
\* the message that was stamped with it, unless its slot is about to be reused.
LineIsWhole == \A k \in Slots : lines[k].time # Unset => lines[k].text = lines[k].time

\* Apart from the races the comments admit, and from being overrun, the log view
\* shows whole lines, in the order of their claims, none twice and none left out.
ShownInOrder ==
  raced \/ \E f \in 0 .. Len(claimed) - Len(shown) :
             \A i \in 1 .. Len(shown) :
               shown[i] = [time |-> claimed[f + i], text |-> claimed[f + i]]

Quiet == \A w \in Writers : stage[w] \in {"idle", "stamped"}

\* An export made while nobody writes holds the last messages in the order of
\* their claims, across the wrap of the ring and of the 32-bit index.
ExportIsTail ==
  Quiet => LET out  == Export([next |-> nextIndex, lines |-> lines])
               kept == IF Len(claimed) < MaxLines THEN Len(claimed) ELSE MaxLines
           IN  /\ Len(out) = kept
               /\ \A i \in 1 .. kept : out[i].text = claimed[Len(claimed) - kept + i]

\* Once the writers are done (none was killed half way) the log view has caught up
\* with them: it waits at the line that is written next.
CatchesUp == <>[](claimed # <<>> => cursor = SlotOf(nextIndex))
=============================================================================
