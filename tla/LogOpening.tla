----------------------------- MODULE LogOpening -----------------------------
(***************************************************************************)
(* open_log and Logger.configureGlobal: the app and the extension open the *)
(* same log file when their processes start, and the one that does not     *)
(* find the magic number clears the file.  Nothing keeps two of them, or   *)
(* one and a writer, apart, and any process may be killed.  A message is a *)
(* number; how a line is written is the subject of RingLogger, here a      *)
(* write is its claim and its store.                                       *)
(***************************************************************************)
EXTENDS Integers

CONSTANTS
  Processes,
  LogLines,      \* MAX_LINES
  MaxLogged,     \* bound on the messages, at most LogLines: none is lost to the wrap
  MaxStarts      \* bound on the processes' starts

ASSUME LogAssumption == LogLines \in Nat \ {0} /\ MaxLogged \in 0..LogLines /\ MaxStarts \in Nat

VARIABLES
  log,        \* the file: next_index modulo LogLines, lines, and whether magic is MAGIC
  process,    \* per process: how far its open_log is, and the message being written
  starts,     \* starts so far
  logged,     \* messages so far
  settled,    \* history: the messages claimed since the log has settled
  returned    \* history: the messages whose call has returned

openingVars == <<log, process, starts, logged, settled, returned>>

Slots == 0..LogLines - 1
NextIndex == -1
Magic == -2      \* the file's fields beside its lines, for memset
Blank == 0
Closed == [stage |-> "closed", uncleared |-> {}, message |-> 0, slot |-> 0]

\* The file is new, whole, or was left unfinished; what it held before does not matter.
OpeningInit ==
  /\ log \in [next : Slots, lines : {[k \in Slots |-> Blank]}, magic : BOOLEAN]
  /\ process = [p \in Processes |-> Closed]
  /\ starts = 0 /\ logged = 0 /\ settled = {} /\ returned = {}

\* Mutant: the file is cleared whatever its magic.
NeverInitialised == FALSE

Initialised == log.magic

\* open_log up to the test of the magic, once for each p: when the app, which has its logger
\* open, opens the log again for its log view (LogViewHelper.swift:30), that is an opening like
\* another process's.  An open that fails leaves everything as it was.
OpenLog(p) ==
  /\ process[p].stage = "closed" /\ starts < MaxStarts /\ starts' = starts + 1
  /\ process' = [process EXCEPT ![p] =
       IF Initialised THEN [@ EXCEPT !.stage = "open"]
       ELSE [@ EXCEPT !.stage = "clearing", !.uncleared = Slots \cup {NextIndex, Magic}]]
  /\ UNCHANGED <<log, logged, settled, returned>>

\* memset, in whatever order, while others may write.
Clear(p) ==
  /\ \E field \in process[p].uncleared :
       /\ process' = [process EXCEPT ![p].uncleared = @ \ {field}]
       /\ log' = CASE field = NextIndex -> [log EXCEPT !.next = 0]
                   [] field = Magic     -> [log EXCEPT !.magic = FALSE]
                   [] OTHER             -> [log EXCEPT !.lines[field] = Blank]
  /\ UNCHANGED <<starts, logged, settled, returned>>

SetMagic(p) ==
  /\ process[p].stage = "clearing" /\ process[p].uncleared = {}
  /\ process' = [process EXCEPT ![p].stage = "open"]
  /\ log' = [log EXCEPT !.magic = TRUE]
  /\ UNCHANGED <<starts, logged, settled, returned>>

\* The magic is set, nobody who has found it unset is still at it, and nobody writes on a
\* claim from before.
Settled ==
  /\ log.magic
  /\ \A p \in Processes : /\ process[p].stage # "clearing"
                          /\ process[p].message \in settled \cup {0}

\* write_msg_to_log: the claim of a line.
Claim(p) ==
  /\ process[p].stage = "open" /\ process[p].message = 0
  /\ logged < MaxLogged /\ logged' = logged + 1
  /\ process' = [process EXCEPT ![p] = [@ EXCEPT !.message = logged + 1, !.slot = log.next]]
  /\ log' = [log EXCEPT !.next = (log.next + 1) % LogLines]
  /\ settled' = IF Settled THEN settled \cup {logged + 1} ELSE settled
  /\ UNCHANGED <<starts, returned>>

\* Its line is written, and the call returns.
Store(p) ==
  /\ process[p].message # 0
  /\ log' = [log EXCEPT !.lines[process[p].slot] = process[p].message]
  /\ returned' = returned \cup {process[p].message}
  /\ process' = [process EXCEPT ![p] = [@ EXCEPT !.message = 0, !.slot = 0]]
  /\ UNCHANGED <<starts, logged, settled>>

\* A process is killed, or exits; the file stays.
ProcessKilled(p) ==
  /\ process[p].stage # "closed"
  /\ process' = [process EXCEPT ![p] = Closed]
  /\ UNCHANGED <<log, starts, logged, settled, returned>>

OpeningNext ==
  \E p \in Processes : OpenLog(p) \/ Clear(p) \/ SetMagic(p) \/ Claim(p) \/ Store(p) \/ ProcessKilled(p)

OpeningSpec == OpeningInit /\ [][OpeningNext]_openingVars
-----------------------------------------------------------------------------
\* Once a log has settled, no opening, restart or late writer takes a message out of it
\* again: every message whose write began since then, and has returned, is in the file.
\* Before that any may be lost, to an opener that has read the magic too early, to one that
\* finds what a killed one has left, or to a writer whose line was claimed before the index
\* was cleared.
SettledLogIsKept == settled \cap returned \subseteq {log.lines[k] : k \in Slots}
=============================================================================
