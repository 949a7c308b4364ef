----------------------------- MODULE DNSResolver -----------------------------
(***************************************************************************)
(* DNSResolver.resolveSync: the names among a configuration's endpoints    *)
(* are looked up on a concurrent queue, each look-up writes its place of   *)
(* one captured array, and the caller waits for all of them.  The writes   *)
(* are not synchronised, also not with those of the caller's loop: of      *)
(* writes that overlap each may be lost.                                   *)
(***************************************************************************)
EXTENDS Integers, Sequences

CONSTANTS
  EndpointLists,   \* lists of "none" (a peer without endpoint), "address", "name"
  Answers          \* what getaddrinfo may find: lists of "v4", "v6"; or NoAnswer

NoAnswer == <<"error">>

ASSUME ResolverAssumption ==
  /\ EndpointLists \subseteq Seq({"none", "address", "name"})
  /\ Answers \subseteq Seq({"v4", "v6", "error"}) /\ NoAnswer \in Answers

VARIABLES
  asked,       \* the endpoints
  answers,     \* what a look-up for each place will find
  index,       \* the place the caller's loop is at
  writing,     \* the places being written: by the caller or by a work item
  pending,     \* the places with a work item that has not finished
  overlapped,  \* the writes that were not alone
  resolved,    \* resolvedEndpoints, which is what is returned
  outcome

resolverVars == <<asked, answers, index, writing, pending, overlapped, resolved, outcome>>

Nil      == 0
Literal  == -1         \* an endpoint that had an address; others are places in the answer

Places == DOMAIN asked

\* The loop over the addresses found: it stops at the first IPv4 address, and of
\* IPv6 addresses the last one is kept.
Better(found, best, i) ==
  IF best # Nil /\ found[best] = "v4" THEN best
  ELSE IF found[i] \in {"v4", "v6"} THEN i ELSE best

Preferred(found) ==
  LET best[i \in 0..Len(found)] == IF i = 0 THEN Nil ELSE Better(found, best[i - 1], i)
  IN  best[Len(found)]

ResolverInit ==
  /\ asked \in EndpointLists /\ answers \in [DOMAIN asked -> Answers]
  /\ \A i \in DOMAIN asked : asked[i] # "name" => answers[i] = NoAnswer
  /\ index = 1 /\ writing = {} /\ pending = {} /\ overlapped = {}
  /\ resolved = [i \in DOMAIN asked |-> Nil]
  /\ outcome = "pending"

\* Nothing has to be looked up: the endpoints are returned as they are.
AllResolved ==
  /\ index = 1 /\ outcome = "pending" /\ \A i \in Places : asked[i] # "name"
  /\ resolved' = [i \in Places |-> IF asked[i] = "address" THEN Literal ELSE Nil]
  /\ outcome' = "endpoints"
  /\ UNCHANGED <<asked, answers, index, writing, pending, overlapped>>

IsLooping == index <= Len(asked) /\ \E i \in Places : asked[i] = "name"

BeginWrite(i) ==
  /\ writing' = writing \cup {i}
  /\ overlapped' = IF writing = {} THEN overlapped ELSE overlapped \cup writing \cup {i}

EndWrite(i, value) ==
  /\ i \in writing /\ writing' = writing \ {i}
  /\ resolved' \in {[resolved EXCEPT ![i] = value]}
                     \cup (IF i \in overlapped THEN {resolved} ELSE {})

\* The loop passes a peer without endpoint, or queues a work item for a name.
Pass ==
  /\ IsLooping /\ asked[index] # "address" /\ index' = index + 1
  /\ pending' = IF asked[index] = "name" THEN pending \cup {index} ELSE pending
  /\ UNCHANGED <<asked, answers, writing, overlapped, resolved, outcome>>

LoopBegins ==
  /\ IsLooping /\ asked[index] = "address" /\ index \notin writing
  /\ BeginWrite(index)
  /\ UNCHANGED <<asked, answers, index, pending, resolved, outcome>>

LoopEnds ==
  /\ IsLooping /\ EndWrite(index, Literal) /\ index' = index + 1
  /\ UNCHANGED <<asked, answers, pending, overlapped, outcome>>

\* A look-up has its answer; a nil is written like any other.
LookUpBegins(i) ==
  /\ i \in pending \ writing /\ BeginWrite(i)
  /\ UNCHANGED <<asked, answers, index, pending, resolved, outcome>>

LookUpEnds(i) ==
  /\ i \in pending /\ EndWrite(i, Preferred(answers[i])) /\ pending' = pending \ {i}
  /\ UNCHANGED <<asked, answers, index, overlapped, outcome>>

\* Mutant: the work items are not in the group.
WaitIsOverAtOnce == ~IsLooping /\ index > 1

\* dispatchGroup.wait() without a timeout.
WaitIsOver == ~IsLooping /\ index > 1 /\ pending = {}

\* A name without an address fails the call; an address that was lost has no host
\* name to report, which ends the process.
Collect ==
  LET missing == {i \in Places : asked[i] # "none" /\ resolved[i] = Nil} IN
  /\ WaitIsOver /\ outcome = "pending"
  /\ outcome' = IF \E i \in missing : asked[i] = "address" THEN "fatalError"
                ELSE IF missing # {} THEN "dnsResolutionFailure" ELSE "endpoints"
  /\ UNCHANGED <<asked, answers, index, writing, pending, overlapped, resolved>>

ResolverNext ==
  \/ AllResolved \/ Pass \/ LoopBegins \/ LoopEnds \/ Collect
  \/ \E i \in Places : LookUpBegins(i) \/ LookUpEnds(i)

ResolverSpec == ResolverInit /\ [][ResolverNext]_resolverVars
-----------------------------------------------------------------------------
\* The first IPv4 address or else the last IPv6 address, as a place in what was found.
Best(found) ==
  LET of(family) == {i \in DOMAIN found : found[i] = family} IN
  IF of("v4") # {} THEN CHOOSE i \in of("v4") : \A j \in of("v4") : i <= j
  ELSE IF of("v6") # {} THEN CHOOSE i \in of("v6") : \A j \in of("v6") : i >= j
  ELSE Nil

Expected(i) ==
  CASE asked[i] = "none" -> Nil
    [] asked[i] = "address" -> Literal
    [] OTHER -> Best(answers[i])

\* In whatever order the look-ups end, the endpoints returned are each peer's own, and
\* complete; the call fails only for a name without an address, or when writes of the
\* array overlapped, and only then can the process end.
ResolutionIsTrue ==
  /\ outcome = "fatalError" => overlapped # {}
  /\ outcome = "dnsResolutionFailure" =>
       overlapped # {} \/ \E i \in Places : asked[i] = "name" /\ Expected(i) = Nil
  /\ outcome = "endpoints" =>
       \A i \in Places : resolved[i] = Expected(i) /\ (asked[i] # "none" => resolved[i] # Nil)
=============================================================================
