----------------------------- MODULE PartsProofs -----------------------------
(***************************************************************************)
(* Six small parts, of which MCParts explores instances.                   *)
(*                                                                         *)
(* The resolver: the endpoints of a start are each peer's own, for every   *)
(* number of peers and whatever the look-ups find, in whatever order.      *)
(*                                                                         *)
(* The opening of the log: a log that has settled keeps its messages, for  *)
(* every set of processes and every size of the log.  Once nobody is       *)
(* clearing the file and nobody writes on a claim from before, the claims  *)
(* since then are consecutive, so that a message's line follows from its   *)
(* number: that is what the invariant says.                                *)
(*                                                                         *)
(* The on-demand option: the rules say what the option says, and give it   *)
(* back, for every set of SSIDs.  Option and rules are always those of one *)
(* another, so that both are facts about each option's rules.              *)
(*                                                                         *)
(* The recent tunnels: those that have not been deleted behind the app's   *)
(* back stand in the order of their activations, and a tunnel that is not  *)
(* in the list is older than all of them, for every limit of the list.     *)
(*                                                                         *)
(* The import: one that ends without an alert has added everything, for    *)
(* any files.  What has been added is compared, at every link of the chain *)
(* of addMultiple, with the beginning of what was to be added: as long as  *)
(* no link has failed they are equal.                                      *)
(*                                                                         *)
(* The highlighter: all that can be seen of a text is marked, once, for    *)
(* every text.  After each token all is marked but for the piece that is   *)
(* being read, which begins after the marks and ends with the token or     *)
(* with blanks: that is what the invariant says.                           *)
(***************************************************************************)
EXTENDS OnDemandOption, DNSResolver, LogOpening, RecentTunnels, TunnelImporter, Highlighter,
        NumberLemmas, SequenceTheorems, FiniteSetTheorems, TLAPS

\* Of the first n addresses found, b is the one that is preferred.
IsBest(found, n, b) ==
  LET none(family, places) == \A i \in places : found[i] # family IN
  \/ b = Nil /\ none("v4", 1..n) /\ none("v6", 1..n)
  \/ b \in 1..n /\ found[b] = "v4" /\ none("v4", 1..b - 1)
  \/ b \in 1..n /\ found[b] = "v6" /\ none("v4", 1..n) /\ none("v6", b + 1..n)

-----------------------------------------------------------------------------
(* The loop over the addresses found.                                      *)

\* There is at most one that is preferred.
LEMMA OneBest ==
  ASSUME NEW found, NEW n \in Nat, NEW b, NEW c, IsBest(found, n, b), IsBest(found, n, c)
  PROVE  b = c
BY DEF IsBest, Nil

\* The loop goes from the one preferred so far to the one preferred with the next address.
LEMMA StepIsBest ==
  ASSUME NEW found, NEW n \in Nat, NEW b, IsBest(found, n, b)
  PROVE  IsBest(found, n + 1, Better(found, b, n + 1))
<1>1. CASE b # Nil /\ found[b] = "v4"
  BY <1>1 DEF IsBest, Better, Nil
<1>2. CASE ~(b # Nil /\ found[b] = "v4") /\ found[n + 1] = "v4"
  BY <1>2 DEF IsBest, Better, Nil
<1>3. CASE ~(b # Nil /\ found[b] = "v4") /\ found[n + 1] = "v6"
  BY <1>3 DEF IsBest, Better, Nil
<1>4. CASE ~(b # Nil /\ found[b] = "v4") /\ found[n + 1] \notin {"v4", "v6"}
  BY <1>4 DEF IsBest, Better, Nil
<1> QED
  BY <1>1, <1>2, <1>3, <1>4

LEMMA NoneIsBest == ASSUME NEW found PROVE IsBest(found, 0, Nil)
BY DEF IsBest

LEMMA SomeIsBest ==
  ASSUME NEW found, NEW n \in Nat
  PROVE  \E b : IsBest(found, n, b)
<1> DEFINE S == {i \in Nat : \E b : IsBest(found, i, b)}
<1>1. 0 \in S
  BY NoneIsBest
<1>2. \A i \in Nat : i \in S => i + 1 \in S
  BY StepIsBest
<1> HIDE DEF S
<1>3. n \in S
  BY <1>1, <1>2, Induction
<1> QED
  BY <1>3 DEF S

\* The loop's variable has a value at every address.
LEMMA LoopIsDefined ==
  ASSUME NEW found, NEW n \in Nat
  PROVE  \E best : best = [i \in 0..n |-> IF i = 0 THEN Nil ELSE Better(found, best[i - 1], i)]
<1>1. PICK best : best = [i \in 0..n |-> CHOOSE b : IsBest(found, i, b)]
  OBVIOUS
<1>2. \A i \in 0..n : IsBest(found, i, best[i])
  BY <1>1, SomeIsBest
<1>3. ASSUME NEW i \in 0..n
      PROVE  best[i] = IF i = 0 THEN Nil ELSE Better(found, best[i - 1], i)
  <2>1. CASE i = 0
    BY <1>2, <2>1, NoneIsBest, OneBest
  <2>2. CASE i # 0
    <3>1. i - 1 \in Nat /\ i \in Nat /\ i - 1 + 1 = i /\ i - 1 \in 0..n
      BY <2>2
    <3>2. IsBest(found, i, Better(found, best[i - 1], i))
      BY <1>2, <3>1, StepIsBest
    <3> QED
      BY <1>2, <2>2, <3>1, <3>2, OneBest
  <2> QED
    BY <2>1, <2>2
<1> QED
  BY <1>1, <1>3

LEMMA PreferredIsBest ==
  ASSUME NEW found, Len(found) \in Nat
  PROVE  IsBest(found, Len(found), Preferred(found))
<1>1. PICK n : n = Len(found)
  OBVIOUS
<1> DEFINE IsLoop(best) == best = [i \in 0..n |-> IF i = 0 THEN Nil ELSE Better(found, best[i - 1], i)]
<1>2. PICK best : best = CHOOSE f : IsLoop(f)
  OBVIOUS
<1>3. IsLoop(best)
  BY <1>1, <1>2, LoopIsDefined
<1>4. Preferred(found) = best[n]
  BY <1>1, <1>2 DEF Preferred
<1> DEFINE S == {i \in Nat : i <= n => IsBest(found, i, best[i])}
<1>5. 0 \in S
  BY <1>1, <1>3, NoneIsBest
<1>6. ASSUME NEW i \in Nat, i \in S PROVE i + 1 \in S
  <2>1. SUFFICES ASSUME i + 1 <= n PROVE IsBest(found, i + 1, best[i + 1])
    OBVIOUS
  <2>2. best[i + 1] = Better(found, best[i], i + 1)
    BY <1>1, <1>3, <2>1
  <2> QED
    BY <1>1, <1>6, <2>1, <2>2, StepIsBest
<1> HIDE DEF S
<1>7. n \in S
  BY <1>1, <1>5, <1>6, Induction
<1> QED
  BY <1>1, <1>4, <1>7 DEF S

\* What the loop ends with is the first IPv4 address, or else the last IPv6 address.
THEOREM LoopFindsBest ==
  ASSUME NEW found, Len(found) \in Nat, DOMAIN found = 1..Len(found)
  PROVE  Preferred(found) = Best(found)
<1> DEFINE of(family) == {i \in DOMAIN found : found[i] = family}
<1>1. PICK n, b : n = Len(found) /\ b = Preferred(found)
  OBVIOUS
<1>2. n \in Nat /\ DOMAIN found = 1..n /\ IsBest(found, n, b)
  BY <1>1, PreferredIsBest
<1>3. CASE b = Nil /\ \A i \in 1..n : found[i] \notin {"v4", "v6"}
  <2>1. of("v4") = {} /\ of("v6") = {}
    BY <1>2, <1>3
  <2> QED
    BY <1>1, <1>3, <2>1 DEF Best
<1>4. CASE b \in 1..n /\ found[b] = "v4" /\ \A i \in 1..b - 1 : found[i] # "v4"
  <2>1. b \in of("v4") /\ \A j \in of("v4") : b <= j
    BY <1>2, <1>4
  <2>2. \A c \in of("v4") : (\A j \in of("v4") : c <= j) => c = b
    BY <1>2, <1>4, <2>1
  <2> QED
    BY <1>1, <2>1, <2>2 DEF Best
<1>5. CASE /\ b \in 1..n /\ found[b] = "v6" /\ \A i \in 1..n : found[i] # "v4"
           /\ \A i \in b + 1..n : found[i] # "v6"
  <2>1. of("v4") = {} /\ b \in of("v6") /\ \A j \in of("v6") : b >= j
    BY <1>2, <1>5
  <2>2. \A c \in of("v6") : (\A j \in of("v6") : c >= j) => c = b
    BY <1>2, <1>5, <2>1
  <2> QED
    BY <1>1, <2>1, <2>2 DEF Best
<1> QED
  BY <1>2, <1>3, <1>4, <1>5 DEF IsBest

-----------------------------------------------------------------------------
(* The look-ups.                                                           *)

ResolverTypeOK ==
  /\ asked \in EndpointLists /\ answers \in [Places -> Answers]
  /\ index \in 1..Len(asked) + 1 /\ resolved \in [Places -> Int]
  /\ outcome \in {"pending", "endpoints", "fatalError", "dnsResolutionFailure"}

\* Writes under way are those of the loop at its place and of work items, and the loop has
\* left its first place only where there is a name.
Writers ==
  /\ pending \subseteq {i \in Places : i < index /\ asked[i] = "name"}
  /\ \A i \in writing : i \in pending \/ (i = index /\ i \in Places /\ asked[i] = "address")
  /\ index > 1 => \E i \in Places : asked[i] = "name"

IsWritten(i) == i < index /\ i \notin pending

\* A place is empty until it is written, and then has its own endpoint unless its write
\* overlapped with another.
OwnOrEmpty == \A i \in Places :
  \/ resolved[i] = Expected(i) /\ IsWritten(i)
  \/ resolved[i] = Nil /\ (IsWritten(i) => i \in overlapped)

ResolverInv ==
  /\ ResolverTypeOK /\ Writers
  /\ IF outcome = "pending" THEN OwnOrEmpty ELSE ~IsLooping /\ pending = {} /\ ResolutionIsTrue

LEMMA AskedIsList ==
  ASSUME ResolverTypeOK
  PROVE  /\ Len(asked) \in Nat /\ Places = 1..Len(asked)
         /\ \A i \in Places : /\ asked[i] \in {"none", "address", "name"} /\ Expected(i) \in Int
                              /\ asked[i] = "name" => Preferred(answers[i]) = Expected(i)
<1>1. asked \in Seq({"none", "address", "name"})
  BY ResolverAssumption DEF ResolverTypeOK
<1>2. Len(asked) \in Nat /\ Places = 1..Len(asked) /\ \A i \in Places : asked[i] \in {"none", "address", "name"}
  BY <1>1 DEF Places
<1>3. ASSUME NEW i \in Places PROVE Preferred(answers[i]) = Best(answers[i]) /\ Best(answers[i]) \in Int
  <2>1. PICK found : found = answers[i]
    OBVIOUS
  <2>2. found \in Seq({"v4", "v6", "error"})
    BY <2>1, ResolverAssumption DEF ResolverTypeOK
  <2>3. Len(found) \in Nat /\ DOMAIN found = 1..Len(found)
    BY <2>2
  <2>4. IsBest(found, Len(found), Preferred(found)) /\ Preferred(found) = Best(found)
    BY <2>3, PreferredIsBest, LoopFindsBest
  <2>5. Preferred(found) \in Int
    BY <2>3, <2>4 DEF IsBest, Nil
  <2> QED
    BY <2>1, <2>4, <2>5
<1> QED
  BY <1>2, <1>3 DEF Expected, Nil, Literal

LEMMA ResolverInitInv == ResolverInit => ResolverInv
<1> SUFFICES ASSUME ResolverInit PROVE ResolverInv
  OBVIOUS
<1>1. asked \in Seq({"none", "address", "name"})
  BY ResolverAssumption DEF ResolverInit
<1>2. ResolverTypeOK
  BY <1>1 DEF ResolverInit, ResolverTypeOK, Places, Nil
<1>3. Writers /\ OwnOrEmpty
  BY <1>1 DEF ResolverInit, Writers, OwnOrEmpty, Places, IsWritten
<1> QED
  BY <1>2, <1>3 DEF ResolverInit, ResolverInv

\* Nothing has to be looked up.
LEMMA AllResolvedInv ==
  ASSUME ResolverInv, AllResolved
  PROVE  ResolverInv'
<1>1. /\ index' = index /\ asked' = asked /\ answers' = answers /\ pending' = pending
      /\ writing' = writing /\ overlapped' = overlapped /\ outcome' = "endpoints" /\ index = 1
      /\ \A i \in Places : asked[i] # "name"
  BY DEF AllResolved
<1>2. Places = 1..Len(asked) /\ \A i \in Places : asked[i] \in {"none", "address"}
  BY <1>1, AskedIsList DEF ResolverInv
<1>3. resolved' \in [Places -> Int] /\ \A i \in Places : resolved'[i] = Expected(i)
  BY <1>1, <1>2 DEF AllResolved, Expected, Nil, Literal
<1>4. ResolverTypeOK'
  BY <1>1, <1>3 DEF ResolverInv, ResolverTypeOK, Places
<1>5. Writers' /\ pending' = {}
  BY <1>1 DEF ResolverInv, Writers, Places
<1>6. ~IsLooping'
  BY <1>1 DEF IsLooping, Places
<1>7. ResolutionIsTrue'
  BY <1>1, <1>2, <1>3 DEF ResolutionIsTrue, Expected, Places, Nil, Literal
<1> QED
  BY <1>1, <1>4, <1>5, <1>6, <1>7 DEF ResolverInv

\* What a step of the loop or of a look-up leaves alone: it is taken before the call ends.
LEMMA StepInv ==
  ASSUME ResolverInv, outcome = "pending", UNCHANGED <<asked, answers, outcome>>,
         index' \in 1..Len(asked) + 1, resolved' \in [Places -> Int], Writers',
         \A i \in Places : \/ resolved'[i] = Expected(i) /\ IsWritten(i)'
                           \/ resolved'[i] = Nil /\ (IsWritten(i)' => i \in overlapped')
  PROVE  ResolverInv'
<1>1. Places' = Places /\ \A i : Expected(i)' = Expected(i)
  BY DEF Places, Expected
<1>2. OwnOrEmpty'
  BY <1>1 DEF OwnOrEmpty
<1>3. ResolverTypeOK'
  BY <1>1 DEF ResolverInv, ResolverTypeOK
<1> QED
  BY <1>2, <1>3 DEF ResolverInv

\* The loop and the look-ups run until the call ends.
LEMMA LoopingIsPending ==
  ASSUME ResolverInv, IsLooping \/ pending # {}
  PROVE  outcome = "pending" /\ OwnOrEmpty /\ Writers
BY DEF ResolverInv

LEMMA PassInv ==
  ASSUME ResolverInv, Pass
  PROVE  ResolverInv'
<1>1. outcome = "pending" /\ OwnOrEmpty /\ Writers
  BY LoopingIsPending DEF Pass
<1>2. /\ index' = index + 1 /\ index \in Places /\ asked[index] # "address" /\ index' \in 1..Len(asked) + 1
      /\ index \in Nat /\ Places = 1..Len(asked) /\ \E i \in Places : asked[i] = "name"
      /\ UNCHANGED <<asked, answers, writing, overlapped, resolved, outcome>>
      /\ resolved \in [Places -> Int]
  BY AskedIsList DEF Pass, IsLooping, ResolverInv, ResolverTypeOK
<1>3. asked[index] # "name" => asked[index] = "none" /\ Expected(index) = Nil
  BY <1>2, AskedIsList DEF ResolverInv, Expected
<1>4. pending' = IF asked[index] = "name" THEN pending \cup {index} ELSE pending
  BY DEF Pass
<1>5. Writers'
  <2>1. pending' \subseteq {i \in Places : i < index' /\ asked[i] = "name"}
    BY <1>1, <1>2, <1>4 DEF Writers
  <2>2. \A i \in writing : i \in pending
    BY <1>1, <1>2 DEF Writers
  <2> QED
    BY <1>2, <1>4, <2>1, <2>2 DEF Writers, Places
<1>6. ASSUME NEW i \in Places
      PROVE  \/ resolved'[i] = Expected(i) /\ IsWritten(i)'
             \/ resolved'[i] = Nil /\ (IsWritten(i)' => i \in overlapped')
  <2>1. CASE i = index
    BY <1>1, <1>2, <1>3, <1>4, <2>1 DEF OwnOrEmpty, IsWritten
  <2>2. CASE i # index
    <3>1. IsWritten(i)' <=> IsWritten(i)
      BY <1>2, <1>4, <2>2 DEF IsWritten
    <3> QED
      BY <1>1, <1>2, <3>1 DEF OwnOrEmpty
  <2> QED
    BY <2>1, <2>2
<1> QED
  BY <1>1, <1>2, <1>5, <1>6, StepInv

LEMMA BeginInv ==
  ASSUME ResolverInv, NEW i, BeginWrite(i), IsLooping \/ pending # {},
         i \in pending \/ (i = index /\ i \in Places /\ asked[i] = "address"),
         UNCHANGED <<asked, answers, index, pending, resolved, outcome>>
  PROVE  ResolverInv'
<1>1. outcome = "pending" /\ OwnOrEmpty /\ Writers
  BY LoopingIsPending
<1>2. overlapped \subseteq overlapped' /\ writing' = writing \cup {i}
  BY DEF BeginWrite
<1>3. Writers'
  BY <1>1, <1>2 DEF Writers, Places
<1>4. ASSUME NEW j \in Places
      PROVE  \/ resolved'[j] = Expected(j) /\ IsWritten(j)'
             \/ resolved'[j] = Nil /\ (IsWritten(j)' => j \in overlapped')
  BY <1>1, <1>2 DEF OwnOrEmpty, IsWritten
<1> QED
  BY <1>1, <1>3, <1>4, StepInv DEF ResolverInv, ResolverTypeOK

\* A write that ends leaves its place's own endpoint, or what was there when it overlapped.
LEMMA EndInv ==
  ASSUME ResolverInv, NEW i \in Places, EndWrite(i, Expected(i)), IsLooping \/ pending # {},
         ~IsWritten(i), IsWritten(i)', \A j \in Places \ {i} : IsWritten(j)' <=> IsWritten(j),
         UNCHANGED <<asked, answers, overlapped, outcome>>, index' \in 1..Len(asked) + 1,
         Writers'
  PROVE  ResolverInv'
<1>1. outcome = "pending" /\ OwnOrEmpty /\ Writers
  BY LoopingIsPending
<1>2. resolved \in [Places -> Int] /\ Expected(i) \in Int
  BY AskedIsList DEF ResolverInv, ResolverTypeOK
<1>3. \/ resolved' = [resolved EXCEPT ![i] = Expected(i)]
      \/ resolved' = resolved /\ i \in overlapped
  BY DEF EndWrite
<1>4. ASSUME NEW j \in Places
      PROVE  \/ resolved'[j] = Expected(j) /\ IsWritten(j)'
             \/ resolved'[j] = Nil /\ (IsWritten(j)' => j \in overlapped')
  <2>1. CASE j = i
    BY <1>1, <1>2, <1>3, <2>1 DEF OwnOrEmpty
  <2>2. CASE j # i
    BY <1>1, <1>2, <1>3, <2>2 DEF OwnOrEmpty
  <2> QED
    BY <2>1, <2>2
<1>5. resolved' \in [Places -> Int]
  BY <1>2, <1>3
<1> QED
  BY <1>1, <1>4, <1>5, StepInv

LEMMA LoopEndsInv ==
  ASSUME ResolverInv, LoopEnds
  PROVE  ResolverInv'
<1>1. outcome = "pending" /\ OwnOrEmpty /\ Writers
  BY LoopingIsPending DEF LoopEnds
<1>2. /\ index \in writing /\ writing' = writing \ {index} /\ index' = index + 1 /\ EndWrite(index, Literal)
      /\ UNCHANGED <<asked, answers, pending, overlapped, outcome>>
      /\ \E i \in Places : asked[i] = "name"
  BY DEF LoopEnds, EndWrite, IsLooping
<1>3. /\ index \in Nat /\ Places = 1..Len(asked) /\ index' \in 1..Len(asked) + 1 /\ index \in Places
      /\ index \notin pending /\ asked[index] = "address"
  BY <1>1, <1>2, AskedIsList DEF LoopEnds, IsLooping, ResolverInv, ResolverTypeOK, Writers
<1>4. Expected(index) = Literal
  BY <1>3 DEF Expected
<1>5. Writers'
  <2>1. pending' \subseteq {i \in Places : i < index' /\ asked[i] = "name"}
    BY <1>1, <1>2, <1>3 DEF Writers
  <2>2. \A i \in writing' : i \in pending
    BY <1>1, <1>2 DEF Writers
  <2> QED
    BY <1>2, <2>1, <2>2 DEF Writers, Places
<1>6. ~IsWritten(index)
  BY <1>3 DEF IsWritten
<1>7. \A j \in Places : IsWritten(j)' <=> IsWritten(j) \/ j = index
  BY <1>2, <1>3 DEF IsWritten
<1>8. PICK i \in Places : i = index
  BY <1>3
<1>9. EndWrite(i, Expected(i)) /\ ~IsWritten(i)
  BY <1>2, <1>4, <1>6, <1>8
<1>10. IsWritten(i)' /\ \A j \in Places \ {i} : IsWritten(j)' <=> IsWritten(j)
  BY <1>7, <1>8
<1> QED
  BY <1>2, <1>3, <1>5, <1>9, <1>10, EndInv DEF LoopEnds

LEMMA LookUpEndsInv ==
  ASSUME ResolverInv, NEW i \in Places, LookUpEnds(i)
  PROVE  ResolverInv'
<1>1. outcome = "pending" /\ OwnOrEmpty /\ Writers
  BY LoopingIsPending DEF LookUpEnds
<1>2. /\ i \in writing /\ writing' = writing \ {i} /\ index' = index /\ pending' = pending \ {i}
      /\ EndWrite(i, Preferred(answers[i])) /\ i \in pending
      /\ UNCHANGED <<asked, answers, overlapped, outcome>>
  BY DEF LookUpEnds, EndWrite
<1>3. asked[i] = "name" /\ i < index
  BY <1>1, <1>2 DEF Writers
<1>4. EndWrite(i, Expected(i))
  BY <1>2, <1>3, AskedIsList DEF ResolverInv
<1>5. Writers'
  BY <1>1, <1>2, <1>3 DEF Writers, Places
<1>6. ~IsWritten(i)
  BY <1>2 DEF IsWritten
<1>7. IsWritten(i)' /\ \A j \in Places \ {i} : IsWritten(j)' <=> IsWritten(j)
  BY <1>2, <1>3 DEF IsWritten
<1>8. index' \in 1..Len(asked) + 1
  BY <1>2 DEF ResolverInv, ResolverTypeOK
<1> QED
  BY <1>2, <1>4, <1>5, <1>6, <1>7, <1>8, EndInv

\* When the wait is over every place has been written.
LEMMA CollectInv ==
  ASSUME ResolverInv, Collect
  PROVE  ResolverInv'
<1> DEFINE missing == {i \in Places : asked[i] # "none" /\ resolved[i] = Nil}
<1>1. /\ ~IsLooping /\ index > 1 /\ pending = {} /\ outcome = "pending"
      /\ UNCHANGED <<asked, answers, index, writing, pending, overlapped, resolved>>
      /\ outcome' = IF \E i \in missing : asked[i] = "address" THEN "fatalError"
                    ELSE IF missing # {} THEN "dnsResolutionFailure" ELSE "endpoints"
  BY DEF Collect, WaitIsOver
<1>2. OwnOrEmpty /\ Writers /\ ResolverTypeOK
  BY <1>1 DEF ResolverInv
<1>3. \A i \in Places : IsWritten(i)
  BY <1>1, <1>2, AskedIsList DEF ResolverTypeOK, IsWritten, IsLooping, Writers
<1>4. \A i \in Places : resolved[i] = Expected(i) \/ (resolved[i] = Nil /\ i \in overlapped)
  BY <1>2, <1>3 DEF OwnOrEmpty
<1>5. \A i \in Places : /\ asked[i] \in {"none", "address", "name"}
                        /\ asked[i] = "none" => Expected(i) = Nil
                        /\ asked[i] = "address" => Expected(i) # Nil
  BY <1>2, AskedIsList DEF Expected, Nil, Literal
<1>6. ASSUME \E i \in missing : asked[i] = "address" PROVE ResolutionIsTrue'
  <2>1. outcome' = "fatalError" /\ overlapped' = overlapped
    BY <1>1, <1>6
  <2>2. overlapped # {}
    BY <1>4, <1>5, <1>6
  <2> QED
    BY <2>1, <2>2 DEF ResolutionIsTrue
<1>7. ASSUME missing # {}, ~\E i \in missing : asked[i] = "address" PROVE ResolutionIsTrue'
  <2>1. outcome' = "dnsResolutionFailure"
    BY <1>1, <1>7
  <2>2. overlapped # {} \/ \E i \in Places : asked[i] = "name" /\ Expected(i) = Nil
    BY <1>4, <1>5, <1>7
  <2>3. (overlapped # {} \/ \E i \in Places : asked[i] = "name" /\ Expected(i) = Nil)'
    BY <1>1, <2>2 DEF Expected, Places
  <2> QED
    BY <2>1, <2>3 DEF ResolutionIsTrue
<1>8. ASSUME missing = {} PROVE ResolutionIsTrue'
  <2>1. outcome' = "endpoints"
    BY <1>1, <1>8
  <2>2. \A i \in Places : resolved[i] = Expected(i) /\ (asked[i] # "none" => resolved[i] # Nil)
    BY <1>4, <1>5, <1>8
  <2>3. (\A i \in Places : resolved[i] = Expected(i) /\ (asked[i] # "none" => resolved[i] # Nil))'
    BY <1>1, <2>2 DEF Expected, Places
  <2> QED
    BY <2>1, <2>3 DEF ResolutionIsTrue
<1>9. ResolutionIsTrue'
  BY <1>6, <1>7, <1>8
<1>10. ResolverTypeOK' /\ Writers'
  BY <1>1, <1>2 DEF ResolverTypeOK, Writers, Places
<1>11. ~IsLooping' /\ pending' = {} /\ outcome' # "pending"
  BY <1>1 DEF IsLooping, Places
<1> QED
  BY <1>9, <1>10, <1>11 DEF ResolverInv
-----------------------------------------------------------------------------
(* Every behaviour.                                                        *)

LEMMA ResolverNextInv == ResolverInv /\ [ResolverNext]_resolverVars => ResolverInv'
<1> SUFFICES ASSUME ResolverInv, [ResolverNext]_resolverVars PROVE ResolverInv'
  OBVIOUS
<1>1. CASE AllResolved
  BY <1>1, AllResolvedInv
<1>2. CASE Pass
  BY <1>2, PassInv
<1>3. CASE LoopBegins
  <2>1. PICK i : i = index
    OBVIOUS
  <2>2. i \in Places /\ BeginWrite(i) /\ IsLooping /\ asked[i] = "address"
    BY <1>3, <2>1, AskedIsList DEF LoopBegins, IsLooping, ResolverInv, ResolverTypeOK
  <2> QED
    BY <1>3, <2>1, <2>2, BeginInv DEF LoopBegins
<1>4. CASE LoopEnds
  BY <1>4, LoopEndsInv
<1>5. CASE Collect
  BY <1>5, CollectInv
<1>6. ASSUME NEW i \in Places, LookUpBegins(i) PROVE ResolverInv'
  BY <1>6, BeginInv DEF LookUpBegins
<1>7. ASSUME NEW i \in Places, LookUpEnds(i) PROVE ResolverInv'
  BY <1>7, LookUpEndsInv
<1>8. CASE UNCHANGED resolverVars
  BY <1>8 DEF resolverVars, ResolverInv, ResolverTypeOK, Writers, OwnOrEmpty, IsWritten, IsLooping,
              ResolutionIsTrue, Expected, Places
<1> QED
  BY <1>1, <1>2, <1>3, <1>4, <1>5, <1>6, <1>7, <1>8 DEF ResolverNext

\* Every place is empty until it is written, and then has its own endpoint unless its write
\* overlapped with another.
THEOREM ResolverInvariant == ResolverSpec => []ResolverInv
<1> QED
  BY ResolverInitInv, ResolverNextInv, PTL DEF ResolverSpec

\* However many peers there are and whatever is found for their names, in whatever order:
\* what resolveSync returns is each peer's own endpoint, and it fails only for a name
\* without an address or where writes of the array overlapped.
THEOREM ResolutionsAreTrue == ResolverSpec => []ResolutionIsTrue
<1>1. ResolverInv => ResolutionIsTrue
  BY DEF ResolverInv, ResolutionIsTrue
<1> QED
  BY <1>1, ResolverInvariant, PTL

-----------------------------------------------------------------------------
\* A process, when so many messages have been claimed.
ProcessStates(claims) ==
  [stage : {"closed", "clearing", "open"}, uncleared : SUBSET (Slots \cup {NextIndex, Magic}),
   message : 0..claims, slot : Slots]

OpeningTypeOK ==
  /\ log \in [next : Slots, lines : [Slots -> 0..MaxLogged], magic : BOOLEAN]
  /\ process \in [Processes -> ProcessStates(logged)]
  /\ starts \in 0..MaxStarts /\ logged \in 0..MaxLogged
  /\ settled \in SUBSET (1..logged) /\ returned \in SUBSET (1..logged)

\* The line of the k-th message, counted back from the next one to be claimed.
LineOf(k) ==
  LET back == logged + 1 - k
  IN  IF back <= log.next THEN log.next - back ELSE log.next - back + LogLines

\* Whoever clears the file has something left to clear, or sets the magic next.
Clearing == \A p \in Processes : process[p].uncleared # {} => process[p].stage = "clearing"

\* A write under way has the line of its message, and what was written is in its line.
HasLine(p) == process[p].message # 0 => process[p].slot = LineOf(process[p].message)

IsKept(k) == log.lines[LineOf(k)] = k

SettledClaims ==
  /\ Settled /\ (\A p \in Processes : HasLine(p))
  /\ \A k \in settled \cap returned : IsKept(k)

OpeningInv == OpeningTypeOK /\ Clearing /\ (settled # {} => SettledClaims)

-----------------------------------------------------------------------------
(* Lines and messages.                                                     *)

\* The index of the log goes round.
LEMMA NextSlot ==
  ASSUME NEW i \in Slots
  PROVE  /\ (i + 1) % LogLines = IF i = LogLines - 1 THEN 0 ELSE i + 1
         /\ (i + 1) % LogLines \in Slots
BY LogAssumption, SMT DEF Slots

\* No two of the messages there can be have one line.
LEMMA LinesDiffer ==
  ASSUME OpeningTypeOK, NEW j \in 1..logged, NEW k \in 1..logged, LineOf(j) = LineOf(k)
  PROVE  j = k
<1>1. log.next \in 0..LogLines - 1 /\ logged \in 0..LogLines /\ LogLines \in Nat
  BY LogAssumption DEF OpeningTypeOK, Slots
<1> QED
  BY <1>1 DEF LineOf

\* The line of a message is one of the log.
LEMMA LineIsSlot ==
  ASSUME OpeningTypeOK, NEW k \in 1..logged
  PROVE  LineOf(k) \in Slots
<1>1. log.next \in 0..LogLines - 1 /\ logged \in 0..LogLines /\ LogLines \in Nat
  BY LogAssumption DEF OpeningTypeOK, Slots
<1> QED
  BY <1>1 DEF LineOf, Slots

\* A claim moves the index and the number of messages together: the lines of the messages
\* so far stay, and the new message has the line that was next.
LEMMA ClaimKeepsLines ==
  ASSUME OpeningTypeOK, logged < MaxLogged, logged' = logged + 1,
         log'.next = (log.next + 1) % LogLines
  PROVE  /\ \A k \in 1..logged : LineOf(k)' = LineOf(k)
         /\ \A k : k = logged + 1 => LineOf(k)' = log.next
<1>1. /\ log.next \in 0..LogLines - 1 /\ logged \in Nat /\ logged + 1 <= LogLines
      /\ LogLines \in Nat \ {0}
  BY LogAssumption DEF OpeningTypeOK, Slots
<1>2. log'.next = IF log.next = LogLines - 1 THEN 0 ELSE log.next + 1
  BY <1>1, NextSlot DEF Slots
<1>3. ASSUME NEW k \in 1..logged PROVE LineOf(k)' = LineOf(k)
  <2>1. LineOf(k)' = LET back == logged + 2 - k
                     IN  IF back <= log'.next THEN log'.next - back ELSE log'.next - back + LogLines
    BY <1>1 DEF LineOf
  <2> QED
    BY <1>1, <1>2, <2>1 DEF LineOf
<1>4. ASSUME NEW k, k = logged + 1 PROVE LineOf(k)' = log.next
  <2>1. LineOf(k)' = LET back == logged + 2 - k
                     IN  IF back <= log'.next THEN log'.next - back ELSE log'.next - back + LogLines
    BY <1>1, <1>4 DEF LineOf
  <2> QED
    BY <1>1, <1>2, <1>4, <2>1
<1> QED
  BY <1>3, <1>4

-----------------------------------------------------------------------------
(* The steps.                                                              *)

\* The log is opened for the first time when nothing has been claimed.
LEMMA OpeningInitInv == OpeningInit => OpeningInv
<1> SUFFICES ASSUME OpeningInit PROVE OpeningInv
  OBVIOUS
<1>1. 0 \in Slots
  BY LogAssumption DEF Slots
<1>2. OpeningTypeOK
  BY <1>1, LogAssumption DEF OpeningInit, OpeningTypeOK, ProcessStates, Closed, Blank
<1> QED
  BY <1>2 DEF OpeningInit, OpeningInv, Clearing, Closed

\* A start finds the magic set, or has the whole file to clear.
LEMMA OpenLogInv ==
  ASSUME OpeningInv, NEW p \in Processes, OpenLog(p)
  PROVE  OpeningInv'
<1>1. /\ log' = log /\ logged' = logged /\ settled' = settled /\ returned' = returned
      /\ process[p].stage = "closed" /\ starts' = starts + 1 /\ starts < MaxStarts
  BY DEF OpenLog
<1>2. PICK r \in ProcessStates(logged) :
        /\ process' = [process EXCEPT ![p] = r]
        /\ r.message = process[p].message /\ r.slot = process[p].slot
        /\ r.uncleared # {} => r.stage = "clearing"
        /\ log.magic => r.stage = "open"
  <2> DEFINE o == [process[p] EXCEPT !.stage = "open"]
             c == [process[p] EXCEPT !.stage = "clearing", !.uncleared = Slots \cup {NextIndex, Magic}]
  <2>1. process[p] \in ProcessStates(logged) /\ process[p].uncleared = {}
    BY <1>1 DEF OpeningInv, Clearing, OpeningTypeOK
  <2>2. /\ o \in ProcessStates(logged) /\ o.stage = "open" /\ o.uncleared = {}
        /\ o.message = process[p].message /\ o.slot = process[p].slot
    BY <2>1 DEF ProcessStates
  <2>3. /\ c \in ProcessStates(logged) /\ c.stage = "clearing"
        /\ c.message = process[p].message /\ c.slot = process[p].slot
    BY <2>1 DEF ProcessStates
  <2>4. process' = [process EXCEPT ![p] = IF log.magic THEN o ELSE c]
    BY DEF OpenLog, Initialised
  <2> HIDE DEF o, c
  <2>5. CASE log.magic
    BY <2>2, <2>4, <2>5
  <2>6. CASE ~log.magic
    BY <2>3, <2>4, <2>6
  <2> QED
    BY <2>5, <2>6
<1>3. /\ process' \in [Processes -> ProcessStates(logged)] /\ process'[p] = r
      /\ \A q \in Processes \ {p} : process'[q] = process[q]
  BY <1>2 DEF OpeningInv, OpeningTypeOK
<1>4. OpeningTypeOK'
  <2>1. starts' \in 0..MaxStarts
    BY <1>1, LogAssumption DEF OpeningInv, OpeningTypeOK
  <2> QED
    BY <1>1, <1>3, <2>1 DEF OpeningInv, OpeningTypeOK
<1>5. Clearing'
  BY <1>2, <1>3 DEF OpeningInv, Clearing
<1>6. ASSUME settled' # {} PROVE SettledClaims'
  <2>1. SettledClaims /\ log.magic
    BY <1>1, <1>6 DEF OpeningInv, SettledClaims, Settled
  <2>2. \A q \in Processes : /\ process'[q].message = process[q].message
                             /\ process'[q].slot = process[q].slot
                             /\ process'[q].stage # "clearing"
    BY <1>2, <1>3, <2>1 DEF SettledClaims, Settled
  <2> QED
    BY <1>1, <2>1, <2>2 DEF SettledClaims, Settled, HasLine, IsKept, LineOf
<1> QED
  BY <1>4, <1>5, <1>6 DEF OpeningInv

\* While somebody clears the file the log has not settled.
LEMMA ClearInv ==
  ASSUME OpeningInv, NEW p \in Processes, Clear(p) \/ SetMagic(p)
  PROVE  OpeningInv'
<1>1. /\ logged' = logged /\ settled' = settled /\ returned' = returned /\ starts' = starts
      /\ process[p].stage = "clearing"
  BY DEF Clear, SetMagic, OpeningInv, Clearing
<1>2. settled = {}
  BY <1>1 DEF OpeningInv, SettledClaims, Settled
<1>3. process[p] \in ProcessStates(logged) /\ log \in [next : Slots, lines : [Slots -> 0..MaxLogged], magic : BOOLEAN]
  BY DEF OpeningInv, OpeningTypeOK
<1>4. PICK r \in ProcessStates(logged) :
        /\ process' = [process EXCEPT ![p] = r]
        /\ r.uncleared # {} => r.stage = "clearing"
  <2>1. CASE Clear(p)
    <3>1. PICK field \in process[p].uncleared :
            process' = [process EXCEPT ![p].uncleared = @ \ {field}]
      BY <2>1 DEF Clear
    <3>2. PICK r : r = [process[p] EXCEPT !.uncleared = @ \ {field}]
      OBVIOUS
    <3>3. r \in ProcessStates(logged) /\ r.stage = "clearing"
      BY <1>1, <1>3, <3>2 DEF ProcessStates
    <3> QED
      BY <3>1, <3>2, <3>3
  <2>2. CASE SetMagic(p)
    <3>1. PICK r : r = [process[p] EXCEPT !.stage = "open"]
      OBVIOUS
    <3>2. r \in ProcessStates(logged) /\ r.uncleared = {}
      BY <1>3, <2>2, <3>1 DEF ProcessStates, SetMagic
    <3> QED
      BY <2>2, <3>1, <3>2 DEF SetMagic
  <2> QED
    BY <2>1, <2>2
<1>5. log' \in [next : Slots, lines : [Slots -> 0..MaxLogged], magic : BOOLEAN]
  <2>1. CASE Clear(p)
    <3>1. PICK field \in process[p].uncleared :
            log' = CASE field = NextIndex -> [log EXCEPT !.next = 0]
                     [] field = Magic     -> [log EXCEPT !.magic = FALSE]
                     [] OTHER             -> [log EXCEPT !.lines[field] = Blank]
      BY <2>1 DEF Clear
    <3>2. 0 \in Slots /\ Blank \in 0..MaxLogged
      BY LogAssumption DEF Slots, Blank
    <3> QED
      BY <1>3, <3>1, <3>2
  <2>2. CASE SetMagic(p)
    BY <1>3, <2>2 DEF SetMagic
  <2> QED
    BY <2>1, <2>2
<1>6. process' \in [Processes -> ProcessStates(logged)] /\ process'[p] = r
      /\ \A q \in Processes \ {p} : process'[q] = process[q]
  BY <1>4 DEF OpeningInv, OpeningTypeOK
<1>7. OpeningTypeOK'
  BY <1>1, <1>5, <1>6 DEF OpeningInv, OpeningTypeOK
<1>8. Clearing'
  BY <1>4, <1>6 DEF OpeningInv, Clearing
<1> QED
  BY <1>1, <1>2, <1>7, <1>8 DEF OpeningInv

\* A claim of a settled log is consecutive to the claims before, and the first claim of a
\* log that has settled finds no older write under way.
LEMMA ClaimInv ==
  ASSUME OpeningInv, NEW p \in Processes, Claim(p)
  PROVE  OpeningInv'
<1>1. /\ logged < MaxLogged /\ logged' = logged + 1 /\ returned' = returned /\ starts' = starts
      /\ process[p].stage = "open" /\ process[p].message = 0
      /\ settled' = IF Settled THEN settled \cup {logged + 1} ELSE settled
  BY DEF Claim
<1>2. /\ logged \in Nat /\ logged + 1 \in 1..MaxLogged /\ MaxLogged \in Nat
      /\ process[p] \in ProcessStates(logged)
      /\ log \in [next : Slots, lines : [Slots -> 0..MaxLogged], magic : BOOLEAN]
  BY <1>1, LogAssumption DEF OpeningInv, OpeningTypeOK
<1>3. PICK r : r = [process[p] EXCEPT !.message = logged + 1, !.slot = log.next]
  OBVIOUS
<1>4. /\ r \in ProcessStates(logged + 1) /\ r.stage = "open" /\ r.uncleared = process[p].uncleared
      /\ r.message = logged + 1 /\ r.slot = log.next
  <2>1. PICK m, n : m = logged + 1 /\ n = log.next
    OBVIOUS
  <2>2. m \in 0..m /\ logged \in 0..m /\ n \in Slots
    BY <1>2, <2>1
  <2>3. r = [stage |-> "open", uncleared |-> process[p].uncleared, message |-> m, slot |-> n]
    BY <1>1, <1>2, <1>3, <2>1 DEF ProcessStates
  <2>4. process[p].uncleared \in SUBSET (Slots \cup {NextIndex, Magic})
    BY <1>2 DEF ProcessStates
  <2>5. r \in ProcessStates(m)
    BY <2>2, <2>3, <2>4 DEF ProcessStates
  <2> QED
    BY <2>1, <2>3, <2>5
<1>5. /\ process' \in [Processes -> ProcessStates(logged + 1)] /\ process'[p] = r
      /\ \A q \in Processes \ {p} : process'[q] = process[q]
  <2>1. process' = [process EXCEPT ![p] = r]
    BY <1>3 DEF Claim
  <2>2. ProcessStates(logged) \subseteq ProcessStates(logged + 1)
    BY <1>2 DEF ProcessStates
  <2> QED
    BY <1>4, <2>1, <2>2 DEF OpeningInv, OpeningTypeOK
<1>6. /\ log' \in [next : Slots, lines : [Slots -> 0..MaxLogged], magic : BOOLEAN]
      /\ log'.next = (log.next + 1) % LogLines /\ log'.lines = log.lines /\ log'.magic = log.magic
  BY <1>2, NextSlot DEF Claim
<1>7. OpeningTypeOK'
  <2>1. settled \in SUBSET (1..logged) /\ returned \in SUBSET (1..logged) /\ starts \in 0..MaxStarts
    BY DEF OpeningInv, OpeningTypeOK
  <2>2. settled' \in SUBSET (1..logged') /\ returned' \in SUBSET (1..logged') /\ logged' \in 0..MaxLogged
    <3>1. \A k \in 1..logged : k \in 1..logged + 1
      BY <1>2
    <3>2. logged + 1 \in 1..logged + 1 /\ logged + 1 \in 0..MaxLogged
      BY <1>2
    <3>3. settled \subseteq 1..logged + 1 /\ returned \subseteq 1..logged + 1
      BY <2>1, <3>1
    <3>4. settled' \subseteq 1..logged + 1
      BY <1>1, <3>2, <3>3
    <3> QED
      BY <1>1, <3>2, <3>3, <3>4
  <2> QED
    BY <1>1, <1>5, <1>6, <2>1, <2>2 DEF OpeningTypeOK
<1>8. Clearing'
  BY <1>1, <1>4, <1>5 DEF OpeningInv, Clearing
<1>9. (\A k \in 1..logged : LineOf(k)' = LineOf(k)) /\ (\A k : k = logged + 1 => LineOf(k)' = log.next)
  BY <1>1, <1>6, ClaimKeepsLines DEF OpeningInv
<1>10. ASSUME settled' # {} PROVE SettledClaims'
  <2>1. Settled /\ settled' = settled \cup {logged + 1}
    BY <1>1, <1>10 DEF OpeningInv, SettledClaims
  <2>2. Settled'
    BY <1>4, <1>5, <1>6, <2>1 DEF Settled
  <2>3. ASSUME NEW q \in Processes PROVE HasLine(q)'
    <3>1. PICK k : k = process'[q].message
      OBVIOUS
    <3>2. SUFFICES ASSUME k # 0 PROVE process'[q].slot = LineOf(k)'
      BY <3>1 DEF HasLine
    <3>3. CASE q = p
      BY <1>4, <1>5, <1>9, <3>1, <3>3
    <3>4. CASE q # p
      <4>1. process'[q] = process[q] /\ k \in settled /\ SettledClaims
        BY <1>5, <2>1, <3>1, <3>2, <3>4 DEF Settled, OpeningInv
      <4>2. process[q].slot = LineOf(k) /\ k \in 1..logged
        BY <3>1, <3>2, <4>1 DEF SettledClaims, HasLine, OpeningInv, OpeningTypeOK
      <4> QED
        BY <1>9, <4>1, <4>2
    <3> QED
      BY <3>3, <3>4
  <2>4. ASSUME NEW k \in settled' \cap returned' PROVE IsKept(k)'
    <3>1. k \in 1..logged /\ k \in settled \cap returned
      BY <1>1, <1>2, <2>1, <2>4 DEF OpeningInv, OpeningTypeOK
    <3>2. log.lines[LineOf(k)] = k
      BY <3>1 DEF OpeningInv, SettledClaims, IsKept
    <3> QED
      BY <1>6, <1>9, <3>1, <3>2 DEF IsKept
  <2> QED
    BY <2>2, <2>3, <2>4 DEF SettledClaims
<1> QED
  BY <1>7, <1>8, <1>10 DEF OpeningInv

\* A message is written to its own line, where no other message is.
LEMMA StoreLineInv ==
  ASSUME OpeningInv, NEW p \in Processes, Store(p)
  PROVE  OpeningInv'
<1>1. PICK message, slot : message = process[p].message /\ slot = process[p].slot
  OBVIOUS
<1>2. /\ message # 0 /\ logged' = logged /\ settled' = settled /\ starts' = starts
      /\ returned' = returned \cup {message} /\ log' = [log EXCEPT !.lines[slot] = message]
  BY <1>1 DEF Store
<1>3. /\ logged \in 0..MaxLogged /\ message \in 1..logged /\ slot \in Slots /\ MaxLogged \in Nat
      /\ process[p] \in ProcessStates(logged)
      /\ log \in [next : Slots, lines : [Slots -> 0..MaxLogged], magic : BOOLEAN]
  BY <1>1, <1>2, LogAssumption DEF OpeningInv, OpeningTypeOK, ProcessStates
<1>4. PICK r : r = [process[p] EXCEPT !.message = 0, !.slot = 0]
  OBVIOUS
<1>5. /\ r \in ProcessStates(logged) /\ r.stage = process[p].stage
      /\ r.uncleared = process[p].uncleared /\ r.message = 0
  <2>1. 0 \in Slots /\ 0 \in 0..logged
    BY <1>3, LogAssumption DEF Slots
  <2>2. r = [stage |-> process[p].stage, uncleared |-> process[p].uncleared, message |-> 0, slot |-> 0]
    BY <1>3, <1>4 DEF ProcessStates
  <2>3. /\ process[p].uncleared \in SUBSET (Slots \cup {NextIndex, Magic})
        /\ process[p].stage \in {"closed", "clearing", "open"}
    BY <1>3 DEF ProcessStates
  <2>4. r \in ProcessStates(logged)
    BY <2>1, <2>2, <2>3 DEF ProcessStates
  <2> QED
    BY <2>2, <2>4
<1>6. /\ process' \in [Processes -> ProcessStates(logged)] /\ process'[p] = r
      /\ \A q \in Processes \ {p} : process'[q] = process[q]
  <2>1. process' = [process EXCEPT ![p] = r]
    BY <1>4 DEF Store
  <2> QED
    BY <1>5, <2>1 DEF OpeningInv, OpeningTypeOK
<1>7. /\ log' \in [next : Slots, lines : [Slots -> 0..MaxLogged], magic : BOOLEAN]
      /\ log'.next = log.next /\ log'.magic = log.magic
      /\ log'.lines = [log.lines EXCEPT ![slot] = message]
  BY <1>2, <1>3
<1>8. OpeningTypeOK'
  BY <1>2, <1>3, <1>6, <1>7 DEF OpeningInv, OpeningTypeOK
<1>9. Clearing'
  BY <1>5, <1>6 DEF OpeningInv, Clearing
<1>10. ASSUME settled' # {} PROVE SettledClaims'
  <2>1. SettledClaims
    BY <1>2, <1>10 DEF OpeningInv
  <2>2. \A k : LineOf(k)' = LineOf(k)
    BY <1>2, <1>7 DEF LineOf
  <2>3. Settled'
    BY <1>2, <1>5, <1>6, <1>7, <2>1 DEF SettledClaims, Settled
  <2>4. ASSUME NEW q \in Processes PROVE HasLine(q)'
    BY <1>5, <1>6, <2>1, <2>2 DEF SettledClaims, HasLine
  <2>5. slot = LineOf(message)
    BY <1>1, <1>2, <2>1 DEF SettledClaims, HasLine
  <2>6. ASSUME NEW k \in settled' \cap returned' PROVE IsKept(k)'
    <3>1. k \in 1..logged /\ LineOf(k)' = LineOf(k) /\ LineOf(k) \in Slots
      BY <1>2, <1>3, <2>2, <2>6, LineIsSlot DEF OpeningInv, OpeningTypeOK
    <3>2. CASE k = message
      BY <1>3, <1>7, <2>5, <3>1, <3>2 DEF IsKept
    <3>3. CASE k # message
      <4>1. LineOf(k) # slot
        BY <1>3, <2>5, <3>1, <3>3, LinesDiffer DEF OpeningInv
      <4>2. log.lines[LineOf(k)] = k
        BY <1>2, <2>1, <2>6, <3>3 DEF SettledClaims, IsKept
      <4> QED
        BY <1>3, <1>7, <3>1, <4>1, <4>2 DEF IsKept
    <3> QED
      BY <3>2, <3>3
  <2> QED
    BY <2>3, <2>4, <2>6 DEF SettledClaims
<1> QED
  BY <1>8, <1>9, <1>10 DEF OpeningInv

\* The file stays when a process ends.
LEMMA ProcessKilledInv ==
  ASSUME OpeningInv, NEW p \in Processes, ProcessKilled(p)
  PROVE  OpeningInv'
<1>1. /\ log' = log /\ starts' = starts /\ logged' = logged /\ settled' = settled
      /\ returned' = returned /\ process' = [process EXCEPT ![p] = Closed]
  BY DEF ProcessKilled
<1>2. Closed \in ProcessStates(logged)
  BY LogAssumption DEF Closed, ProcessStates, Slots, OpeningInv, OpeningTypeOK
<1>3. /\ process' \in [Processes -> ProcessStates(logged)] /\ process'[p] = Closed
      /\ \A q \in Processes \ {p} : process'[q] = process[q]
  BY <1>1, <1>2 DEF OpeningInv, OpeningTypeOK
<1>4. OpeningTypeOK' /\ Clearing'
  BY <1>1, <1>3 DEF OpeningInv, OpeningTypeOK, Clearing, Closed
<1>5. ASSUME settled' # {} PROVE SettledClaims'
  <2>1. SettledClaims
    BY <1>1, <1>5 DEF OpeningInv
  <2> QED
    BY <1>1, <1>3, <2>1 DEF SettledClaims, Settled, HasLine, IsKept, LineOf, Closed
<1> QED
  BY <1>4, <1>5 DEF OpeningInv

\* The invariant of the log's opening holds in every reachable state.
THEOREM OpeningInvariant == OpeningSpec => []OpeningInv
<1>1. OpeningInv /\ [OpeningNext]_openingVars => OpeningInv'
  <2> SUFFICES ASSUME OpeningInv, [OpeningNext]_openingVars PROVE OpeningInv'
    OBVIOUS
  <2>1. CASE UNCHANGED openingVars
    BY <2>1 DEF openingVars, OpeningInv, OpeningTypeOK, Clearing, SettledClaims, Settled, HasLine,
       IsKept, LineOf
  <2>2. CASE OpeningNext
    BY <2>2, OpenLogInv, ClearInv, ClaimInv, StoreLineInv, ProcessKilledInv DEF OpeningNext
  <2> QED
    BY <2>1, <2>2
<1> QED
  BY <1>1, OpeningInitInv, PTL DEF OpeningSpec

-----------------------------------------------------------------------------
\* Once a log has settled it keeps every message claimed since then that was written, for
\* any number of processes that start, open the log, write and are killed.
THEOREM SettledLogKeeps == OpeningSpec => []SettledLogIsKept
<1>1. OpeningInv => SettledLogIsKept
  <2> SUFFICES ASSUME OpeningInv, NEW k \in settled \cap returned
               PROVE  \E line \in Slots : log.lines[line] = k
    BY DEF SettledLogIsKept
  <2>1. LineOf(k) \in Slots /\ log.lines[LineOf(k)] = k
    BY LineIsSlot DEF OpeningInv, OpeningTypeOK, SettledClaims, IsKept
  <2> QED
    BY <2>1
<1> QED
  BY <1>1, OpeningInvariant, PTL

-----------------------------------------------------------------------------
\* The rules are the option's, and the option read is the rules'.
Applied == option \in Options /\ rules = RulesFor(option) /\ readBack = OptionFrom(rules)

-----------------------------------------------------------------------------
(* Rules in their order.                                                   *)

\* The first of some places is the least of them.
LEMMA FirstIsLeast ==
  ASSUME NEW rs, NEW places \in SUBSET Int, NEW i \in places, \A j \in places : i <= j
  PROVE  First(rs, places) = rs[i]
<1>1. \A k \in places : (\A j \in places : k <= j) => k = i
  BY SMT
<1>2. Min(places) = i
  BY <1>1 DEF Min
<1> QED
  BY <1>2 DEF First

\* A rule that matches decides when none before it does.
LEMMA FirstMatchDecides ==
  ASSUME NEW rs, DOMAIN rs \in SUBSET Int, NEW interface, NEW ssid, NEW i \in DOMAIN rs,
         Matches(rs[i], interface, ssid), \A j \in DOMAIN rs : j < i => ~Matches(rs[j], interface, ssid)
  PROVE  Decision(rs, interface, ssid) = rs[i].action
<1> DEFINE matching == {j \in DOMAIN rs : Matches(rs[j], interface, ssid)}
<1>1. matching \in SUBSET Int /\ i \in matching /\ matching # {}
  OBVIOUS
<1>2. \A j \in matching : i <= j
  BY SMT
<1>3. First(rs, matching) = rs[i]
  BY <1>1, <1>2, FirstIsLeast
<1> QED
  BY <1>1, <1>3 DEF Decision

\* What an option can be.
LEMMA OptionCases ==
  ASSUME NEW o \in Options
  PROVE  \/ o = Plain("off")
         \/ o = Plain("nonWiFiInterfaceOnly")
         \/ /\ o.kind \in {"wiFiInterfaceOnly", "anyInterface"}
            /\ o = [kind |-> o.kind, ssid |-> o.ssid]
            /\ \/ o.ssid = [kind |-> "any", ssids |-> AnySSID]
               \/ /\ o.ssid.kind \in {"only", "except"} /\ o.ssid.ssids \in SSIDLists
                  /\ o.ssid = [kind |-> o.ssid.kind, ssids |-> o.ssid.ssids]
BY DEF Options, SSIDOptions

\* The rules of an option for some SSIDs.
LEMMA RulesForSSIDs ==
  ASSUME NEW o \in Options, o.ssid.kind \in {"only", "except"},
         o.kind \in {"wiFiInterfaceOnly", "anyInterface"}
  PROVE  LET rs == RulesFor(o) IN
         /\ Len(rs) = 3 /\ DOMAIN rs = {1, 2, 3}
         /\ rs[1] = Rule(IF o.ssid.kind = "only" THEN "connect" ELSE "disconnect", "wiFi", o.ssid.ssids)
         /\ rs[2] = Rule(IF o.ssid.kind = "only" THEN "disconnect" ELSE "connect", "wiFi", AnySSID)
         /\ rs[3] = Rule(IF o.kind = "anyInterface" THEN "connect" ELSE "disconnect", "nonWiFi", AnySSID)
<1>1. CASE o.ssid.kind = "only"
  <2>1. SSIDRules(o.ssid) = <<Rule("connect", "wiFi", o.ssid.ssids), Disconnect("wiFi")>>
    BY <1>1 DEF SSIDRules
  <2> QED
    BY <1>1, <2>1 DEF RulesFor, Connect, Disconnect
<1>2. CASE o.ssid.kind = "except"
  <2>1. SSIDRules(o.ssid) = <<Rule("disconnect", "wiFi", o.ssid.ssids), Connect("wiFi")>>
    BY <1>2 DEF SSIDRules
  <2> QED
    BY <1>2, <2>1 DEF RulesFor, Connect, Disconnect
<1> QED
  BY <1>1, <1>2
-----------------------------------------------------------------------------
(* The option is given back.                                               *)

\* Two rules are told apart by the interface they connect.
LEMMA TwoRulesSay ==
  ASSUME NEW rs, DOMAIN rs = {1, 2}, NEW connects, NEW disconnects,
         rs[1] = Connect(connects), rs[2] = Disconnect(disconnects)
  PROVE  WithTwoRules(rs)
           = Plain(IF connects = "wiFi" THEN "wiFiInterfaceOnly" ELSE "nonWiFiInterfaceOnly")
<1>1. rs[1].action = "connect" /\ rs[2].action = "disconnect" /\ rs[1].interface = connects
  BY DEF Connect, Disconnect, Rule
<1>2. {i \in DOMAIN rs : rs[i].action = "connect"} = {1}
  BY <1>1
<1>3. First(rs, {i \in DOMAIN rs : rs[i].action = "connect"}) = rs[1]
  BY <1>2, FirstIsLeast
<1> QED
  BY <1>1, <1>3 DEF WithTwoRules

\* Three rules say for which SSIDs, and whether other interfaces are connected.
LEMMA ThreeRulesSay ==
  ASSUME NEW rs, DOMAIN rs = {1, 2, 3}, NEW a, NEW b, NEW c, NEW ssids, ssids # AnySSID,
         rs[1] = Rule(a, "wiFi", ssids), rs[2] = Rule(b, "wiFi", AnySSID),
         rs[3] = Rule(c, "nonWiFi", AnySSID)
  PROVE  WithThreeRules(rs) =
           [kind |-> IF c = "connect" THEN "anyInterface" ELSE "wiFiInterfaceOnly",
            ssid |-> [kind |-> IF a = "connect" THEN "only" ELSE "except", ssids |-> ssids]]
<1>1. /\ rs[1].interface = "wiFi" /\ rs[1].ssids = ssids /\ rs[1].action = a
      /\ rs[2].interface = "wiFi" /\ rs[2].ssids = AnySSID
      /\ rs[3].interface = "nonWiFi" /\ rs[3].action = c
  BY DEF Rule
<1>2. {i \in DOMAIN rs : rs[i].interface = "wiFi" /\ rs[i].ssids # AnySSID} = {1}
  BY <1>1
<1>3. {i \in DOMAIN rs : rs[i].interface = "nonWiFi"} = {3}
  BY <1>1
<1>4. First(rs, {1}) = rs[1] /\ First(rs, {3}) = rs[3]
  BY FirstIsLeast
<1> QED
  BY <1>1, <1>2, <1>3, <1>4 DEF WithThreeRules

LEMMA GivenBack ==
  ASSUME NEW o \in Options
  PROVE  OptionFrom(RulesFor(o)) = o
<1>1. CASE o = Plain("off")
  BY <1>1 DEF Plain, RulesFor, OptionFrom
<1>2. CASE o = Plain("nonWiFiInterfaceOnly")
  <2>1. PICK rs : rs = RulesFor(o)
    OBVIOUS
  <2>2. Len(rs) = 2 /\ DOMAIN rs = {1, 2} /\ rs[1] = Connect("nonWiFi") /\ rs[2] = Disconnect("wiFi")
    BY <1>2, <2>1 DEF Plain, RulesFor
  <2>3. OptionFrom(rs) = WithTwoRules(rs)
    BY <2>2 DEF OptionFrom
  <2> QED
    BY <1>2, <2>1, <2>2, <2>3, TwoRulesSay
<1>3. CASE o.kind = "wiFiInterfaceOnly" /\ o = Plain(o.kind)
  <2>1. PICK rs : rs = RulesFor(o)
    OBVIOUS
  <2>2. Len(rs) = 2 /\ DOMAIN rs = {1, 2} /\ rs[1] = Connect("wiFi") /\ rs[2] = Disconnect("nonWiFi")
    <3>1. SSIDRules(o.ssid) = <<Connect("wiFi")>>
      BY <1>3 DEF Plain, SSIDRules
    <3> QED
      BY <1>3, <2>1, <3>1 DEF RulesFor, Connect, Disconnect
  <2>3. OptionFrom(rs) = WithTwoRules(rs)
    BY <2>2 DEF OptionFrom
  <2> QED
    BY <1>3, <2>1, <2>2, <2>3, TwoRulesSay
<1>4. CASE o.kind = "anyInterface" /\ o = Plain(o.kind)
  <2>1. o.ssid.kind = "any"
    BY <1>4 DEF Plain
  <2>2. RulesFor(o) = <<Connect("any")>>
    BY <1>4, <2>1 DEF RulesFor
  <2> QED
    BY <1>4, <2>2 DEF OptionFrom
<1>5. CASE /\ o.kind \in {"wiFiInterfaceOnly", "anyInterface"} /\ o = [kind |-> o.kind, ssid |-> o.ssid]
           /\ o.ssid.kind \in {"only", "except"} /\ o.ssid.ssids \in SSIDLists
           /\ o.ssid = [kind |-> o.ssid.kind, ssids |-> o.ssid.ssids]
  <2>1. PICK rs : rs = RulesFor(o)
    OBVIOUS
  <2>2. /\ Len(rs) = 3 /\ DOMAIN rs = {1, 2, 3}
        /\ rs[1] = Rule(IF o.ssid.kind = "only" THEN "connect" ELSE "disconnect", "wiFi", o.ssid.ssids)
        /\ rs[2] = Rule(IF o.ssid.kind = "only" THEN "disconnect" ELSE "connect", "wiFi", AnySSID)
        /\ rs[3] = Rule(IF o.kind = "anyInterface" THEN "connect" ELSE "disconnect", "nonWiFi", AnySSID)
    BY <1>5, <2>1, RulesForSSIDs
  <2>3. o.ssid.ssids # AnySSID
    BY <1>5 DEF SSIDLists, AnySSID
  <2>4. OptionFrom(rs) = WithThreeRules(rs)
    BY <2>2 DEF OptionFrom
  <2>5. CASE o.ssid.kind = "only"
    <3>1. rs[1] = Rule("connect", "wiFi", o.ssid.ssids)
      BY <2>2, <2>5
    <3>2. WithThreeRules(rs) = [kind |-> o.kind, ssid |-> [kind |-> "only", ssids |-> o.ssid.ssids]]
      BY <1>5, <2>2, <2>3, <3>1, ThreeRulesSay
    <3> QED
      BY <1>5, <2>1, <2>4, <2>5, <3>2
  <2>6. CASE o.ssid.kind = "except"
    <3>1. rs[1] = Rule("disconnect", "wiFi", o.ssid.ssids)
      BY <2>2, <2>6
    <3>2. WithThreeRules(rs) = [kind |-> o.kind, ssid |-> [kind |-> "except", ssids |-> o.ssid.ssids]]
      BY <1>5, <2>2, <2>3, <3>1, ThreeRulesSay
    <3> QED
      BY <1>5, <2>1, <2>4, <2>6, <3>2
  <2> QED
    BY <1>5, <2>5, <2>6
<1> QED
  BY <1>1, <1>2, <1>3, <1>4, <1>5, OptionCases DEF Plain
-----------------------------------------------------------------------------
(* The rules decide as the option says.                                    *)

\* What is decided on an interface, and an SSID of wiFi.
Wish(o, interface, ssid) ==
  IF o.kind = "off" THEN "none" ELSE IF IsWanted(o, interface, ssid) THEN "connect" ELSE "disconnect"

\* Rules for one interface and the other, or for all.
LEMMA SimpleRulesSay ==
  ASSUME NEW interface \in Interfaces, NEW ssid, NEW rs, NEW a, NEW b
  PROVE  /\ rs = <<>> => Decision(rs, interface, ssid) = "none"
         /\ DOMAIN rs = {1} /\ rs[1] = Connect("any") => Decision(rs, interface, ssid) = "connect"
         /\ DOMAIN rs = {1, 2} /\ rs[1] = Connect(a) /\ rs[2] = Disconnect(b) /\ {a, b} = Interfaces
              => Decision(rs, interface, ssid) = IF interface = a THEN "connect" ELSE "disconnect"
<1>1. ASSUME rs = <<>> PROVE Decision(rs, interface, ssid) = "none"
  <2>1. DOMAIN rs = {}
    BY <1>1
  <2> QED
    BY <2>1 DEF Decision
<1>2. ASSUME DOMAIN rs = {1}, rs[1] = Connect("any") PROVE Decision(rs, interface, ssid) = "connect"
  <2>1. Matches(rs[1], interface, ssid) /\ rs[1].action = "connect"
    BY <1>2 DEF Matches, Connect, Rule
  <2> QED
    BY <1>2, <2>1, FirstMatchDecides
<1>3. ASSUME DOMAIN rs = {1, 2}, rs[1] = Connect(a), rs[2] = Disconnect(b), {a, b} = Interfaces
      PROVE  Decision(rs, interface, ssid) = IF interface = a THEN "connect" ELSE "disconnect"
  <2>1. rs[1].action = "connect" /\ rs[2].action = "disconnect"
    BY <1>3 DEF Connect, Disconnect, Rule
  <2>2. /\ Matches(rs[1], interface, ssid) <=> interface = a
        /\ Matches(rs[2], interface, ssid) <=> interface = b
    BY <1>3 DEF Matches, Connect, Disconnect, Rule, Interfaces
  <2>3. DOMAIN rs \in SUBSET Int /\ \A j \in DOMAIN rs : j < 2 => j = 1
    BY <1>3
  <2>4. CASE interface = a
    BY <1>3, <2>1, <2>2, <2>4, FirstMatchDecides
  <2>5. CASE interface # a
    <3>1. Matches(rs[2], interface, ssid) /\ ~Matches(rs[1], interface, ssid)
      BY <1>3, <2>2, <2>5
    <3> QED
      BY <1>3, <2>1, <2>3, <2>5, <3>1, FirstMatchDecides
  <2> QED
    BY <2>4, <2>5
<1> QED
  BY <1>1, <1>2, <1>3

\* The rules for some SSIDs: those, then the rest of wiFi, then the other interface.
LEMMA SSIDRulesSay ==
  ASSUME NEW o, o.ssid.kind \in {"only", "except"}, o.ssid.ssids # AnySSID,
         o.kind \in {"wiFiInterfaceOnly", "anyInterface"},
         NEW interface \in Interfaces, NEW ssid, NEW rs, DOMAIN rs = {1, 2, 3},
         rs[1] = Rule(IF o.ssid.kind = "only" THEN "connect" ELSE "disconnect", "wiFi", o.ssid.ssids),
         rs[2] = Rule(IF o.ssid.kind = "only" THEN "disconnect" ELSE "connect", "wiFi", AnySSID),
         rs[3] = Rule(IF o.kind = "anyInterface" THEN "connect" ELSE "disconnect", "nonWiFi", AnySSID)
  PROVE  Decision(rs, interface, ssid) = Wish(o, interface, ssid)
<1>1. /\ rs[1].action = (IF o.ssid.kind = "only" THEN "connect" ELSE "disconnect")
      /\ rs[2].action = (IF o.ssid.kind = "only" THEN "disconnect" ELSE "connect")
      /\ rs[3].action = (IF o.kind = "anyInterface" THEN "connect" ELSE "disconnect")
  BY DEF Rule
<1>2. /\ Matches(rs[1], interface, ssid) <=> interface = "wiFi" /\ ssid \in o.ssid.ssids
      /\ Matches(rs[2], interface, ssid) <=> interface = "wiFi"
      /\ Matches(rs[3], interface, ssid) <=> interface = "nonWiFi"
  BY DEF Matches, Rule, Interfaces
<1>3. DOMAIN rs \in SUBSET Int /\ \A j \in DOMAIN rs : (j < 2 => j = 1) /\ (j < 3 => j \in {1, 2})
  OBVIOUS
<1>4. CASE interface = "wiFi" /\ ssid \in o.ssid.ssids
  <2>1. Decision(rs, interface, ssid) = rs[1].action
    BY <1>2, <1>4, FirstMatchDecides
  <2> QED
    BY <1>1, <1>4, <2>1 DEF Wish, IsWanted, Permits
<1>5. CASE interface = "wiFi" /\ ssid \notin o.ssid.ssids
  <2>1. Decision(rs, interface, ssid) = rs[2].action
    BY <1>2, <1>3, <1>5, FirstMatchDecides
  <2> QED
    BY <1>1, <1>5, <2>1 DEF Wish, IsWanted, Permits
<1>6. CASE interface = "nonWiFi"
  <2>1. Decision(rs, interface, ssid) = rs[3].action
    BY <1>2, <1>3, <1>6, FirstMatchDecides
  <2> QED
    BY <1>1, <1>6, <2>1 DEF Wish, IsWanted
<1> QED
  BY <1>4, <1>5, <1>6 DEF Interfaces

LEMMA RulesSay ==
  ASSUME NEW o \in Options, NEW interface \in Interfaces, NEW ssid
  PROVE  Decision(RulesFor(o), interface, ssid) = Wish(o, interface, ssid)
<1>0. PICK rs : rs = RulesFor(o)
  OBVIOUS
<1>1. CASE o = Plain("off")
  BY <1>0, <1>1, SimpleRulesSay DEF Plain, RulesFor, Wish
<1>2. CASE o = Plain("nonWiFiInterfaceOnly")
  <2>1. DOMAIN rs = {1, 2} /\ rs[1] = Connect("nonWiFi") /\ rs[2] = Disconnect("wiFi")
    BY <1>0, <1>2 DEF Plain, RulesFor
  <2>2. Decision(rs, interface, ssid) = IF interface = "nonWiFi" THEN "connect" ELSE "disconnect"
    BY <2>1, SimpleRulesSay DEF Interfaces
  <2> QED
    BY <1>0, <1>2, <2>2 DEF Plain, Wish, IsWanted
<1>3. CASE o.kind \in {"wiFiInterfaceOnly", "anyInterface"} /\ o.ssid.kind = "any"
  <2>1. SSIDRules(o.ssid) = <<Connect("wiFi")>>
    BY <1>3 DEF SSIDRules
  <2>2. CASE o.kind = "wiFiInterfaceOnly"
    <3>1. DOMAIN rs = {1, 2} /\ rs[1] = Connect("wiFi") /\ rs[2] = Disconnect("nonWiFi")
      BY <1>0, <2>1, <2>2 DEF RulesFor, Connect, Disconnect
    <3>2. Decision(rs, interface, ssid) = IF interface = "wiFi" THEN "connect" ELSE "disconnect"
      BY <3>1, SimpleRulesSay DEF Interfaces
    <3> QED
      BY <1>0, <1>3, <2>2, <3>2 DEF Wish, IsWanted, Permits
  <2>3. CASE o.kind = "anyInterface"
    <3>1. DOMAIN rs = {1} /\ rs[1] = Connect("any")
      BY <1>0, <1>3, <2>3 DEF RulesFor
    <3>2. Decision(rs, interface, ssid) = "connect"
      BY <3>1, SimpleRulesSay
    <3> QED
      BY <1>0, <1>3, <2>3, <3>2 DEF Wish, IsWanted, Permits
  <2> QED
    BY <1>3, <2>2, <2>3
<1>4. CASE /\ o.kind \in {"wiFiInterfaceOnly", "anyInterface"}
           /\ o.ssid.kind \in {"only", "except"} /\ o.ssid.ssids \in SSIDLists
  <2>1. /\ DOMAIN rs = {1, 2, 3}
        /\ rs[1] = Rule(IF o.ssid.kind = "only" THEN "connect" ELSE "disconnect", "wiFi", o.ssid.ssids)
        /\ rs[2] = Rule(IF o.ssid.kind = "only" THEN "disconnect" ELSE "connect", "wiFi", AnySSID)
        /\ rs[3] = Rule(IF o.kind = "anyInterface" THEN "connect" ELSE "disconnect", "nonWiFi", AnySSID)
    BY <1>0, <1>4, RulesForSSIDs
  <2>2. o.ssid.ssids # AnySSID
    BY <1>4 DEF SSIDLists, AnySSID
  <2> QED
    BY <1>0, <1>4, <2>1, <2>2, SSIDRulesSay
<1>5. ASSUME o # Plain("off"), o # Plain("nonWiFiInterfaceOnly")
      PROVE  /\ o.kind \in {"wiFiInterfaceOnly", "anyInterface"}
             /\ o.ssid.kind = "any" \/ (o.ssid.kind \in {"only", "except"} /\ o.ssid.ssids \in SSIDLists)
  <2>1. o \in [kind : {"wiFiInterfaceOnly", "anyInterface"}, ssid : SSIDOptions]
    BY <1>5 DEF Options
  <2>2. o.kind \in {"wiFiInterfaceOnly", "anyInterface"} /\ o.ssid \in SSIDOptions
    BY <2>1
  <2>3. \A x \in SSIDOptions : x.kind = "any" \/ (x.kind \in {"only", "except"} /\ x.ssids \in SSIDLists)
    BY DEF SSIDOptions
  <2> QED
    BY <2>2, <2>3
<1> QED
  BY <1>1, <1>2, <1>3, <1>4, <1>5
-----------------------------------------------------------------------------
(* Every behaviour.                                                        *)

LEMMA AlwaysApplied == OnDemandSpec => []Applied
<1>1. OnDemandInit => Applied
  BY DEF OnDemandInit, Applied
<1>2. Applied /\ [OnDemandNext]_optionVars => Applied'
  BY DEF Applied, OnDemandNext, Apply, optionVars
<1> QED
  BY <1>1, <1>2, PTL DEF OnDemandSpec

\* The option a user has chosen is what the next editing starts from, whatever its SSIDs are
\* (apply and init(from:) of ActivateOnDemandOption).
THEOREM OptionsComeBack == OnDemandSpec => []OptionIsReadBack
<1>1. Applied => OptionIsReadBack
  BY GivenBack DEF Applied, OptionIsReadBack
<1> QED
  BY <1>1, AlwaysApplied, PTL

\* The system connects and disconnects as the option says, on either interface and every
\* SSID (apply of ActivateOnDemandOption).
THEOREM RulesAreTheOption == OnDemandSpec => []RulesSayTheOption
<1>1. Applied => RulesSayTheOption
  BY RulesSay DEF Applied, RulesSayTheOption, Wish
<1> QED
  BY <1>1, AlwaysApplied, PTL
-----------------------------------------------------------------------------
(* Leaving out, and taking out.                                            *)

\* t is the first n elements of s with some left out: f says where those that stay were.
IsFrom(s, n, t, f) ==
  /\ \A k \in 1 .. Len(t) : f[k] \in 1 .. n /\ t[k] = s[f[k]]
  /\ \A j, k \in 1 .. Len(t) : j < k => f[j] < f[k]

Thinned(s, t) == \E f : IsFrom(s, Len(s), t, f)

IsKeeping(s, S, n, kept) ==
  kept = [i \in 0 .. n |-> IF i = 0 THEN <<>>
                           ELSE IF s[i] \in S THEN Append(kept[i - 1], s[i]) ELSE kept[i - 1]]

\* The loop of Kept is defined.
LEMMA KeepingIs ==
  ASSUME NEW s, NEW S, NEW n \in Nat
  PROVE  \E kept : IsKeeping(s, S, n, kept)
<1> DEFINE D == {i \in Nat : \E kept : IsKeeping(s, S, i, kept)}
           next(v, l) == IF s[l] \in S THEN Append(v, s[l]) ELSE v
<1>1. 0 \in D
  <2>1. PICK f : f = [l \in 0 .. 0 |-> <<>>]
    OBVIOUS
  <2>2. f = [l \in 0 .. 0 |-> IF l = 0 THEN <<>> ELSE next(f[l - 1], l)]
    BY <2>1
  <2> QED
    BY <2>2 DEF IsKeeping
<1>2. ASSUME NEW i \in Nat, i \in D PROVE i + 1 \in D
  <2>1. PICK f : IsKeeping(s, S, i, f)
    BY <1>2
  <2>2. \A l \in 0 .. i : f[l] = IF l = 0 THEN <<>> ELSE next(f[l - 1], l)
    BY <2>1, Zenon DEF IsKeeping
  <2>3. PICK g : g = [l \in 0 .. i + 1 |-> IF l <= i THEN f[l] ELSE next(f[i], i + 1)]
    OBVIOUS
  <2> HIDE DEF next
  <2>4. ASSUME NEW l \in 0 .. i + 1
        PROVE  g[l] = IF l = 0 THEN <<>> ELSE next(g[l - 1], l)
    <3>1. CASE l <= i
      BY <1>2, <2>2, <2>3, <3>1
    <3>2. CASE l = i + 1
      BY <1>2, <2>3, <3>2
    <3> QED
      BY <1>2, <3>1, <3>2
  <2>5. g = [l \in 0 .. i + 1 |-> IF l = 0 THEN <<>> ELSE next(g[l - 1], l)]
    BY <2>3, <2>4
  <2> USE DEF next
  <2>6. IsKeeping(s, S, i + 1, g)
    BY <2>5, Zenon DEF IsKeeping
  <2> QED
    BY <1>2, <2>6
<1> HIDE DEF D
<1>3. n \in D
  BY <1>1, <1>2, Induction
<1> QED
  BY <1>3 DEF D

\* What is left of the first n elements of s.
Keeps(s, S, T, n, t) ==
  /\ t \in Seq(T) /\ Len(t) <= n
  /\ \A k \in 1 .. Len(t) : t[k] \in S
  /\ \A i \in 1 .. n : s[i] \in S => \E k \in 1 .. Len(t) : t[k] = s[i]
  /\ \E f : IsFrom(s, n, t, f)
  /\ Len(t) = n => \A k \in 1 .. n : t[k] = s[k]

\* One more element of s.
LEMMA KeepsNext ==
  ASSUME NEW T, NEW s \in Seq(T), NEW S, NEW n \in Nat, n + 1 <= Len(s), NEW t, Keeps(s, S, T, n, t)
  PROVE  Keeps(s, S, T, n + 1, IF s[n + 1] \in S THEN Append(t, s[n + 1]) ELSE t)
<1>1. t \in Seq(T) /\ Len(t) \in Nat /\ Len(t) <= n /\ s[n + 1] \in T
  BY DEF Keeps
<1>2. PICK f : IsFrom(s, n, t, f)
  BY DEF Keeps
<1>3. CASE s[n + 1] \in S
  <2>1. PICK u, m : u = Append(t, s[n + 1]) /\ m = Len(t)
    OBVIOUS
  <2>2. /\ m \in Nat /\ m <= n /\ u \in Seq(T) /\ Len(u) = m + 1 /\ u[m + 1] = s[n + 1]
        /\ \A k \in 1 .. m : u[k] = t[k]
    BY <1>1, <2>1
  <2>3. PICK g : g = [k \in 1 .. m + 1 |-> IF k <= m THEN f[k] ELSE n + 1]
    OBVIOUS
  <2>4. g[m + 1] = n + 1 /\ \A k \in 1 .. m : g[k] = f[k] /\ f[k] \in 1 .. n /\ t[k] = s[f[k]]
    BY <1>2, <2>1, <2>2, <2>3 DEF IsFrom
  <2>5. \A k \in 1 .. Len(u) : g[k] \in 1 .. n + 1 /\ u[k] = s[g[k]]
    BY <2>1, <2>2, <2>4
  <2>6. IsFrom(s, n + 1, u, g)
    <3>1. ASSUME NEW j \in 1 .. m + 1, NEW k \in 1 .. m + 1, j < k PROVE g[j] < g[k]
      <4>1. CASE k = m + 1
        BY <2>2, <2>4, <3>1, <4>1
      <4>2. CASE k \in 1 .. m
        <5>1. j \in 1 .. m
          BY <2>2, <3>1, <4>2
        <5> QED
          BY <1>2, <2>1, <2>4, <3>1, <4>2, <5>1 DEF IsFrom
      <4> QED
        BY <2>2, <4>1, <4>2
    <3> QED
      BY <2>2, <2>5, <3>1 DEF IsFrom
  <2>7. \A k \in 1 .. Len(u) : u[k] \in S
    BY <1>3, <2>1, <2>2 DEF Keeps
  <2>8. ASSUME NEW i \in 1 .. n + 1, s[i] \in S PROVE \E k \in 1 .. Len(u) : u[k] = s[i]
    <3>1. CASE i = n + 1
      BY <2>2, <3>1
    <3>2. CASE i <= n
      <4>1. PICK k \in 1 .. m : t[k] = s[i]
        BY <2>1, <2>8, <3>2 DEF Keeps
      <4> QED
        BY <2>2, <4>1
    <3> QED
      BY <3>1, <3>2
  <2>9. Len(u) = n + 1 => \A k \in 1 .. n + 1 : u[k] = s[k]
    BY <2>1, <2>2 DEF Keeps
  <2>10. Keeps(s, S, T, n + 1, u)
    BY <2>2, <2>6, <2>7, <2>8, <2>9 DEF Keeps
  <2> QED
    BY <1>3, <2>1, <2>10
<1>4. CASE s[n + 1] \notin S
  <2>1. IsFrom(s, n + 1, t, f)
    BY <1>1, <1>2 DEF IsFrom
  <2>2. ASSUME NEW i \in 1 .. n + 1, s[i] \in S PROVE \E k \in 1 .. Len(t) : t[k] = s[i]
    <3>1. i \in 1 .. n
      BY <1>4, <2>2
    <3> QED
      BY <2>2, <3>1 DEF Keeps
  <2>3. Keeps(s, S, T, n + 1, t)
    BY <1>1, <2>1, <2>2 DEF Keeps
  <2> QED
    BY <1>4, <2>3
<1> QED
  BY <1>3, <1>4

\* Kept leaves the elements of S and no others, in their order.
LEMMA KeptIs ==
  ASSUME NEW T, NEW s \in Seq(T), NEW S
  PROVE  Keeps(s, S, T, Len(s), Kept(s, S))
<1>1. PICK n : n = Len(s)
  OBVIOUS
<1>2. n \in Nat
  BY <1>1
<1>3. PICK kept : kept = CHOOSE f : IsKeeping(s, S, n, f)
  OBVIOUS
<1>4. IsKeeping(s, S, n, kept)
  BY <1>2, <1>3, KeepingIs
<1>5. Kept(s, S) = kept[n]
  BY <1>1, <1>3 DEF Kept, IsKeeping
<1> DEFINE D == {i \in Nat : i <= n => Keeps(s, S, T, i, kept[i])}
<1>6. 0 \in D
  <2>1. kept[0] = <<>>
    BY <1>2, <1>4 DEF IsKeeping
  <2>2. Len(<<>>) = 0 /\ <<>> \in Seq(T)
    OBVIOUS
  <2>3. IsFrom(s, 0, <<>>, <<>>)
    BY <2>2 DEF IsFrom
  <2>4. Keeps(s, S, T, 0, <<>>)
    BY <2>2, <2>3 DEF Keeps
  <2> QED
    BY <2>1, <2>4
<1>7. ASSUME NEW i \in Nat, i \in D PROVE i + 1 \in D
  <2>1. SUFFICES ASSUME i + 1 <= n PROVE Keeps(s, S, T, i + 1, kept[i + 1])
    OBVIOUS
  <2>2. kept[i + 1] = IF s[i + 1] \in S THEN Append(kept[i], s[i + 1]) ELSE kept[i]
    <3>1. \A l \in 0 .. n : kept[l] = IF l = 0 THEN <<>>
                                      ELSE IF s[l] \in S THEN Append(kept[l - 1], s[l]) ELSE kept[l - 1]
      BY <1>4, Zenon DEF IsKeeping
    <3>2. i + 1 \in 0 .. n /\ i + 1 # 0 /\ (i + 1) - 1 = i
      BY <1>2, <2>1
    <3> QED
      BY <3>1, <3>2
  <2>3. Keeps(s, S, T, i, kept[i])
    BY <1>2, <1>7, <2>1
  <2> QED
    BY <1>1, <2>1, <2>2, <2>3, KeepsNext
<1> HIDE DEF D
<1>8. n \in D
  BY <1>2, <1>6, <1>7, Induction
<1> QED
  BY <1>1, <1>2, <1>5, <1>8 DEF D

\* RemoveFirst takes out the first e, if there is one.
LEMMA FirstRemoved ==
  ASSUME NEW T, NEW s \in Seq(T), NEW e
  PROVE  LET t == RemoveFirst(s, e) IN
         /\ t \in Seq(T) /\ Thinned(s, t)
         /\ \A i \in 1 .. Len(s) : s[i] # e => \E k \in 1 .. Len(t) : t[k] = s[i]
         /\ (\A i, j \in 1 .. Len(s) : s[i] = e /\ s[j] = e => i = j) => \A k \in 1 .. Len(t) : t[k] # e
<1>1. PICK n : n = Len(s)
  OBVIOUS
<1>2. n \in Nat
  BY <1>1
<1> DEFINE I == {i \in 1 .. Len(s) : s[i] = e}
<1>3. CASE I = {}
  <2>1. RemoveFirst(s, e) = s
    BY <1>3 DEF RemoveFirst
  <2>2. IsFrom(s, Len(s), s, [k \in 1 .. n |-> k])
    BY <1>1, <1>2 DEF IsFrom
  <2> QED
    BY <1>3, <2>1, <2>2 DEF Thinned
<1>4. CASE I # {}
  <2>1. PICK p : p = Min(I)
    OBVIOUS
  <2>2. p \in I
    <3>1. I \in SUBSET Nat
      OBVIOUS
    <3>2. \E x \in I : \A y \in I : x <= y
      BY <1>4, <3>1, LeastNatural
    <3> QED
      BY <2>1, <3>2 DEF Min
  <2>3. p \in 1 .. n /\ s[p] = e
    BY <1>1, <2>2
  <2>4. SelectInSeq(s, LAMBDA v : v = e) = p
    BY <1>4, <2>1 DEF SelectInSeq
  <2>5. RemoveFirst(s, e) = SubSeq(s, 1, p - 1) \o SubSeq(s, p + 1, n)
    BY <1>1, <1>4, <2>4 DEF RemoveFirst, RemoveAt
  <2>6. PICK t : t = SubSeq(s, 1, p - 1) \o SubSeq(s, p + 1, n)
    OBVIOUS
  <2>7. /\ SubSeq(s, 1, p - 1) \in Seq(T) /\ Len(SubSeq(s, 1, p - 1)) = p - 1
        /\ \A k \in 1 .. p - 1 : SubSeq(s, 1, p - 1)[k] = s[k]
        /\ SubSeq(s, p + 1, n) \in Seq(T) /\ Len(SubSeq(s, p + 1, n)) = n - p
        /\ \A k \in 1 .. n - p : SubSeq(s, p + 1, n)[k] = s[k + p]
    BY <1>1, <1>2, <2>3
  <2>8. /\ t \in Seq(T) /\ Len(t) = n - 1
        /\ \A k \in 1 .. n - 1 : t[k] = IF k < p THEN s[k] ELSE s[k + 1]
    <3>1. PICK a, b : a = SubSeq(s, 1, p - 1) /\ b = SubSeq(s, p + 1, n)
      OBVIOUS
    <3>2. a \in Seq(T) /\ Len(a) = p - 1 /\ b \in Seq(T) /\ Len(b) = n - p /\ t = a \o b
      BY <2>6, <2>7, <3>1
    <3>3. /\ a \o b \in Seq(T) /\ Len(a \o b) = Len(a) + Len(b)
          /\ \A k \in 1 .. Len(a) + Len(b) : (a \o b)[k] = IF k <= Len(a) THEN a[k] ELSE b[k - Len(a)]
      BY <3>2, ConcatProperties
    <3>4. Len(t) = n - 1 /\ t \in Seq(T)
      BY <1>2, <2>3, <3>2, <3>3
    <3>5. ASSUME NEW k \in 1 .. n - 1 PROVE t[k] = IF k < p THEN s[k] ELSE s[k + 1]
      <4>1. t[k] = IF k <= p - 1 THEN a[k] ELSE b[k - (p - 1)]
        <5>1. k \in 1 .. Len(a) + Len(b)
          BY <1>2, <2>3, <3>2
        <5>2. (a \o b)[k] = IF k <= Len(a) THEN a[k] ELSE b[k - Len(a)]
          BY <3>3, <5>1
        <5> QED
          BY <3>2, <5>2
      <4>2. CASE k < p
        BY <1>2, <2>3, <2>7, <3>1, <4>1, <4>2
      <4>3. CASE k >= p
        <5>1. k - (p - 1) \in 1 .. n - p /\ (k - (p - 1)) + p = k + 1
          BY <1>2, <2>3, <4>3
        <5> QED
          BY <1>2, <2>3, <2>7, <3>1, <4>1, <4>3, <5>1
      <4> QED
        BY <1>2, <2>3, <4>2, <4>3
    <3> QED
      BY <3>4, <3>5
  <2>9. PICK f : f = [k \in 1 .. n - 1 |-> IF k < p THEN k ELSE k + 1]
    OBVIOUS
  <2>10. IsFrom(s, Len(s), t, f)
    BY <1>1, <1>2, <2>3, <2>8, <2>9 DEF IsFrom
  <2>11. ASSUME NEW i \in 1 .. n, s[i] # e PROVE \E k \in 1 .. Len(t) : t[k] = s[i]
    <3>1. CASE i < p
      BY <1>2, <2>3, <2>8, <3>1
    <3>2. CASE i > p
      <4>1. i - 1 \in 1 .. n - 1 /\ t[i - 1] = s[i]
        BY <1>2, <2>3, <2>8, <3>2
      <4> QED
        BY <2>8, <4>1
    <3> QED
      BY <1>2, <2>3, <2>11, <3>1, <3>2
  <2>12. ASSUME \A i, j \in 1 .. Len(s) : s[i] = e /\ s[j] = e => i = j, NEW k \in 1 .. Len(t)
         PROVE  t[k] # e
    BY <1>1, <1>2, <2>3, <2>8, <2>12
  <2>13. RemoveFirst(s, e) = t /\ t \in Seq(T) /\ Thinned(s, t)
    BY <2>5, <2>6, <2>8, <2>10 DEF Thinned
  <2> QED
    BY <1>1, <2>11, <2>12, <2>13
<1> QED
  BY <1>3, <1>4

-----------------------------------------------------------------------------
(* The recent tunnels.                                                     *)

\* The names of the list r that count are listed tunnels, they have been activated and
\* stand in the order of their activations.
InTurn(r, names, since, old) ==
  \A i \in 1 .. Len(r) : r[i] \notin old =>
    /\ r[i] \in names /\ since[r[i]] > 0
    /\ \A j \in 1 .. Len(r) : i < j /\ r[j] \notin old => since[r[i]] > since[r[j]]

\* A tunnel that is not in the list r is older than those that count.
OthersOlder(r, names, since, old) ==
  \A i \in 1 .. Len(r) : r[i] \notin old =>
    \A n \in names \ old : (\A j \in 1 .. Len(r) : r[j] # n) => since[n] < since[r[i]]

RecentInv ==
  /\ tunnels \subseteq Names /\ recent \in Seq(Names) /\ stale \subseteq Names
  /\ last \in [Names -> Nat] /\ now \in Nat /\ \A n \in Names : last[n] <= now
  /\ InTurn(recent, tunnels, last, stale) /\ OthersOlder(recent, tunnels, last, stale)

\* What counts occurs once.
LEMMA OccursOnce ==
  ASSUME RecentInv, NEW n \in Names \ stale
  PROVE  \A i, j \in 1 .. Len(recent) : recent[i] = n /\ recent[j] = n => i = j
<1>1. last[n] \in Nat /\ ~(last[n] > last[n]) /\ Len(recent) \in Nat
  BY DEF RecentInv
<1>2. ASSUME NEW i \in 1 .. Len(recent), NEW j \in 1 .. Len(recent), recent[i] = n, recent[j] = n, i < j
      PROVE  FALSE
  <2>1. last[recent[i]] > last[recent[j]]
    BY <1>2 DEF RecentInv, InTurn
  <2> QED
    BY <1>1, <1>2, <2>1
<1>3. ASSUME NEW i \in 1 .. Len(recent), NEW j \in 1 .. Len(recent), recent[i] = n, recent[j] = n
      PROVE  i = j
  <2>1. i < j \/ j < i \/ i = j
    BY <1>1, <1>3
  <2> QED
    BY <1>2, <1>3, <2>1
<1> QED
  BY <1>3

\* An order stays when elements are left out.
LEMMA ThinnedInTurn ==
  ASSUME NEW r, NEW t, Thinned(r, t), NEW names, NEW since, NEW old, InTurn(r, names, since, old)
  PROVE  InTurn(t, names, since, old)
<1>1. PICK f : IsFrom(r, Len(r), t, f)
  BY DEF Thinned
<1>2. ASSUME NEW i \in 1 .. Len(t), t[i] \notin old
      PROVE  /\ t[i] \in names /\ since[t[i]] > 0
             /\ \A j \in 1 .. Len(t) : i < j /\ t[j] \notin old => since[t[i]] > since[t[j]]
  <2>1. f[i] \in 1 .. Len(r) /\ t[i] = r[f[i]]
    BY <1>1 DEF IsFrom
  <2>2. ASSUME NEW j \in 1 .. Len(t), i < j, t[j] \notin old PROVE since[t[i]] > since[t[j]]
    <3>1. f[j] \in 1 .. Len(r) /\ t[j] = r[f[j]] /\ f[i] < f[j]
      BY <1>1, <2>2 DEF IsFrom
    <3> QED
      BY <1>2, <2>1, <2>2, <3>1 DEF InTurn
  <2> QED
    BY <1>2, <2>1, <2>2 DEF InTurn
<1> QED
  BY <1>2 DEF InTurn

\* The start.
LEMMA RecentInitInv == RecentInit => RecentInv
<1> SUFFICES ASSUME RecentInit PROVE RecentInv
  OBVIOUS
<1>1. Len(recent) = 0 /\ recent \in Seq(Names)
  BY DEF RecentInit
<1> QED
  BY <1>1 DEF RecentInit, RecentInv, InTurn, OthersOlder

\* A tunnel is deleted outside the app.
LEMMA DeletedInv ==
  ASSUME RecentInv, NEW n \in Names, DeletedOutside(n)
  PROVE  RecentInv'
<1>1. /\ tunnels' = tunnels \ {n} /\ stale' = stale \cup {n} /\ recent' = recent /\ last' = last /\ now' = now
      /\ recent \in Seq(Names) /\ Len(recent) \in Nat
  BY DEF DeletedOutside, RecentInv
<1>2. InTurn(recent, tunnels', last, stale')
  BY <1>1 DEF RecentInv, InTurn
<1>3. OthersOlder(recent, tunnels', last, stale')
  BY <1>1 DEF RecentInv, OthersOlder
<1>4. InTurn(recent, tunnels, last, stale)' /\ OthersOlder(recent, tunnels, last, stale)'
  BY <1>1, <1>2, <1>3 DEF InTurn, OthersOlder
<1> QED
  BY <1>1, <1>4 DEF RecentInv

\* A tunnel is added.
LEMMA AddRecentInv ==
  ASSUME RecentInv, NEW n \in Names, Add(n)
  PROVE  RecentInv'
<1>1. /\ n \notin tunnels /\ tunnels' = tunnels \cup {n} /\ stale' = stale /\ recent' = recent /\ now' = now
      /\ last' \in [Names -> Nat] /\ last'[n] = 0 /\ (\A m \in Names \ {n} : last'[m] = last[m])
      /\ recent \in Seq(Names) /\ Len(recent) \in Nat /\ tunnels \subseteq Names
  BY DEF Add, RecentInv
<1>2. PICK since : since = last'
  OBVIOUS
<1>3. \A i \in 1 .. Len(recent) : recent[i] \notin stale => recent[i] \in tunnels /\ recent[i] # n /\ since[recent[i]] = last[recent[i]]
  BY <1>1, <1>2 DEF RecentInv, InTurn
<1>4. InTurn(recent, tunnels', since, stale)
  BY <1>1, <1>3 DEF RecentInv, InTurn
<1>5. OthersOlder(recent, tunnels', since, stale)
  <2>1. SUFFICES ASSUME NEW i \in 1 .. Len(recent), recent[i] \notin stale, NEW m \in tunnels' \ stale,
                        \A j \in 1 .. Len(recent) : recent[j] # m
                 PROVE  since[m] < since[recent[i]]
    BY DEF OthersOlder
  <2>2. CASE m = n
    BY <1>1, <1>2, <1>3, <2>1, <2>2 DEF RecentInv, InTurn
  <2>3. CASE m # n
    BY <1>1, <1>2, <1>3, <2>1, <2>3 DEF RecentInv, OthersOlder
  <2> QED
    BY <2>2, <2>3
<1>6. InTurn(recent, tunnels, last, stale)' /\ OthersOlder(recent, tunnels, last, stale)'
  BY <1>1, <1>2, <1>4, <1>5 DEF InTurn, OthersOlder
<1>7. ASSUME NEW m \in Names PROVE last'[m] <= now'
  <2>1. now \in Nat /\ last[m] <= now
    BY DEF RecentInv
  <2> QED
    BY <1>1, <2>1
<1> QED
  BY <1>1, <1>6, <1>7 DEF RecentInv

\* handleTunnelRemoved.
LEMMA RemoveTunnelInv ==
  ASSUME RecentInv, NEW n \in Names, RemoveTunnel(n)
  PROVE  RecentInv'
<1>1. /\ tunnels' = tunnels \ {n} /\ stale' = stale /\ last' = last /\ now' = now
      /\ recent' = RemoveFirst(recent, n) /\ recent \in Seq(Names) /\ Len(recent) \in Nat
  BY DEF RemoveTunnel, RecentInv
<1>2. PICK r : r = RemoveFirst(recent, n)
  OBVIOUS
<1>3. /\ r \in Seq(Names) /\ Thinned(recent, r)
      /\ \A i \in 1 .. Len(recent) : recent[i] # n => \E k \in 1 .. Len(r) : r[k] = recent[i]
      /\ (\A i, j \in 1 .. Len(recent) : recent[i] = n /\ recent[j] = n => i = j) => \A k \in 1 .. Len(r) : r[k] # n
  BY <1>1, <1>2, FirstRemoved
<1>4. n \notin stale => \A k \in 1 .. Len(r) : r[k] # n
  BY <1>3, OccursOnce
<1>5. InTurn(r, tunnels, last, stale)
  BY <1>3, ThinnedInTurn DEF RecentInv
<1>6. InTurn(r, tunnels', last, stale)
  BY <1>1, <1>4, <1>5 DEF InTurn
<1>7. PICK f : IsFrom(recent, Len(recent), r, f)
  BY <1>3 DEF Thinned
<1>8. OthersOlder(r, tunnels', last, stale)
  <2>1. SUFFICES ASSUME NEW i \in 1 .. Len(r), r[i] \notin stale, NEW m \in tunnels' \ stale,
                        \A j \in 1 .. Len(r) : r[j] # m
                 PROVE  last[m] < last[r[i]]
    BY DEF OthersOlder
  <2>2. \A j \in 1 .. Len(recent) : recent[j] # m
    BY <1>1, <1>3, <2>1
  <2>3. f[i] \in 1 .. Len(recent) /\ r[i] = recent[f[i]]
    BY <1>7 DEF IsFrom
  <2> QED
    BY <1>1, <2>1, <2>2, <2>3 DEF RecentInv, OthersOlder
<1>9. InTurn(recent, tunnels, last, stale)' /\ OthersOlder(recent, tunnels, last, stale)'
  BY <1>1, <1>2, <1>6, <1>8 DEF InTurn, OthersOlder
<1> QED
  BY <1>1, <1>2, <1>3, <1>9 DEF RecentInv

\* cleanupTunnels.
LEMMA LaunchRecentInv ==
  ASSUME RecentInv, Launch
  PROVE  RecentInv'
<1>1. /\ tunnels' = tunnels /\ stale' = stale \cap tunnels /\ last' = last /\ now' = now
      /\ recent' = Kept(recent, tunnels) /\ recent \in Seq(Names) /\ Len(recent) \in Nat
  BY DEF Launch, RecentInv
<1>2. PICK r : r = Kept(recent, tunnels)
  OBVIOUS
<1>3. Keeps(recent, tunnels, Names, Len(recent), r)
  BY <1>1, <1>2, KeptIs
<1>4. r \in Seq(Names) /\ Thinned(recent, r) /\ \A k \in 1 .. Len(r) : r[k] \in tunnels
  BY <1>3 DEF Keeps, Thinned
<1>5. InTurn(r, tunnels, last, stale)
  BY <1>4, ThinnedInTurn DEF RecentInv
<1>6. InTurn(r, tunnels, last, stale')
  BY <1>1, <1>4, <1>5 DEF InTurn
<1>7. PICK f : IsFrom(recent, Len(recent), r, f)
  BY <1>4 DEF Thinned
<1>8. OthersOlder(r, tunnels, last, stale')
  <2>1. SUFFICES ASSUME NEW i \in 1 .. Len(r), r[i] \notin stale', NEW m \in tunnels \ stale',
                        \A j \in 1 .. Len(r) : r[j] # m
                 PROVE  last[m] < last[r[i]]
    BY DEF OthersOlder
  <2>2. \A j \in 1 .. Len(recent) : recent[j] # m
    BY <1>1, <1>3, <2>1 DEF Keeps
  <2>3. f[i] \in 1 .. Len(recent) /\ r[i] = recent[f[i]] /\ r[i] \notin stale /\ m \notin stale
    BY <1>1, <1>4, <1>7, <2>1 DEF IsFrom
  <2> QED
    BY <1>1, <2>1, <2>2, <2>3 DEF RecentInv, OthersOlder
<1>9. InTurn(recent, tunnels, last, stale)' /\ OthersOlder(recent, tunnels, last, stale)'
  BY <1>1, <1>2, <1>6, <1>8 DEF InTurn, OthersOlder
<1> QED
  BY <1>1, <1>2, <1>4, <1>9 DEF RecentInv

\* handleTunnelRenamed.
LEMMA RenameInv ==
  ASSUME RecentInv, NEW old \in Names, NEW new \in Names, Rename(old, new)
  PROVE  RecentInv'
<1>1. /\ old \in tunnels /\ new \notin tunnels /\ tunnels' = (tunnels \ {old}) \cup {new} /\ now' = now
      /\ stale' = IF old \in stale THEN stale \cup {new} ELSE stale
      /\ recent' = IF old \in Range(recent)
                   THEN [recent EXCEPT ![SelectInSeq(recent, LAMBDA n : n = old)] = new] ELSE recent
      /\ last' = [last EXCEPT ![new] = last[old]]
      /\ recent \in Seq(Names) /\ last \in [Names -> Nat] /\ stale \subseteq Names /\ tunnels \subseteq Names
      /\ InTurn(recent, tunnels, last, stale) /\ OthersOlder(recent, tunnels, last, stale)
  BY DEF Rename, RecentInv
<1>2. PICK n : n = Len(recent)
  OBVIOUS
<1>3. n \in Nat /\ DOMAIN recent = 1 .. n
  BY <1>1, <1>2
<1>4. PICK r, since, gone, names : r = recent' /\ since = last' /\ gone = stale' /\ names = tunnels'
  OBVIOUS
<1>5. /\ since \in [Names -> Nat] /\ since[new] = last[old] /\ \A m \in Names \ {new} : since[m] = last[m]
  BY <1>1, <1>4
<1>6. \/ r = recent /\ \A i \in 1 .. n : recent[i] # old
      \/ \E p \in 1 .. n : recent[p] = old /\ r = [recent EXCEPT ![p] = new]
  <2> DEFINE I == {i \in 1 .. Len(recent) : recent[i] = old}
  <2>1. CASE I = {}
    BY <1>1, <1>2, <1>3, <1>4, <2>1 DEF Range
  <2>2. CASE I # {}
    <3>1. PICK p : p = Min(I)
      OBVIOUS
    <3>2. p \in I
      <4>1. I \in SUBSET Nat
        OBVIOUS
      <4>2. \E x \in I : \A y \in I : x <= y
        BY <2>2, <4>1, LeastNatural
      <4> QED
        BY <3>1, <4>2 DEF Min
    <3>3. SelectInSeq(recent, LAMBDA v : v = old) = p
      BY <2>2, <3>1 DEF SelectInSeq
    <3>4. old \in Range(recent)
      BY <1>2, <1>3, <3>2 DEF Range
    <3> QED
      BY <1>1, <1>2, <1>4, <3>2, <3>3, <3>4
  <2> QED
    BY <2>1, <2>2
<1>7. /\ r \in Seq(Names) /\ Len(r) = n
      /\ \A i \in 1 .. n : r[i] = recent[i] \/ (r[i] = new /\ recent[i] = old)
      /\ (\A i \in 1 .. n : recent[i] # old) \/ (\E i \in 1 .. n : recent[i] = old /\ r[i] = new)
  <2>1. CASE r = recent /\ \A i \in 1 .. n : recent[i] # old
    BY <1>1, <1>2, <2>1
  <2>2. ASSUME NEW p \in 1 .. n, recent[p] = old, r = [recent EXCEPT ![p] = new]
        PROVE  /\ r \in Seq(Names) /\ Len(r) = n /\ recent[p] = old /\ r[p] = new
               /\ \A i \in 1 .. n : r[i] = recent[i] \/ (r[i] = new /\ recent[i] = old)
    BY <1>1, <1>2, <1>3, <2>2
  <2> QED
    BY <1>6, <2>1, <2>2
<1>8. old \notin stale => \A i \in 1 .. n : recent[i] = old => r[i] = new
  <2>1. SUFFICES ASSUME old \notin stale, NEW i \in 1 .. n, recent[i] = old PROVE r[i] = new
    OBVIOUS
  <2>2. PICK p \in 1 .. n : recent[p] = old /\ r[p] = new
    BY <1>7, <2>1
  <2>3. p = i
    BY <1>2, <2>1, <2>2, OccursOnce
  <2> QED
    BY <2>2, <2>3
\* what counts now has counted before, and is as old
<1>9. ASSUME NEW i \in 1 .. n, r[i] \notin gone
      PROVE  recent[i] \notin stale /\ since[r[i]] = last[recent[i]] /\ r[i] \in names
  <2>1. CASE recent[i] = old
    <3>1. old \notin stale
      <4>1. SUFFICES ASSUME old \in stale PROVE FALSE
        OBVIOUS
      <4>2. gone = stale \cup {new}
        BY <1>1, <1>4, <4>1
      <4> QED
        BY <1>7, <1>9, <2>1, <4>1, <4>2
    <3>2. r[i] = new
      BY <1>8, <2>1, <3>1
    <3> QED
      BY <1>1, <1>4, <1>5, <2>1, <3>1, <3>2
  <2>2. CASE recent[i] # old
    <3>1. r[i] = recent[i] /\ recent[i] \notin stale
      <4>1. stale \subseteq gone
        BY <1>1, <1>4
      <4> QED
        BY <1>7, <1>9, <2>2, <4>1
    <3>2. recent[i] \in tunnels
      BY <1>1, <1>2, <3>1 DEF InTurn
    <3> QED
      BY <1>1, <1>4, <1>5, <2>2, <3>1, <3>2
  <2> QED
    BY <2>1, <2>2
<1>10. InTurn(r, names, since, gone)
  BY <1>1, <1>2, <1>7, <1>9 DEF InTurn
<1>11. OthersOlder(r, names, since, gone)
  <2>1. SUFFICES ASSUME NEW i \in 1 .. n, r[i] \notin gone, NEW m \in names \ gone, \A j \in 1 .. n : r[j] # m
                 PROVE  since[m] < since[r[i]]
    BY <1>7 DEF OthersOlder
  <2>2. CASE m = new
    <3>1. old \notin stale
      BY <1>1, <1>4, <2>1, <2>2
    <3>2. \A j \in 1 .. n : recent[j] # old
      BY <1>8, <2>1, <2>2, <3>1
    <3> QED
      BY <1>1, <1>2, <1>5, <1>9, <2>1, <2>2, <3>1, <3>2 DEF OthersOlder
  <2>3. CASE m # new
    <3>1. m \in tunnels \ stale /\ m # old
      BY <1>1, <1>4, <2>1, <2>3
    <3>2. \A j \in 1 .. n : recent[j] # m
      BY <1>7, <2>1, <3>1
    <3> QED
      BY <1>1, <1>2, <1>5, <1>9, <2>1, <2>3, <3>1, <3>2 DEF OthersOlder
  <2> QED
    BY <2>2, <2>3
<1>12. InTurn(recent, tunnels, last, stale)' /\ OthersOlder(recent, tunnels, last, stale)'
  BY <1>4, <1>10, <1>11 DEF InTurn, OthersOlder
<1>13. \A m \in Names : last'[m] <= now'
  BY <1>1, <1>4, <1>5 DEF RecentInv
<1> QED
  BY <1>1, <1>4, <1>5, <1>7, <1>12, <1>13 DEF RecentInv

\* The tunnel n comes to the front of s, and the list is cut at the limit.
LEMMA InFrontIs ==
  ASSUME RecentInv, NEW n \in Names
  PROVE  LET s == RemoveFirst(recent, n) r == InFront(n) IN
         /\ r \in Seq(Names) /\ Len(r) <= MaxNumberOfTunnels /\ Len(r) <= Len(s) + 1
         /\ (Len(r) < Len(s) + 1 => Len(r) = MaxNumberOfTunnels)
         /\ \A k \in 1 .. Len(r) : r[k] = IF k = 1 THEN n ELSE s[k - 1]
<1>1. PICK s, r, u : s = RemoveFirst(recent, n) /\ r = InFront(n) /\ u = <<n>> \o s
  OBVIOUS
<1>2. s \in Seq(Names)
  BY <1>1, FirstRemoved DEF RecentInv
<1>3. <<n>> \in Seq(Names) /\ Len(<<n>>) = 1 /\ <<n>>[1] = n
  OBVIOUS
<1>4. /\ u \in Seq(Names) /\ Len(u) = 1 + Len(s)
      /\ \A i \in 1 .. 1 + Len(s) : u[i] = IF i <= 1 THEN <<n>>[i] ELSE s[i - 1]
  BY <1>1, <1>2, <1>3, ConcatProperties
<1>5. PICK m : m = IF Len(u) > MaxNumberOfTunnels THEN MaxNumberOfTunnels ELSE Len(u)
  OBVIOUS
<1>6. m \in Nat /\ m <= Len(u) /\ m <= MaxNumberOfTunnels /\ (m < Len(u) => m = MaxNumberOfTunnels) /\ Len(s) \in Nat
  BY <1>2, <1>4, <1>5, RecentAssumption
<1>7. r = SubSeq(u, 1, m)
  BY <1>1, <1>5 DEF InFront, Shortened
<1>8. r \in Seq(Names) /\ Len(r) = m /\ \A k \in 1 .. m : r[k] = u[k]
  BY <1>4, <1>6, <1>7
<1>9. ASSUME NEW k \in 1 .. m PROVE r[k] = IF k = 1 THEN n ELSE s[k - 1]
  BY <1>3, <1>4, <1>6, <1>8
<1> QED
  BY <1>1, <1>4, <1>6, <1>8, <1>9

\* handleTunnelActivated.
LEMMA ActivateInv ==
  ASSUME RecentInv, NEW n \in Names, Activate(n)
  PROVE  RecentInv'
<1>1. /\ n \in tunnels /\ tunnels' = tunnels /\ stale' = stale /\ recent' = InFront(n)
      /\ now' = now + 1 /\ last' = [last EXCEPT ![n] = now + 1]
      /\ recent \in Seq(Names) /\ last \in [Names -> Nat] /\ now \in Nat /\ tunnels \subseteq Names
      /\ \A m \in Names : last[m] <= now
  BY DEF Activate, RecentInv
<1>2. PICK s, r, since : s = RemoveFirst(recent, n) /\ r = recent' /\ since = last'
  OBVIOUS
<1>3. /\ since \in [Names -> Nat] /\ since[n] = now + 1
      /\ \A m \in Names \ {n} : since[m] = last[m] /\ since[m] < since[n] /\ since[m] <= now + 1
  BY <1>1, <1>2
<1>4. /\ r \in Seq(Names) /\ Len(r) <= MaxNumberOfTunnels /\ Len(r) <= Len(s) + 1
      /\ (Len(r) < Len(s) + 1 => Len(r) = MaxNumberOfTunnels)
      /\ \A k \in 1 .. Len(r) : r[k] = IF k = 1 THEN n ELSE s[k - 1]
  BY <1>1, <1>2, InFrontIs
<1>5. /\ s \in Seq(Names) /\ Thinned(recent, s) /\ Len(s) \in Nat /\ Len(r) \in Nat
      /\ \A i \in 1 .. Len(recent) : recent[i] # n => \E k \in 1 .. Len(s) : s[k] = recent[i]
      /\ (\A i, j \in 1 .. Len(recent) : recent[i] = n /\ recent[j] = n => i = j) => \A k \in 1 .. Len(s) : s[k] # n
  <2>1. /\ s \in Seq(Names) /\ Thinned(recent, s)
        /\ \A i \in 1 .. Len(recent) : recent[i] # n => \E k \in 1 .. Len(s) : s[k] = recent[i]
        /\ (\A i, j \in 1 .. Len(recent) : recent[i] = n /\ recent[j] = n => i = j) => \A k \in 1 .. Len(s) : s[k] # n
    <3>1. recent \in Seq(Names) /\ s = RemoveFirst(recent, n)
      BY <1>1, <1>2
    <3> QED
      BY <3>1, FirstRemoved
  <2> QED
    BY <1>4, <2>1
<1>6. n \notin stale => \A k \in 1 .. Len(s) : s[k] # n
  BY <1>5, OccursOnce
<1>7. InTurn(s, tunnels, last, stale)
  BY <1>5, ThinnedInTurn DEF RecentInv
<1>8. PICK f : IsFrom(recent, Len(recent), s, f)
  BY <1>5 DEF Thinned
\* behind the first place stand others, as before
<1>9. ASSUME NEW k \in 1 .. Len(r), k # 1, r[k] \notin stale
      PROVE  /\ k - 1 \in 1 .. Len(s) /\ r[k] = s[k - 1] /\ r[k] \in Names \ {n}
             /\ since[r[k]] = last[s[k - 1]] /\ since[r[k]] < since[n]
  <2>1. k - 1 \in 1 .. Len(s) /\ r[k] = s[k - 1] /\ r[k] \in Names
    BY <1>4, <1>5, <1>9
  <2>2. r[k] # n
    BY <1>6, <1>9, <2>1
  <2> QED
    BY <1>3, <2>1, <2>2
<1>10. InTurn(r, tunnels, since, stale)
  <2>1. SUFFICES ASSUME NEW i \in 1 .. Len(r), r[i] \notin stale
                 PROVE  /\ r[i] \in tunnels /\ since[r[i]] > 0
                        /\ \A j \in 1 .. Len(r) : i < j /\ r[j] \notin stale => since[r[i]] > since[r[j]]
    BY DEF InTurn
  <2>2. CASE i = 1
    <3>1. r[i] = n
      BY <1>4, <2>1, <2>2
    <3>2. ASSUME NEW j \in 1 .. Len(r), i < j, r[j] \notin stale PROVE since[r[i]] > since[r[j]]
      <4>1. since[r[j]] < since[n] /\ r[j] \in Names
        BY <1>9, <2>2, <3>2
      <4> QED
        BY <1>3, <3>1, <4>1
    <3> QED
      BY <1>1, <1>3, <3>1, <3>2
  <2>3. CASE i # 1
    <3>1. /\ i - 1 \in 1 .. Len(s) /\ r[i] = s[i - 1] /\ since[r[i]] = last[s[i - 1]] /\ s[i - 1] \notin stale
      BY <1>9, <2>1, <2>3
    <3>2. ASSUME NEW j \in 1 .. Len(r), i < j, r[j] \notin stale PROVE since[r[i]] > since[r[j]]
      <4>1. j - 1 \in 1 .. Len(s) /\ r[j] = s[j - 1] /\ since[r[j]] = last[s[j - 1]] /\ i - 1 < j - 1
        BY <1>5, <1>9, <3>2
      <4> QED
        BY <1>7, <3>1, <3>2, <4>1 DEF InTurn
    <3> QED
      BY <1>7, <3>1, <3>2 DEF InTurn
  <2> QED
    BY <2>2, <2>3
<1>11. OthersOlder(r, tunnels, since, stale)
  <2>1. SUFFICES ASSUME NEW i \in 1 .. Len(r), r[i] \notin stale, NEW m \in tunnels \ stale,
                        \A j \in 1 .. Len(r) : r[j] # m
                 PROVE  since[m] < since[r[i]]
    BY DEF OthersOlder
  <2>2. 1 \in 1 .. Len(r) /\ r[1] = n
    BY <1>4, <1>5, <2>1
  <2>3. m \in Names \ {n} /\ since[m] = last[m] /\ since[m] < since[n]
    BY <1>1, <1>3, <2>1, <2>2
  <2>4. CASE i = 1
    BY <2>2, <2>3, <2>4
  <2>5. CASE i # 1
    <3>1. /\ i - 1 \in 1 .. Len(s) /\ r[i] = s[i - 1] /\ since[r[i]] = last[s[i - 1]] /\ s[i - 1] \notin stale
      BY <1>9, <2>1, <2>5
    <3>2. CASE \E j \in 1 .. Len(s) : s[j] = m
      <4>1. PICK j \in 1 .. Len(s) : s[j] = m
        BY <3>2
      <4>2. j > i - 1
        <5>1. SUFFICES ASSUME j <= i - 1 PROVE FALSE
          BY <3>1, <4>1
        <5>2. j + 1 \in 1 .. Len(r) /\ j + 1 # 1 /\ (j + 1) - 1 = j
          BY <1>5, <2>1, <5>1
        <5>3. r[j + 1] = m
          BY <1>4, <4>1, <5>2
        <5> QED
          BY <2>1, <5>2, <5>3
      <4> QED
        BY <1>7, <2>1, <2>3, <3>1, <4>1, <4>2 DEF InTurn
    <3>3. CASE \A j \in 1 .. Len(s) : s[j] # m
      <4>1. \A j \in 1 .. Len(recent) : recent[j] # m
        BY <1>5, <2>3, <3>3
      <4>2. f[i - 1] \in 1 .. Len(recent) /\ s[i - 1] = recent[f[i - 1]]
        BY <1>8, <3>1 DEF IsFrom
      <4> QED
        BY <2>1, <2>3, <3>1, <4>1, <4>2 DEF RecentInv, OthersOlder
    <3> QED
      BY <3>2, <3>3
  <2> QED
    BY <2>4, <2>5
<1>12. InTurn(recent, tunnels, last, stale)' /\ OthersOlder(recent, tunnels, last, stale)'
  BY <1>1, <1>2, <1>10, <1>11 DEF InTurn, OthersOlder
<1>13. \A m \in Names : last'[m] <= now'
  BY <1>1, <1>2, <1>3
<1> QED
  BY <1>1, <1>2, <1>3, <1>4, <1>12, <1>13 DEF RecentInv

\* Every step keeps the order.
LEMMA RecentStepInv == RecentInv /\ [RecentNext]_recentVars => RecentInv'
<1> SUFFICES ASSUME RecentInv, [RecentNext]_recentVars PROVE RecentInv'
  OBVIOUS
<1>1. CASE UNCHANGED recentVars
  BY <1>1 DEF recentVars, RecentInv, InTurn, OthersOlder
<1>2. CASE RecentNext
  BY <1>2, ActivateInv, AddRecentInv, RemoveTunnelInv, DeletedInv, RenameInv, LaunchRecentInv DEF RecentNext
<1> QED
  BY <1>1, <1>2

\* The recent tunnels stand in the order of their activations, and no other tunnel is as
\* new: handleTunnelActivated, -Removed, -Renamed and cleanupTunnels keep the list so,
\* for any number of tunnels and any limit.
THEOREM NewestStandFirst == RecentSpec => []NewestFirst
<1>1. RecentInv => NewestFirst
  <2>1. SUFFICES ASSUME RecentInv, NEW i \in DOMAIN recent, recent[i] \notin stale
                 PROVE  /\ \A j \in DOMAIN recent : i < j /\ recent[j] \notin stale => last[recent[i]] > last[recent[j]]
                        /\ \A n \in tunnels \ (stale \cup Range(recent)) : last[n] < last[recent[i]]
    BY DEF NewestFirst
  <2>2. DOMAIN recent = 1 .. Len(recent)
    BY <2>1 DEF RecentInv
  <2>3. \A n \in tunnels \ (stale \cup Range(recent)) : \A j \in 1 .. Len(recent) : recent[j] # n
    BY <2>2 DEF Range
  <2> QED
    BY <2>1, <2>2, <2>3 DEF RecentInv, InTurn, OthersOlder
<1> QED
  BY <1>1, RecentInitInv, RecentStepInv, PTL DEF RecentSpec

-----------------------------------------------------------------------------
(* Sorting.                                                                *)

IsSorting(s, n, sorted) ==
  sorted = [i \in 0 .. n |-> IF i = 0 THEN <<>> ELSE Inserted(sorted[i - 1], s[i])]

\* The loop of Sorted is defined.
LEMMA SortingIs ==
  ASSUME NEW s, NEW n \in Nat
  PROVE  \E sorted : IsSorting(s, n, sorted)
<1> DEFINE D == {i \in Nat : \E sorted : IsSorting(s, i, sorted)}
<1>1. 0 \in D
  <2>1. PICK f : f = [l \in 0 .. 0 |-> <<>>]
    OBVIOUS
  <2>2. f = [l \in 0 .. 0 |-> IF l = 0 THEN <<>> ELSE Inserted(f[l - 1], s[l])]
    BY <2>1
  <2> QED
    BY <2>2 DEF IsSorting
<1>2. ASSUME NEW i \in Nat, i \in D PROVE i + 1 \in D
  <2>1. PICK f : IsSorting(s, i, f)
    BY <1>2
  <2>2. \A l \in 0 .. i : f[l] = IF l = 0 THEN <<>> ELSE Inserted(f[l - 1], s[l])
    BY <2>1, Zenon DEF IsSorting
  <2>3. PICK g : g = [l \in 0 .. i + 1 |-> IF l <= i THEN f[l] ELSE Inserted(f[i], s[i + 1])]
    OBVIOUS
  <2>4. ASSUME NEW l \in 0 .. i + 1
        PROVE  g[l] = IF l = 0 THEN <<>> ELSE Inserted(g[l - 1], s[l])
    <3>1. CASE l <= i
      BY <1>2, <2>2, <2>3, <3>1
    <3>2. CASE l = i + 1
      BY <1>2, <2>3, <3>2
    <3> QED
      BY <1>2, <3>1, <3>2
  <2>5. g = [l \in 0 .. i + 1 |-> IF l = 0 THEN <<>> ELSE Inserted(g[l - 1], s[l])]
    BY <2>3, <2>4
  <2>6. IsSorting(s, i + 1, g)
    BY <2>5, Zenon DEF IsSorting
  <2> QED
    BY <1>2, <2>6
<1> HIDE DEF D
<1>3. n \in D
  BY <1>1, <1>2, Induction
<1> QED
  BY <1>3 DEF D

\* t holds e and all of s.
Extends(s, e, T, t) ==
  /\ t \in Seq(T) /\ Len(t) = Len(s) + 1
  /\ \E k \in 1 .. Len(t) : t[k] = e
  /\ \A i \in 1 .. Len(s) : \E k \in 1 .. Len(t) : t[k] = s[i]

\* An insertion loses nothing.
LEMMA InsertedIs ==
  ASSUME NEW T, NEW s \in Seq(T), NEW e \in T
  PROVE  Extends(s, e, T, Inserted(s, e))
<1>1. PICK n, k : n = Len(s) /\ k = Cardinality({i \in DOMAIN s : s[i].name <= e.name})
  OBVIOUS
<1>2. n \in Nat /\ DOMAIN s = 1 .. n
  BY <1>1
<1>3. k \in 0 .. n
  <2>1. IsFiniteSet(1 .. n) /\ Cardinality(1 .. n) = n
    <3>1. 1 \in Int /\ n \in Int
      BY <1>2
    <3>2. IsFiniteSet(1 .. n) /\ Cardinality(1 .. n) = IF 1 > n THEN 0 ELSE n - 1 + 1
      BY <3>1, FS_Interval
    <3> QED
      BY <1>2, <3>2
  <2>2. PICK U : U = {i \in DOMAIN s : s[i].name <= e.name}
    OBVIOUS
  <2>3. U \in SUBSET (1 .. n)
    BY <1>2, <2>2
  <2>4. IsFiniteSet(U) /\ Cardinality(U) <= n
    BY <2>1, <2>3, FS_Subset
  <2>5. Cardinality(U) \in Nat
    BY <2>4, FS_CardinalityType
  <2> QED
    BY <1>1, <1>2, <2>2, <2>4, <2>5
<1>4. PICK a, b : a = SubSeq(s, 1, k) /\ b = SubSeq(s, k + 1, n)
  OBVIOUS
<1>5. /\ a \in Seq(T) /\ Len(a) = k /\ \A i \in 1 .. k : a[i] = s[i]
      /\ b \in Seq(T) /\ Len(b) = n - k /\ \A i \in 1 .. n - k : b[i] = s[i + k]
  <2>1. k \in Nat /\ k + 1 \in Int /\ n \in Int /\ \A i \in 1 .. n : s[i] \in T
    BY <1>1, <1>2, <1>3
  <2>2. /\ SubSeq(s, 1, k) \in Seq(T) /\ Len(SubSeq(s, 1, k)) = IF 1 <= k THEN k - 1 + 1 ELSE 0
        /\ \A i \in 1 .. k - 1 + 1 : SubSeq(s, 1, k)[i] = s[1 + i - 1]
    BY <1>3, <2>1, SubSeqProperties
  <2>3. /\ SubSeq(s, k + 1, n) \in Seq(T) /\ Len(SubSeq(s, k + 1, n)) = IF k + 1 <= n THEN n - (k + 1) + 1 ELSE 0
        /\ \A i \in 1 .. n - (k + 1) + 1 : SubSeq(s, k + 1, n)[i] = s[(k + 1) + i - 1]
    BY <1>3, <2>1, SubSeqProperties
  <2>4. a \in Seq(T) /\ Len(a) = k /\ \A i \in 1 .. k : a[i] = s[i]
    BY <1>3, <1>4, <2>1, <2>2
  <2>5. b \in Seq(T) /\ Len(b) = n - k
    BY <1>2, <1>3, <1>4, <2>1, <2>3
  <2>6. ASSUME NEW i \in 1 .. n - k PROVE b[i] = s[i + k]
    BY <1>2, <1>3, <1>4, <2>3
  <2> QED
    BY <2>4, <2>5, <2>6
<1>6. <<e>> \in Seq(T) /\ Len(<<e>>) = 1 /\ <<e>>[1] = e
  OBVIOUS
<1>7. PICK u : u = a \o <<e>>
  OBVIOUS
<1>8. /\ u \in Seq(T) /\ Len(u) = k + 1
      /\ \A i \in 1 .. k + 1 : u[i] = IF i <= k THEN a[i] ELSE <<e>>[i - k]
  <2>1. /\ a \o <<e>> \in Seq(T) /\ Len(a \o <<e>>) = Len(a) + Len(<<e>>)
        /\ \A i \in 1 .. Len(a) + Len(<<e>>) : (a \o <<e>>)[i] = IF i <= Len(a) THEN a[i] ELSE <<e>>[i - Len(a)]
    <3>1. a \in Seq(T) /\ <<e>> \in Seq(T)
      BY <1>5, <1>6
    <3> QED
      BY <3>1, ConcatProperties, Zenon
  <2> QED
    BY <1>5, <1>6, <1>7, <2>1
<1>9. u[k + 1] = e /\ \A i \in 1 .. k : u[i] = s[i]
  BY <1>3, <1>5, <1>6, <1>8
<1>10. PICK t : t = u \o b
  OBVIOUS
<1>11. /\ t \in Seq(T) /\ Len(t) = k + 1 + (n - k)
       /\ \A i \in 1 .. k + 1 + (n - k) : t[i] = IF i <= k + 1 THEN u[i] ELSE b[i - (k + 1)]
  <2>1. /\ u \o b \in Seq(T) /\ Len(u \o b) = Len(u) + Len(b)
        /\ \A i \in 1 .. Len(u) + Len(b) : (u \o b)[i] = IF i <= Len(u) THEN u[i] ELSE b[i - Len(u)]
    <3>1. u \in Seq(T) /\ b \in Seq(T)
      BY <1>5, <1>8
    <3> QED
      BY <3>1, ConcatProperties, Zenon
  <2> QED
    BY <1>5, <1>8, <1>10, <2>1
<1>12. Len(t) = n + 1
  BY <1>2, <1>3, <1>11
<1>13. t = Inserted(s, e)
  BY <1>1, <1>4, <1>7, <1>10 DEF Inserted
<1>14. k + 1 \in 1 .. n + 1 /\ t[k + 1] = e
  BY <1>2, <1>3, <1>9, <1>11
<1>15. ASSUME NEW i \in 1 .. n PROVE \E l \in 1 .. n + 1 : t[l] = s[i]
  <2>1. CASE i <= k
    <3>1. i \in 1 .. n + 1 /\ t[i] = s[i]
      BY <1>2, <1>3, <1>9, <1>11, <2>1
    <3> QED
      BY <3>1
  <2>2. CASE i > k
    <3>1. i + 1 \in 1 .. n + 1 /\ (i + 1) - (k + 1) = i - k /\ i - k \in 1 .. n - k /\ (i - k) + k = i
      BY <1>2, <1>3, <2>2
    <3>2. t[i + 1] = b[i - k]
      BY <1>2, <1>3, <1>11, <2>2, <3>1
    <3> QED
      BY <1>5, <3>1, <3>2
  <2> QED
    BY <1>3, <2>1, <2>2
<1>16. Extends(s, e, T, t)
  BY <1>1, <1>11, <1>12, <1>14, <1>15 DEF Extends
<1> QED
  BY <1>13, <1>16

\* Sorting loses nothing.
LEMMA SortedIs ==
  ASSUME NEW T, NEW s \in Seq(T)
  PROVE  /\ Sorted(s) \in Seq(T) /\ Len(Sorted(s)) = Len(s)
         /\ \A i \in 1 .. Len(s) : \E k \in 1 .. Len(s) : Sorted(s)[k] = s[i]
<1>1. PICK n : n = Len(s)
  OBVIOUS
<1>2. n \in Nat
  BY <1>1
<1>3. PICK f : f = CHOOSE sorted : IsSorting(s, n, sorted)
  OBVIOUS
<1>4. IsSorting(s, n, f)
  BY <1>2, <1>3, SortingIs
<1>5. Sorted(s) = f[n]
  BY <1>1, <1>3 DEF Sorted, IsSorting
<1> DEFINE Good(i) == /\ f[i] \in Seq(T) /\ Len(f[i]) = i
                      /\ \A j \in 1 .. i : \E k \in 1 .. i : f[i][k] = s[j]
           D == {i \in Nat : i <= n => Good(i)}
<1>6. \A l \in 0 .. n : f[l] = IF l = 0 THEN <<>> ELSE Inserted(f[l - 1], s[l])
  BY <1>4, Zenon DEF IsSorting
<1>7. 0 \in D
  <2>1. f[0] = <<>>
    <3>1. 0 \in 0 .. n
      BY <1>2
    <3> QED
      BY <1>6, <3>1, Zenon
  <2>2. Good(0)
    BY <2>1
  <2> QED
    BY <2>2
<1>8. ASSUME NEW i \in Nat, i \in D PROVE i + 1 \in D
  <2> HIDE DEF Good
  <2>1. SUFFICES ASSUME i + 1 <= n PROVE Good(i + 1)
    BY <1>8
  <2>2. Good(i)
    BY <1>2, <1>8, <2>1
  <2> USE DEF Good
  <2>3. i + 1 \in 0 .. n /\ i + 1 # 0 /\ (i + 1) - 1 = i /\ s[i + 1] \in T
    BY <1>1, <1>2, <2>1
  <2>4. PICK u, t : u = f[i] /\ t = f[i + 1]
    OBVIOUS
  <2>5. t = Inserted(u, s[i + 1])
    BY <1>6, <2>3, <2>4
  <2>6. u \in Seq(T) /\ Len(u) = i /\ \A j \in 1 .. i : \E k \in 1 .. i : u[k] = s[j]
    BY <2>2, <2>4
  <2>7. /\ t \in Seq(T) /\ Len(t) = i + 1
        /\ \E k \in 1 .. i + 1 : t[k] = s[i + 1]
        /\ \A j \in 1 .. i : \E k \in 1 .. i + 1 : t[k] = u[j]
    <3>1. PICK e : e = s[i + 1]
      OBVIOUS
    <3>2. u \in Seq(T) /\ e \in T
      BY <2>3, <2>6, <3>1
    <3>3. Extends(u, e, T, Inserted(u, e))
      BY <3>2, InsertedIs
    <3>4. t = Inserted(u, e)
      BY <2>5, <3>1
    <3>5. Extends(u, e, T, t)
      BY <3>3, <3>4
    <3> QED
      BY <2>6, <3>1, <3>5 DEF Extends
  <2>8. ASSUME NEW j \in 1 .. i + 1 PROVE \E k \in 1 .. i + 1 : t[k] = s[j]
    <3>1. CASE j = i + 1
      BY <2>7, <3>1
    <3>2. CASE j \in 1 .. i
      <4>1. PICK k \in 1 .. i : u[k] = s[j]
        BY <2>6, <3>2
      <4> QED
        BY <2>7, <4>1
    <3> QED
      BY <3>1, <3>2
  <2> QED
    BY <2>4, <2>7, <2>8
<1> HIDE DEF D
<1>9. n \in D
  BY <1>2, <1>7, <1>8, Induction
<1> QED
  BY <1>1, <1>2, <1>5, <1>9 DEF D

-----------------------------------------------------------------------------
(* Importing: what is read.                                                *)

Wanted  == ConfigNames \cup {BlankName}
Configs == Wanted \cup {NoConfig}

Occurs(c, s) == \E k \in 1 .. Len(s) : s[k] = c

WellMade(file) == file \in Files /\ (file.kind = "conf" => Len(file.entries) = 1)

\* Unless a nil stands among them, the configurations r of the file are all it holds.
ReadInFull(file, r) ==
  \/ file.kind = "zip" /\ ~Reads(file) /\ r = <<>>
  \/ Occurs(NoConfig, r)
  \/ /\ Reads(file) /\ r # <<>>
     /\ \A i \in 1 .. Len(file.entries) :
          \/ file.entries[i].body # Bad /\ Occurs(file.entries[i].name, r)
          \/ file.entries[i].name = BlankName /\ file.kind = "zip"

\* A name is no nil.
LEMMA NamesAreNoNil == NoConfig \notin Wanted /\ BlankName \in Wanted /\ Wanted \subseteq Configs
BY ImportAssumption DEF Wanted, Configs, NoConfig, BlankName

\* What an archive that can be read holds.
LEMMA ZipIs ==
  ASSUME NEW file, WellMade(file), file.kind = "zip", Reads(file)
  PROVE  ZipConfigs(file) \in Seq(Configs) /\ ReadInFull(file, ZipConfigs(file))
<1> DEFINE E == [name : ConfigNames \cup {BlankName}, body : STRING]
<1>1. PICK all, some, z, r : /\ all = file.entries /\ some = Kept(all, Named(file))
                             /\ z = ZipEntries(file) /\ r = ZipConfigs(file)
  OBVIOUS
<1>2. all \in Seq(E) /\ Len(all) \in Nat /\ DOMAIN all = 1 .. Len(all)
  BY <1>1 DEF WellMade, Files
<1> HIDE DEF E
<1>3. /\ some \in Seq(E)
      /\ \A i \in 1 .. Len(all) : all[i] \in Named(file) => \E k \in 1 .. Len(some) : some[k] = all[i]
  <2>1. Keeps(all, Named(file), E, Len(all), some)
    BY <1>1, <1>2, KeptIs
  <2> QED
    BY <2>1 DEF Keeps
<1>4. z = Sorted(some) /\ z # <<>>
  BY <1>1 DEF ZipEntries, Reads
<1>5. /\ z \in Seq(E) /\ Len(z) = Len(some)
      /\ \A i \in 1 .. Len(some) : \E k \in 1 .. Len(some) : z[k] = some[i]
  BY <1>3, <1>4, SortedIs
<1>6. Len(z) \in Nat /\ Len(z) # 0 /\ DOMAIN z = 1 .. Len(z)
  BY <1>4, <1>5
<1>7. r = [i \in 1 .. Len(z) |-> IF i > 1 /\ z[i] = z[i - 1] THEN NoConfig ELSE ConfigOf(z[i])]
  BY <1>1, <1>6 DEF ZipConfigs
<1>8. ASSUME NEW i \in 1 .. Len(z)
      PROVE  /\ z[i] \in E /\ ConfigOf(z[i]) \in Configs /\ r[i] \in Configs
             /\ r[i] = NoConfig \/ (r[i] = z[i].name /\ z[i].body # Bad)
  <2>1. z[i] \in E
    BY <1>5, <1>8
  <2>2. z[i].name \in Wanted
    BY <2>1 DEF E, Wanted
  <2> QED
    BY <1>7, <1>8, <2>1, <2>2, NamesAreNoNil DEF ConfigOf, Configs
<1>9. r \in Seq(Configs) /\ Len(r) = Len(z)
  BY <1>6, <1>7, <1>8
<1>10. ReadInFull(file, r)
  <2>1. SUFFICES ASSUME ~Occurs(NoConfig, r), NEW i \in 1 .. Len(all), all[i].name # BlankName
                 PROVE  all[i].body # Bad /\ Occurs(all[i].name, r)
    <3>1. r # <<>>
      BY <1>6, <1>9
    <3> QED
      BY <1>1, <3>1 DEF ReadInFull
  <2>2. all[i] \in Named(file)
    BY <1>1, <1>2, <2>1 DEF Named, Range
  <2>3. PICK j \in 1 .. Len(some) : some[j] = all[i]
    BY <1>3, <2>1, <2>2
  <2>4. PICK k \in 1 .. Len(z) : z[k] = all[i]
    BY <1>5, <2>3
  <2>5. r[k] # NoConfig
    BY <1>9, <2>1, <2>4 DEF Occurs
  <2>6. r[k] = all[i].name /\ all[i].body # Bad
    BY <1>8, <2>4, <2>5
  <2> QED
    BY <1>9, <2>4, <2>6 DEF Occurs
<1> QED
  BY <1>1, <1>9, <1>10

\* What any file gives.
LEMMA ReadIs ==
  ASSUME NEW file, WellMade(file)
  PROVE  /\ ReadConfigs(file) \in Seq(Configs) /\ ReadInFull(file, ReadConfigs(file))
         /\ (file.kind = "zip" /\ ~Reads(file) => ReadConfigs(file) = <<>>)
         /\ ~IsError(file) => Reads(file) /\ (file.kind = "zip" \/ ~Occurs(NoConfig, ReadConfigs(file)))
         /\ file.kind = "conf" => Len(ReadConfigs(file)) = 1
<1>1. file.kind \in {"conf", "zip"}
  BY DEF WellMade, Files
<1>2. CASE file.kind = "zip"
  <2>1. CASE Reads(file)
    <3>1. ReadConfigs(file) = ZipConfigs(file)
      BY <1>2, <2>1 DEF ReadConfigs
    <3>2. ZipConfigs(file) \in Seq(Configs) /\ ReadInFull(file, ZipConfigs(file))
      BY <1>2, <2>1, ZipIs
    <3> QED
      BY <1>2, <2>1, <3>1, <3>2
  <2>2. CASE ~Reads(file)
    <3>1. ReadConfigs(file) = <<>>
      BY <1>2, <2>2 DEF ReadConfigs
    <3>2. <<>> \in Seq(Configs)
      OBVIOUS
    <3> QED
      BY <1>2, <2>2, <3>1, <3>2 DEF ReadInFull, IsError
  <2> QED
    BY <2>1, <2>2
<1>3. CASE file.kind = "conf"
  <2>1. PICK e, c : e = file.entries[1] /\ c = IF Reads(file) THEN ConfigOf(e) ELSE NoConfig
    OBVIOUS
  <2>2. Len(file.entries) = 1 /\ e.name \in Wanted
    <3>1. /\ file.entries \in Seq([name : ConfigNames \cup {BlankName}, body : STRING])
          /\ Len(file.entries) = 1
      BY <1>3 DEF WellMade, Files
    <3>2. e \in [name : ConfigNames \cup {BlankName}, body : STRING]
      <4>1. \A E, s : s \in Seq(E) /\ Len(s) = 1 => s[1] \in E
        OBVIOUS
      <4> QED
        BY <2>1, <3>1, <4>1, Zenon
    <3> QED
      BY <3>1, <3>2 DEF Wanted
  <2>3. ReadConfigs(file) = <<c>>
    BY <1>3, <2>1 DEF ReadConfigs
  <2>4. c \in Configs /\ (c = NoConfig \/ (Reads(file) /\ c = e.name /\ e.body # Bad))
    BY <2>1, <2>2, NamesAreNoNil DEF ConfigOf, Configs
  <2>5. Len(<<c>>) = 1 /\ <<c>>[1] = c /\ <<c>> # <<>> /\ <<c>> \in Seq(Configs)
    BY <2>4
  <2>6. Occurs(c, <<c>>) /\ (Occurs(NoConfig, <<c>>) => c = NoConfig)
    BY <2>5 DEF Occurs
  <2>7. ReadInFull(file, <<c>>)
    <3>1. CASE c = NoConfig
      BY <2>6, <3>1 DEF ReadInFull
    <3>2. CASE c # NoConfig
      BY <2>1, <2>2, <2>4, <2>5, <2>6, <3>2 DEF ReadInFull
    <3> QED
      BY <3>1, <3>2
  <2>8. ~IsError(file) => Reads(file) /\ c # NoConfig
    BY <1>3, <2>1 DEF IsError
  <2> QED
    BY <1>3, <2>3, <2>5, <2>6, <2>7, <2>8
<1> QED
  BY <1>1, <1>2, <1>3

\* What occurs in a list occurs in a longer one.
LEMMA OccursJoined ==
  ASSUME NEW T, NEW s \in Seq(T), NEW t \in Seq(T)
  PROVE  /\ s \o t \in Seq(T) /\ (s = <<>> => s \o t = t)
         /\ \A c : Occurs(c, s) \/ Occurs(c, t) => Occurs(c, s \o t)
<1>1. PICK u : u = s \o t
  OBVIOUS
<1>2. /\ u \in Seq(T) /\ Len(u) = Len(s) + Len(t)
      /\ \A i \in 1 .. Len(s) + Len(t) : u[i] = IF i <= Len(s) THEN s[i] ELSE t[i - Len(s)]
  BY <1>1, ConcatProperties, Zenon
<1>3. Len(s) \in Nat /\ Len(t) \in Nat
  OBVIOUS
<1>4. s = <<>> => u = t
  BY <1>1
<1>5. ASSUME NEW c, NEW k \in 1 .. Len(s), s[k] = c PROVE Occurs(c, u)
  <2>1. k \in 1 .. Len(u) /\ u[k] = c
    BY <1>2, <1>3, <1>5
  <2> QED
    BY <2>1 DEF Occurs
<1>6. ASSUME NEW c, NEW k \in 1 .. Len(t), t[k] = c PROVE Occurs(c, u)
  <2>1. Len(s) + k \in 1 .. Len(u) /\ (Len(s) + k) - Len(s) = k /\ ~(Len(s) + k <= Len(s))
    BY <1>2, <1>3, <1>6
  <2>2. u[Len(s) + k] = c
    BY <1>2, <1>3, <1>6, <2>1
  <2> QED
    BY <2>1, <2>2 DEF Occurs
<1> QED
  BY <1>1, <1>2, <1>4, <1>5, <1>6 DEF Occurs

-----------------------------------------------------------------------------
(* Importing: the chain of addMultiple.                                    *)

\* tl is still to add of all; ad has been added, and er is 1 when the error is set.
Chain(all, tl, ad, n, er) ==
  /\ all \in Seq(Wanted) /\ tl \in Seq(Wanted) /\ ad \in Seq(Wanted) /\ er \in {0, 1}
  /\ n = Len(ad) /\ n <= Len(all) - Len(tl)
  /\ \A k \in 1 .. Len(tl) : tl[k] = all[Len(all) - Len(tl) + k]
  /\ n = Len(all) - Len(tl) => \A k \in 1 .. n : ad[k] = all[k]
  /\ Len(all) - Len(tl) = 1 => er = 1 \/ n = 1

\* Nothing has been added yet.
LEMMA ChainStarts ==
  ASSUME NEW all \in Seq(Wanted)
  PROVE  Chain(all, all, <<>>, 0, 0)
<1>1. <<>> \in Seq(Wanted) /\ Len(<<>>) = 0 /\ Len(all) \in Nat
  OBVIOUS
<1> QED
  BY <1>1 DEF Chain

\* The next configuration is not added.
LEMMA ChainSkips ==
  ASSUME NEW all, NEW tl, NEW ad, NEW n, NEW er, Chain(all, tl, ad, n, er), tl # <<>>
  PROVE  Chain(all, Tail(tl), ad, n, 1)
<1>1. PICK t, m, l : t = Tail(tl) /\ m = Len(tl) /\ l = Len(all)
  OBVIOUS
<1>2. /\ m \in Nat /\ m > 0 /\ l \in Nat /\ t \in Seq(Wanted) /\ Len(t) = m - 1
      /\ \A k \in 1 .. m - 1 : t[k] = tl[k + 1]
  BY <1>1 DEF Chain
<1>3. ASSUME NEW k \in 1 .. m - 1 PROVE t[k] = all[l - (m - 1) + k]
  <2>1. k + 1 \in 1 .. m /\ l - m + (k + 1) = l - (m - 1) + k
    BY <1>2
  <2>2. tl[k + 1] = all[l - m + (k + 1)]
    BY <1>1, <2>1 DEF Chain
  <2> QED
    BY <1>2, <2>1, <2>2
<1>4. n \in Nat /\ n < l - (m - 1)
  BY <1>1, <1>2 DEF Chain
<1> QED
  BY <1>1, <1>2, <1>3, <1>4 DEF Chain

\* The next configuration is added.
LEMMA ChainAdds ==
  ASSUME NEW all, NEW tl, NEW ad, NEW n, NEW er, Chain(all, tl, ad, n, er), tl # <<>>
  PROVE  Chain(all, Tail(tl), Append(ad, Head(tl)), n + 1, 0)
<1>1. PICK t, m, l, u, h : t = Tail(tl) /\ m = Len(tl) /\ l = Len(all) /\ u = Append(ad, Head(tl)) /\ h = Head(tl)
  OBVIOUS
<1>2. /\ m \in Nat /\ m > 0 /\ l \in Nat /\ t \in Seq(Wanted) /\ Len(t) = m - 1 /\ h = tl[1] /\ h \in Wanted
      /\ \A k \in 1 .. m - 1 : t[k] = tl[k + 1]
  BY <1>1 DEF Chain
<1>3. ASSUME NEW k \in 1 .. m - 1 PROVE t[k] = all[l - (m - 1) + k]
  <2>1. k + 1 \in 1 .. m /\ l - m + (k + 1) = l - (m - 1) + k
    BY <1>2
  <2>2. tl[k + 1] = all[l - m + (k + 1)]
    BY <1>1, <2>1 DEF Chain
  <2> QED
    BY <1>2, <2>1, <2>2
<1>4. n \in Nat /\ n <= l - m /\ n = Len(ad) /\ ad \in Seq(Wanted)
  BY <1>1, <1>2 DEF Chain
<1>5. u \in Seq(Wanted) /\ Len(u) = n + 1 /\ u[n + 1] = h /\ \A k \in 1 .. n : u[k] = ad[k]
  BY <1>1, <1>2, <1>4
<1>6. h = all[l - m + 1]
  <2>1. 1 \in 1 .. m
    BY <1>2
  <2> QED
    BY <1>1, <1>2, <2>1 DEF Chain
<1>7. ASSUME n + 1 = l - (m - 1), NEW k \in 1 .. n + 1 PROVE u[k] = all[k]
  <2>1. n = l - m
    <3>1. n \in Nat /\ m \in Nat /\ l \in Nat
      BY <1>2, <1>4
    <3>2. n + 1 = l - (m - 1)
      BY <1>7
    <3> QED
      BY <3>1, <3>2
  <2>2. \A i \in 1 .. n : ad[i] = all[i]
    BY <1>1, <2>1 DEF Chain
  <2>3. CASE k = n + 1
    BY <1>5, <1>6, <2>1, <2>3
  <2>4. CASE k \in 1 .. n
    BY <1>5, <2>2, <2>4
  <2> QED
    BY <1>4, <1>7, <2>3, <2>4
<1>8. l - (m - 1) = 1 => n + 1 = 1
  BY <1>2, <1>4
<1>9. Chain(all, t, u, n + 1, 0)
  <2>1. all \in Seq(Wanted) /\ n + 1 <= l - (m - 1)
    BY <1>2, <1>4 DEF Chain
  <2> QED
    BY <1>1, <1>2, <1>3, <1>5, <1>7, <1>8, <2>1 DEF Chain
<1> QED
  BY <1>1, <1>9

\* A list without repetitions, and something new at its end.
LEMMA InjectiveAppended ==
  ASSUME NEW T, NEW s \in Seq(T), NEW e \in T, IsInjective(s), e \notin Range(s)
  PROVE  IsInjective(Append(s, e)) /\ Range(Append(s, e)) \subseteq Range(s) \cup {e}
<1>1. PICK u, n : u = Append(s, e) /\ n = Len(s)
  OBVIOUS
<1>2. /\ n \in Nat /\ DOMAIN s = 1 .. n /\ DOMAIN u = 1 .. n + 1
      /\ u[n + 1] = e /\ \A k \in 1 .. n : u[k] = s[k]
  BY <1>1
<1>3. \A k \in 1 .. n : s[k] \in Range(s)
  BY <1>2 DEF Range
<1>4. ASSUME NEW i \in 1 .. n + 1, NEW j \in 1 .. n + 1, u[i] = u[j] PROVE i = j
  <2>1. \A k, l \in 1 .. n : s[k] = s[l] => k = l
    BY <1>2 DEF IsInjective
  <2> QED
    BY <1>2, <1>3, <1>4, <2>1
<1>5. IsInjective(u)
  BY <1>2, <1>4 DEF IsInjective
<1>6. ASSUME NEW i \in 1 .. n + 1 PROVE u[i] \in Range(s) \cup {e}
  BY <1>2, <1>3
<1>7. Range(u) \subseteq Range(s) \cup {e}
  BY <1>2, <1>6 DEF Range
<1> QED
  BY <1>1, <1>5, <1>7

\* all is what cs holds but for the nils.
Left(cs, all) ==
  /\ Len(all) <= Len(cs)
  /\ Len(all) = Len(cs) => \A k \in 1 .. Len(cs) : all[k] = cs[k]
  /\ \A i \in 1 .. Len(cs) : cs[i] \in Wanted => \E k \in 1 .. Len(all) : all[k] = cs[i]

Adding(cs, tl, ad, n, er) ==
  \E all \in Seq(Wanted) : Left(cs, all) /\ Chain(all, tl, ad, n, er)

\* addMultiple is called.
LEMMA AddingStarts ==
  ASSUME NEW cs \in Seq(Configs)
  PROVE  Kept(cs, Wanted) \in Seq(Wanted) /\ Adding(cs, Kept(cs, Wanted), <<>>, 0, 0)
<1>1. PICK all : all = Kept(cs, Wanted)
  OBVIOUS
<1>2. Keeps(cs, Wanted, Configs, Len(cs), all)
  BY <1>1, KeptIs
<1>3. all \in Seq(Wanted)
  <2>1. all \in Seq(Configs) /\ \A i \in 1 .. Len(all) : all[i] \in Wanted
    BY <1>2 DEF Keeps
  <2> QED
    BY <2>1
<1>4. Left(cs, all)
  BY <1>2 DEF Keeps, Left
<1>5. Chain(all, all, <<>>, 0, 0)
  BY <1>3, ChainStarts
<1> QED
  BY <1>1, <1>3, <1>4, <1>5 DEF Adding

\* A link of the chain that fails.
LEMMA AddingSkips ==
  ASSUME NEW cs, NEW tl, NEW ad, NEW n, NEW er, Adding(cs, tl, ad, n, er), tl # <<>>
  PROVE  Adding(cs, Tail(tl), ad, n, 1)
<1>1. PICK all \in Seq(Wanted) : Left(cs, all) /\ Chain(all, tl, ad, n, er)
  BY DEF Adding
<1>2. Chain(all, Tail(tl), ad, n, 1)
  BY <1>1, ChainSkips
<1> QED
  BY <1>1, <1>2 DEF Adding

\* A link of the chain that succeeds.
LEMMA AddingAdds ==
  ASSUME NEW cs, NEW tl, NEW ad, NEW n, NEW er, Adding(cs, tl, ad, n, er), tl # <<>>
  PROVE  Adding(cs, Tail(tl), Append(ad, Head(tl)), n + 1, 0)
<1>1. PICK all \in Seq(Wanted) : Left(cs, all) /\ Chain(all, tl, ad, n, er)
  BY DEF Adding
<1>2. Chain(all, Tail(tl), Append(ad, Head(tl)), n + 1, 0)
  BY <1>1, ChainAdds
<1> QED
  BY <1>1, <1>2 DEF Adding

-----------------------------------------------------------------------------
(* Importing: the steps.                                                   *)

FilesRight == files \in Seq(Files) /\ \A k \in DOMAIN files : WellMade(files[k])

\* The files that are not among u have been read, to cs.
ReadSoFar(u, cs, fe) ==
  /\ u \subseteq DOMAIN files /\ cs \in Seq(Configs) /\ fe \in BOOLEAN
  /\ \A k \in DOMAIN files \ u :
       /\ \A c \in Configs : Occurs(c, ReadConfigs(files[k])) => Occurs(c, cs)
       /\ IsError(files[k]) => fe
  /\ Len(files) = 1 => cs = IF u = {} THEN ReadConfigs(files[1]) ELSE <<>>

\* The alert is not shown.
Silent ==
  \/ configs # <<>> /\ successful = Len(configs)
  \/ Len(files) = 1 /\ ~(files[1].kind = "zip" /\ configs # <<>>) /\ ~fileError /\ ~addError

AddedOnce ==
  /\ added \in Seq(Wanted) /\ IsInjective(added) /\ Range(added) \subseteq listed
  /\ stage = "asked" => tail # <<>> /\ Head(tail) \notin Range(added)

Number(b) == IF b THEN 1 ELSE 0

ChainHolds ==
  /\ stage \in {"reading", "adding", "asked", "stuck", "reported"}
  /\ addError \in BOOLEAN
  /\ stage = "reading" => tail = <<>> /\ added = <<>> /\ successful = 0 /\ addError = FALSE
  /\ stage # "reading" => /\ unread = {} /\ files # <<>>
                          /\ Adding(configs, tail, added, successful, Number(addError))
  /\ stage = "reported" => tail = <<>> /\ (shown = "none" => Silent)

ImportInv == FilesRight /\ ReadSoFar(unread, configs, fileError) /\ ChainHolds /\ AddedOnce

\* The parts of ChainHolds after a step.
LEMMA ChainHoldsNext ==
  ASSUME stage' \in {"reading", "adding", "asked", "stuck", "reported"}, addError' \in BOOLEAN,
         stage' # "reading",
         unread' = {} /\ files' # <<>>,
         Adding(configs', tail', added', successful', Number(addError')),
         stage' = "reported" => tail' = <<>> /\ (shown' = "none" => Silent')
  PROVE  ChainHolds'
<1>1. Adding(configs, tail, added, successful, Number(addError))'
  BY DEF Adding, Left, Chain, Number, Wanted
<1> QED
  BY <1>1 DEF ChainHolds

\* The start of an import.
LEMMA ImportInitInv == ImportInit => ImportInv
<1> SUFFICES ASSUME ImportInit PROVE ImportInv
  OBVIOUS
<1>1. FilesRight
  <2>1. files \in FileLists /\ files \in Seq(Files)
    BY ImportAssumption DEF ImportInit
  <2>2. ASSUME NEW k \in DOMAIN files PROVE WellMade(files[k])
    <3>1. files[k] \in Files
      BY <2>1, <2>2
    <3> QED
      BY <2>1, <2>2, <3>1, ImportAssumption DEF WellMade
  <2> QED
    BY <2>1, <2>2 DEF FilesRight
<1>2. ReadSoFar(unread, configs, fileError)
  <2>1. unread = DOMAIN files /\ configs = <<>> /\ fileError = FALSE
    BY DEF ImportInit
  <2>2. Len(files) = 1 => DOMAIN files # {}
    BY <1>1 DEF FilesRight
  <2>3. <<>> \in Seq(Configs)
    OBVIOUS
  <2> QED
    BY <2>1, <2>2, <2>3 DEF ReadSoFar
<1>3. ChainHolds
  BY DEF ImportInit, ChainHolds
<1>4. AddedOnce
  <2>1. added = <<>> /\ stage = "reading"
    BY DEF ImportInit
  <2>2. <<>> \in Seq(Wanted) /\ DOMAIN <<>> = {}
    OBVIOUS
  <2> QED
    BY <2>1, <2>2 DEF AddedOnce, IsInjective, Range
<1> QED
  BY <1>1, <1>2, <1>3, <1>4 DEF ImportInv

\* A file has been read, perhaps the last.
LEMMA FileReadInv ==
  ASSUME ImportInv, NEW k \in unread, FileRead(k)
  PROVE  ImportInv'
<1>1. /\ unread' = unread \ {k} /\ configs' = configs \o ReadConfigs(files[k])
      /\ fileError' = (fileError \/ IsError(files[k]))
      /\ files' = files /\ listed' = listed /\ successful' = successful /\ addError' = addError
      /\ shown' = shown /\ added' = added
  BY DEF FileRead
<1>2. k \in DOMAIN files /\ WellMade(files[k]) /\ unread # {}
  BY DEF ImportInv, FilesRight, ReadSoFar
<1>3. stage = "reading" /\ tail = <<>> /\ added = <<>> /\ successful = 0 /\ addError = FALSE
  BY <1>2 DEF ImportInv, ChainHolds
<1>4. PICK u, cs, fe, r : /\ u = unread \ {k} /\ r = ReadConfigs(files[k]) /\ cs = configs \o r
                          /\ fe = (fileError \/ IsError(files[k]))
  OBVIOUS
<1>5. r \in Seq(Configs) /\ configs \in Seq(Configs) /\ fileError \in BOOLEAN /\ unread \subseteq DOMAIN files
  BY <1>2, <1>4, ReadIs DEF ImportInv, ReadSoFar
<1>6. /\ cs \in Seq(Configs) /\ (configs = <<>> => cs = r)
      /\ \A c : Occurs(c, configs) \/ Occurs(c, r) => Occurs(c, cs)
  BY <1>4, <1>5, OccursJoined
<1>7. ReadSoFar(u, cs, fe)
  <2>1. ASSUME NEW j \in DOMAIN files \ u
        PROVE  /\ \A c \in Configs : Occurs(c, ReadConfigs(files[j])) => Occurs(c, cs)
               /\ IsError(files[j]) => fe
    <3>1. CASE j = k
      BY <1>4, <1>6, <3>1
    <3>2. CASE j # k
      <4>1. j \in DOMAIN files \ unread
        BY <1>4, <2>1, <3>2
      <4>2. /\ \A c \in Configs : Occurs(c, ReadConfigs(files[j])) => Occurs(c, configs)
            /\ IsError(files[j]) => fileError
        BY <4>1 DEF ImportInv, ReadSoFar
      <4> QED
        BY <1>4, <1>6, <4>2
    <3> QED
      BY <3>1, <3>2
  <2>2. ASSUME Len(files) = 1 PROVE u = {} /\ cs = ReadConfigs(files[1])
    <3>1. DOMAIN files = {1}
      BY <2>2 DEF ImportInv, FilesRight
    <3>2. k = 1 /\ unread = {1}
      BY <1>2, <1>5, <3>1
    <3>3. configs = <<>>
      BY <1>2, <2>2 DEF ImportInv, ReadSoFar
    <3> QED
      BY <1>4, <1>6, <3>2, <3>3
  <2>3. u \subseteq DOMAIN files /\ fe \in BOOLEAN
    BY <1>4, <1>5 DEF IsError
  <2> QED
    BY <1>6, <2>1, <2>2, <2>3 DEF ReadSoFar
<1>8. FilesRight' /\ ReadSoFar(unread, configs, fileError)'
  BY <1>1, <1>4, <1>7 DEF ImportInv, FilesRight, ReadSoFar, Files
<1>9. CASE u = {}
  <2>1. stage' = "adding" /\ tail' = Kept(configs', Wanted)
    BY <1>1, <1>4, <1>9 DEF FileRead, Wanted
  <2>2. PICK all : all = Kept(cs, Wanted)
    OBVIOUS
  <2>4. Adding(cs, all, <<>>, 0, 0)
    BY <1>6, <2>2, AddingStarts
  <2>5. configs' = cs /\ tail' = all /\ added' = <<>> /\ successful' = 0 /\ addError' = FALSE
    BY <1>1, <1>3, <1>4, <2>1, <2>2
  <2>6. Adding(configs', tail', added', successful', Number(addError'))
    BY <2>4, <2>5 DEF Number
  <2>7. unread' = {} /\ files' # <<>>
    BY <1>1, <1>2, <1>4, <1>9 DEF ImportInv, FilesRight
  <2>8. ChainHolds'
    BY <2>1, <2>5, <2>6, <2>7, ChainHoldsNext
  <2>9. AddedOnce'
    BY <1>1, <2>1 DEF ImportInv, AddedOnce, Wanted, IsInjective, Range
  <2> QED
    BY <1>8, <2>8, <2>9 DEF ImportInv
<1>10. CASE u # {}
  <2>1. stage' = stage /\ tail' = tail
    BY <1>1, <1>4, <1>10 DEF FileRead
  <2>2. ChainHolds'
    BY <1>1, <1>3, <2>1 DEF ChainHolds
  <2>3. AddedOnce'
    BY <1>1, <2>1 DEF ImportInv, AddedOnce, Wanted, IsInjective, Range
  <2> QED
    BY <1>8, <2>2, <2>3 DEF ImportInv
<1> QED
  BY <1>9, <1>10

\* A step that leaves what has been read.
LEMMA ReadStays ==
  ASSUME ImportInv, UNCHANGED <<files, unread, configs, fileError>>
  PROVE  FilesRight' /\ ReadSoFar(unread, configs, fileError)'
BY DEF ImportInv, FilesRight, ReadSoFar, Files

\* A step that leaves the chain.
LEMMA ChainStays ==
  ASSUME ChainHolds,
         UNCHANGED <<files, unread, configs, fileError, tail, stage, successful, addError, shown, added>>
  PROVE  ChainHolds'
<1>1. Silent' <=> Silent
  BY DEF Silent
<1>2. CASE stage = "reading"
  BY <1>2 DEF ChainHolds
<1>3. CASE stage # "reading"
  <2>1. Adding(configs', tail', added', successful', Number(addError'))
    BY <1>3 DEF ChainHolds, Number
  <2>2. /\ stage' \in {"reading", "adding", "asked", "stuck", "reported"} /\ addError' \in BOOLEAN
        /\ stage' # "reading" /\ unread' = {} /\ files' # <<>>
        /\ stage' = "reported" => tail' = <<>> /\ (shown' = "none" => Silent')
    BY <1>1, <1>3 DEF ChainHolds
  <2> QED
    BY <2>1, <2>2, ChainHoldsNext
<1> QED
  BY <1>2, <1>3

\* A link of addMultiple begins.
LEMMA AddNextInv == ImportInv /\ AddNext => ImportInv'
<1> SUFFICES ASSUME ImportInv, AddNext PROVE ImportInv'
  OBVIOUS
<1>1. /\ stage = "adding" /\ tail # <<>>
      /\ UNCHANGED <<files, unread, configs, fileError, listed, successful, shown, added>>
  BY DEF AddNext
<1>2. FilesRight' /\ ReadSoFar(unread, configs, fileError)'
  BY <1>1, ReadStays
<1>4. Adding(configs, tail, added, successful, Number(addError)) /\ unread = {} /\ files # <<>>
  BY <1>1 DEF ImportInv, ChainHolds
<1>5. CASE Head(tail) = BlankName
  <2>1. tail' = Tail(tail) /\ addError' = TRUE /\ stage' = stage
    BY <1>5 DEF AddNext
  <2>2. Adding(configs, Tail(tail), added, successful, 1)
    BY <1>1, <1>4, AddingSkips
  <2>3. Adding(configs', tail', added', successful', Number(addError'))
    BY <1>1, <2>1, <2>2 DEF Number
  <2>4. ChainHolds'
    BY <1>1, <1>4, <2>1, <2>3, ChainHoldsNext
  <2>5. AddedOnce'
    BY <1>1, <2>1 DEF ImportInv, AddedOnce, Wanted, IsInjective, Range
  <2> QED
    BY <1>2, <2>4, <2>5 DEF ImportInv
<1>6. CASE Head(tail) # BlankName
  <2>1. /\ tail' = tail /\ addError' = addError
        /\ stage' = IF Head(tail) \in listed THEN "stuck" ELSE "asked"
    BY <1>6 DEF AddNext
  <2>2. Adding(configs', tail', added', successful', Number(addError'))
    BY <1>1, <1>4, <2>1 DEF Number
  <2>3. ChainHolds'
    <3>1. addError' \in BOOLEAN
      BY <2>1 DEF ImportInv, ChainHolds
    <3> QED
      BY <1>1, <1>4, <2>1, <2>2, <3>1, ChainHoldsNext
  <2>4. AddedOnce'
    BY <1>1, <2>1 DEF ImportInv, AddedOnce, Wanted, IsInjective, Range
  <2> QED
    BY <1>2, <2>3, <2>4 DEF ImportInv
<1> QED
  BY <1>5, <1>6

\* It answers.
LEMMA AddReturnsInv == ImportInv /\ AddReturns => ImportInv'
<1> SUFFICES ASSUME ImportInv, AddReturns PROVE ImportInv'
  OBVIOUS
<1>1. /\ stage = "asked" /\ stage' = "adding" /\ tail' = Tail(tail)
      /\ UNCHANGED <<files, unread, configs, fileError, shown>>
  BY DEF AddReturns
<1>2. FilesRight' /\ ReadSoFar(unread, configs, fileError)'
  BY <1>1, ReadStays
<1>4. /\ Adding(configs, tail, added, successful, Number(addError)) /\ unread = {} /\ files # <<>> /\ tail # <<>>
      /\ added \in Seq(Wanted) /\ IsInjective(added) /\ Range(added) \subseteq listed
      /\ Head(tail) \notin Range(added)
  BY <1>1 DEF ImportInv, ChainHolds, AddedOnce
<1>5. CASE /\ listed' = listed \cup {Head(tail)} /\ added' = Append(added, Head(tail))
           /\ successful' = successful + 1 /\ addError' = FALSE
  <2>1. Adding(configs, Tail(tail), Append(added, Head(tail)), successful + 1, 0)
    BY <1>4, AddingAdds
  <2>2. Adding(configs', tail', added', successful', Number(addError'))
    BY <1>1, <1>5, <2>1 DEF Number
  <2>3. ChainHolds'
    BY <1>1, <1>4, <1>5, <2>2, ChainHoldsNext
  <2>4. PICK h, s, l : h = Head(tail) /\ s = Append(added, h) /\ l = listed
    OBVIOUS
  <2>5. h \in Wanted /\ s \in Seq(Wanted)
    <3>1. tail \in Seq(Wanted)
      BY <1>4 DEF Adding, Chain
    <3> QED
      BY <1>4, <2>4, <3>1
  <2>6. IsInjective(s) /\ Range(s) \subseteq Range(added) \cup {h}
    BY <1>4, <2>4, <2>5, InjectiveAppended
  <2>7. added' = s /\ listed' = l \cup {h}
    BY <1>5, <2>4
  <2>8. Range(s) \subseteq l \cup {h}
    BY <1>4, <2>4, <2>6
  <2>9. added' \in Seq(Wanted) /\ IsInjective(added') /\ Range(added') \subseteq listed'
    BY <2>5, <2>6, <2>7, <2>8
  <2>10. AddedOnce'
    BY <1>1, <2>9 DEF AddedOnce, Wanted, IsInjective, Range
  <2> QED
    BY <1>2, <2>3, <2>10 DEF ImportInv
<1>6. CASE addError' = TRUE /\ UNCHANGED <<listed, added, successful>>
  <2>1. Adding(configs, Tail(tail), added, successful, 1)
    BY <1>4, AddingSkips
  <2>2. Adding(configs', tail', added', successful', Number(addError'))
    BY <1>1, <1>6, <2>1 DEF Number
  <2>3. ChainHolds'
    BY <1>1, <1>4, <1>6, <2>2, ChainHoldsNext
  <2>4. AddedOnce'
    BY <1>1, <1>4, <1>6 DEF AddedOnce, Wanted, IsInjective, Range
  <2> QED
    BY <1>2, <2>3, <2>4 DEF ImportInv
<1> QED
  BY <1>5, <1>6 DEF AddReturns

\* The completion handler of addMultiple.
LEMMA ReportInv == ImportInv /\ Report => ImportInv'
<1> SUFFICES ASSUME ImportInv, Report PROVE ImportInv'
  OBVIOUS
<1>1. /\ stage = "adding" /\ tail = <<>> /\ stage' = "reported"
      /\ shown' = IF configs # <<>> /\ successful = Len(configs) THEN "none"
                  ELSE IF Len(files) > 1 \/ (files[1].kind = "zip" /\ configs # <<>>) THEN "counts"
                  ELSE IF fileError \/ addError THEN "error"
                  ELSE "none"
      /\ UNCHANGED <<files, unread, configs, fileError, listed, tail, successful, addError, added>>
  BY DEF Report
<1>2. FilesRight' /\ ReadSoFar(unread, configs, fileError)'
  BY <1>1, ReadStays
<1>3. /\ Adding(configs, tail, added, successful, Number(addError)) /\ unread = {} /\ files # <<>>
  BY <1>1 DEF ImportInv, ChainHolds
<1>4. Len(files) \in Nat /\ Len(files) # 0
  BY <1>3 DEF ImportInv, FilesRight
<1>5. shown' = "none" => Silent
  <2>1. SUFFICES ASSUME shown' = "none", ~(configs # <<>> /\ successful = Len(configs))
                 PROVE  Len(files) = 1 /\ ~(files[1].kind = "zip" /\ configs # <<>>) /\ ~fileError /\ ~addError
    BY DEF Silent
  <2>2. ~(Len(files) > 1 \/ (files[1].kind = "zip" /\ configs # <<>>))
    BY <1>1, <2>1
  <2>3. ~(fileError \/ addError)
    BY <1>1, <2>1, <2>2
  <2>4. Len(files) = 1
    <3>1. ~(Len(files) > 1)
      BY <2>2, Zenon
    <3>2. \A n \in Nat : n # 0 /\ ~(n > 1) => n = 1
      OBVIOUS
    <3> QED
      BY <1>4, <3>1, <3>2, Zenon
  <2>5. ~(files[1].kind = "zip" /\ configs # <<>>)
    BY <2>2, Zenon
  <2> QED
    BY <2>3, <2>4, <2>5, Zenon
<1>6. Silent' <=> Silent
  BY <1>1 DEF Silent
<1>7. ChainHolds'
  <2>1. addError' \in BOOLEAN
    BY <1>1 DEF ImportInv, ChainHolds
  <2>2. Adding(configs', tail', added', successful', Number(addError'))
    BY <1>1, <1>3 DEF Number
  <2> QED
    BY <1>1, <1>3, <1>5, <1>6, <2>1, <2>2, ChainHoldsNext
<1>8. AddedOnce'
  BY <1>1 DEF ImportInv, AddedOnce, Wanted, IsInjective, Range
<1> QED
  BY <1>2, <1>7, <1>8 DEF ImportInv

\* A tunnel is added outside the app.
LEMMA TunnelAppearsInv ==
  ASSUME ImportInv, NEW n \in ConfigNames, TunnelAppears(n)
  PROVE  ImportInv'
<1>1. /\ listed' = listed \cup {n}
      /\ UNCHANGED <<files, unread, configs, fileError, tail, stage, successful, addError, shown, added>>
  BY DEF TunnelAppears
<1>2. FilesRight' /\ ReadSoFar(unread, configs, fileError)'
  BY <1>1, ReadStays
<1>3. ChainHolds'
  BY <1>1, ChainStays DEF ImportInv
<1>4. AddedOnce'
  BY <1>1 DEF ImportInv, AddedOnce, Wanted, IsInjective, Range
<1> QED
  BY <1>2, <1>3, <1>4 DEF ImportInv

\* Every step keeps the invariant.
LEMMA ImportStepInv == ImportInv /\ [ImportNext]_importVars => ImportInv'
<1> SUFFICES ASSUME ImportInv, [ImportNext]_importVars PROVE ImportInv'
  OBVIOUS
<1>1. CASE UNCHANGED importVars
  <2>1. UNCHANGED <<files, unread, configs, fileError, listed, tail, stage, successful, addError, shown, added>>
    BY <1>1 DEF importVars
  <2>2. FilesRight' /\ ReadSoFar(unread, configs, fileError)'
    BY <2>1, ReadStays
  <2>3. ChainHolds'
    BY <2>1, ChainStays DEF ImportInv
  <2>4. AddedOnce'
    BY <2>1 DEF ImportInv, AddedOnce, Wanted, IsInjective, Range
  <2> QED
    BY <2>2, <2>3, <2>4 DEF ImportInv
<1>2. CASE ImportNext
  BY <1>2, FileReadInv, AddNextInv, AddReturnsInv, ReportInv, TunnelAppearsInv DEF ImportNext
<1> QED
  BY <1>1, <1>2

\* An import that ends without an alert has added everything its files held.
LEMMA SilenceIsSuccess == ImportInv => SilenceMeansAllAdded
<1> SUFFICES ASSUME ImportInv, stage = "reported"
             PROVE  /\ successful = Len(added) /\ IsInjective(added)
                    /\ shown = "none" =>
                         \A k \in DOMAIN files :
                           \/ Len(files) > 1 /\ files[k].kind = "zip" /\ ~Reads(files[k])
                           \/ /\ Reads(files[k])
                              /\ \A i \in DOMAIN files[k].entries :
                                   \/ /\ files[k].entries[i].body # Bad
                                      /\ files[k].entries[i].name \in Range(added)
                                   \/ files[k].entries[i].name = BlankName /\ files[k].kind = "zip"
  BY DEF SilenceMeansAllAdded
<1>1. PICK all \in Seq(Wanted) : Left(configs, all) /\ Chain(all, tail, added, successful, Number(addError))
  BY DEF ImportInv, ChainHolds, Adding
<1>2. tail = <<>> /\ Len(tail) = 0 /\ unread = {} /\ files # <<>>
  BY DEF ImportInv, ChainHolds
<1>3. /\ successful = Len(added) /\ added \in Seq(Wanted) /\ IsInjective(added)
      /\ configs \in Seq(Configs) /\ files \in Seq(Files)
  BY <1>1 DEF ImportInv, AddedOnce, Chain, ReadSoFar, FilesRight
<1>4. SUFFICES ASSUME shown = "none", NEW k \in DOMAIN files,
                      ~(Len(files) > 1 /\ files[k].kind = "zip" /\ ~Reads(files[k]))
               PROVE  /\ Reads(files[k])
                      /\ \A i \in DOMAIN files[k].entries :
                           \/ /\ files[k].entries[i].body # Bad
                              /\ files[k].entries[i].name \in Range(added)
                           \/ files[k].entries[i].name = BlankName /\ files[k].kind = "zip"
  BY <1>3
<1>5. PICK file, r : file = files[k] /\ r = ReadConfigs(files[k])
  OBVIOUS
<1>6. WellMade(file)
  BY <1>5 DEF ImportInv, FilesRight
<1>7. /\ r \in Seq(Configs) /\ ReadInFull(file, r)
      /\ (file.kind = "zip" /\ ~Reads(file) => r = <<>>)
      /\ ~IsError(file) => Reads(file) /\ (file.kind = "zip" \/ ~Occurs(NoConfig, r))
      /\ file.kind = "conf" => Len(r) = 1
  BY <1>5, <1>6, ReadIs
<1>8. /\ \A c \in Configs : Occurs(c, r) => Occurs(c, configs)
      /\ IsError(file) => fileError
  BY <1>2, <1>5 DEF ImportInv, ReadSoFar
<1>9. Len(files) = 1 => k = 1 /\ configs = r
  BY <1>2, <1>3, <1>5 DEF ImportInv, ReadSoFar
<1>10. Len(all) \in Nat /\ Len(added) \in Nat /\ Len(configs) \in Nat /\ Len(files) \in Nat /\ Len(files) # 0
  BY <1>1, <1>2, <1>3
\* each of the two ways to stay silent
<1>11. SUFFICES /\ Reads(file) /\ ~Occurs(NoConfig, r)
                /\ \A c \in Configs : Occurs(c, r) => Occurs(c, added)
  <2>1. ASSUME Reads(file), ~Occurs(NoConfig, r), \A c \in Configs : Occurs(c, r) => Occurs(c, added),
               NEW i \in DOMAIN file.entries
        PROVE  \/ file.entries[i].body # Bad /\ file.entries[i].name \in Range(added)
               \/ file.entries[i].name = BlankName /\ file.kind = "zip"
    <3>1. /\ file.entries \in Seq([name : ConfigNames \cup {BlankName}, body : STRING])
          /\ i \in 1 .. Len(file.entries)
      BY <1>6, <2>1 DEF WellMade, Files
    <3>2. \/ file.entries[i].body # Bad /\ Occurs(file.entries[i].name, r)
          \/ file.entries[i].name = BlankName /\ file.kind = "zip"
      BY <1>7, <2>1, <3>1 DEF ReadInFull
    <3>3. file.entries[i].name \in Configs
      <4>1. \A E, s : \A j \in 1 .. Len(s) : s \in Seq(E) => s[j] \in E
        OBVIOUS
      <4>2. file.entries[i] \in [name : ConfigNames \cup {BlankName}, body : STRING]
        BY <3>1, <4>1, Zenon
      <4> QED
        BY <4>2 DEF Configs, Wanted
    <3>4. Occurs(file.entries[i].name, added) => file.entries[i].name \in Range(added)
      <4>1. DOMAIN added = 1 .. Len(added)
        BY <1>3
      <4> QED
        BY <4>1 DEF Occurs, Range
    <3> QED
      BY <2>1, <3>2, <3>3, <3>4
  <2> QED
    BY <1>5, <2>1
<1>12. CASE configs # <<>> /\ successful = Len(configs)
  <2>1. Len(all) = Len(configs) /\ Len(added) = Len(all)
    <3>1. Len(added) <= Len(all)
      BY <1>1, <1>2, <1>3, <1>10 DEF Chain
    <3>2. Len(all) <= Len(configs)
      BY <1>1 DEF Left
    <3> QED
      BY <1>3, <1>10, <1>12, <3>1, <3>2
  <2>2. \A i \in 1 .. Len(configs) : all[i] = configs[i]
    BY <1>1, <2>1 DEF Left
  <2>3. \A i \in 1 .. Len(all) : added[i] = all[i]
    BY <1>1, <1>2, <1>3, <1>10, <2>1 DEF Chain
  <2>4. ~Occurs(NoConfig, configs)
    BY <1>1, <2>1, <2>2, NamesAreNoNil DEF Occurs
  <2>5. \A c \in Configs : Occurs(c, configs) => Occurs(c, added)
    BY <2>1, <2>2, <2>3 DEF Occurs
  <2>6. ~Occurs(NoConfig, r)
    BY <1>8, <2>4 DEF Configs
  <2>7. Reads(file)
    <3>1. SUFFICES ASSUME ~Reads(file) PROVE FALSE
      OBVIOUS
    <3>2. file.kind = "zip" /\ r = <<>>
      BY <1>7, <2>6, <3>1 DEF ReadInFull
    <3>3. Len(files) = 1
      <4>1. ~(Len(files) > 1)
        BY <1>4, <1>5, <3>1, <3>2, Zenon
      <4>2. \A n \in Nat : n # 0 /\ ~(n > 1) => n = 1
        OBVIOUS
      <4> QED
        BY <1>10, <4>1, <4>2, Zenon
    <3> QED
      BY <1>9, <1>12, <3>2, <3>3
  <2> QED
    BY <1>8, <2>5, <2>6, <2>7
<1>13. CASE Len(files) = 1 /\ ~(files[1].kind = "zip" /\ configs # <<>>) /\ ~fileError /\ ~addError
  <2>1. k = 1 /\ configs = r /\ ~IsError(file)
    BY <1>8, <1>9, <1>13
  <2>2. Reads(file) /\ (file.kind = "zip" \/ ~Occurs(NoConfig, r))
    BY <1>7, <2>1
  <2>3. file.kind # "zip"
    <3>1. SUFFICES ASSUME file.kind = "zip" PROVE FALSE
      OBVIOUS
    <3>2. configs = <<>>
      BY <1>5, <1>13, <2>1, <3>1
    <3>3. r # <<>>
      <4>1. ~Occurs(NoConfig, <<>>)
        BY DEF Occurs
      <4> QED
        BY <1>7, <2>1, <2>2, <3>2, <4>1 DEF ReadInFull
    <3> QED
      BY <2>1, <3>2, <3>3
  <2>4. Len(configs) = 1 /\ ~Occurs(NoConfig, configs)
    <3>1. file.kind \in {"conf", "zip"}
      BY <1>6 DEF WellMade, Files
    <3> QED
      BY <1>7, <2>1, <2>2, <2>3, <3>1
  <2>5. configs[1] \in Wanted
    <3>1. configs[1] \in Configs
      <4>1. \A E, s : s \in Seq(E) /\ Len(s) = 1 => s[1] \in E
        OBVIOUS
      <4> QED
        BY <1>3, <2>4, <4>1, Zenon
    <3>2. configs[1] # NoConfig
      BY <2>4 DEF Occurs
    <3> QED
      BY <3>1, <3>2 DEF Configs
  <2>6. Len(all) = 1 /\ all[1] = configs[1]
    <3>1. \E i \in 1 .. Len(all) : all[i] = configs[1]
      BY <1>1, <2>4, <2>5 DEF Left
    <3>2. Len(all) <= 1
      BY <1>1, <2>4 DEF Left
    <3>3. Len(all) = 1
      <4>1. \A n \in Nat : n <= 1 /\ (\E i \in 1 .. n : TRUE) => n = 1
        OBVIOUS
      <4> QED
        BY <1>10, <3>1, <3>2, <4>1, Zenon
    <3> QED
      BY <3>1, <3>3
  <2>7. successful = 1
    BY <1>1, <1>2, <1>13, <2>6 DEF Chain, Number
  <2>8. added[1] = configs[1] /\ Len(added) = 1
    BY <1>1, <1>2, <1>3, <2>6, <2>7 DEF Chain
  <2>9. \A c \in Configs : Occurs(c, r) => Occurs(c, added)
    BY <2>1, <2>4, <2>8 DEF Occurs
  <2> QED
    BY <2>1, <2>2, <2>4, <2>9
<1> QED
  BY <1>4, <1>12, <1>13 DEF ImportInv, ChainHolds, Silent

\* For any files, read in any order, and whatever fails in reading, parsing or saving:
\* when TunnelImporter reports nothing, all the files held has been added, each name
\* once, but for an archive among several files that cannot be read.
THEOREM SilentImportsAddAll == ImportSpec => []SilenceMeansAllAdded
BY ImportInitInv, ImportStepInv, SilenceIsSuccess, PTL DEF ImportSpec

-----------------------------------------------------------------------------
(* Marking.                                                                *)

SpanTypes ==
  {"Comment", "Section", "Field", "MTU", "Host", "Port", "IP", "Cidr", "Delimiter", "Error"}

Span    == [type : SpanTypes, start : Nat, len : Nat]
Stretch == [start : Nat, len : Nat]

\* The tokens from a to b are blank.
AreBlank(t, a, b) == \A i \in a..b : t[i] \in {Space, Newline}

\* The spans mark what can be seen among the first m tokens, and nothing further on.
MarkedTo(t, spans, m) ==
  /\ spans \in Seq(Span)
  /\ \A k \in 1..(Len(spans) - 1) : spans[k].start + spans[k].len <= spans[k + 1].start
  /\ \A k \in 1..Len(spans) : spans[k].start + spans[k].len <= m + 1
  /\ \A i \in 1..m : t[i] \notin {Space, Newline} =>
       \E k \in 1..Len(spans) : Covers(spans[k], i)

\* The piece that is being read reaches the n-th token; after its first tip tokens it is blank.
IsHeld(t, piece, tip, n) ==
  /\ piece \in Stretch /\ piece.start >= 1 /\ piece.start + piece.len = n + 1
  /\ tip \in 1..piece.len
  /\ AreBlank(t, piece.start + tip, n)

\* Nothing has been read since the piece's start.
IsEmptyAt(piece, n) == piece = Piece(n + 1, 0)

\* What is blank needs no mark.
LEMMA MarkedOverBlanks ==
  ASSUME NEW t, NEW s, NEW m \in Nat, NEW n \in Nat, m <= n,
         MarkedTo(t, s, m), AreBlank(t, m + 1, n)
  PROVE  MarkedTo(t, s, n)
<1>1. \A i \in 1..n : i \in 1..m \/ i \in m + 1..n
  OBVIOUS
<1>2. s \in Seq(Span)
  BY DEF MarkedTo
<1>3. \A k \in 1..Len(s) : s[k].start \in Nat /\ s[k].len \in Nat
  <2>1. \A k \in 1..Len(s) : s[k] \in Span
    BY <1>2, ElementOfSeq
  <2> QED
    BY <2>1 DEF Span
<1>4. \A k \in 1..Len(s) : s[k].start + s[k].len <= n + 1
  BY <1>3 DEF MarkedTo
<1>5. \A i \in 1..n : t[i] \notin {Space, Newline} => \E k \in 1..Len(s) : Covers(s[k], i)
  BY <1>1 DEF MarkedTo, AreBlank
<1> QED
  BY <1>2, <1>4, <1>5 DEF MarkedTo

\* A mark goes on where the last one stopped.
LEMMA MarkIsMarked ==
  ASSUME NEW t, NEW s, NEW m \in Nat, NEW p \in Stretch, NEW type \in SpanTypes,
         MarkedTo(t, s, m), p.start = m + 1
  PROVE  MarkedTo(t, Mark(s, p, type), m + p.len)
<1>1. CASE p.len = 0
  <2>1. m + p.len = m
    BY <1>1
  <2> QED
    BY <1>1, <2>1 DEF Mark
<1>2. CASE p.len # 0
  <2> DEFINE new == [type |-> type, start |-> p.start, len |-> p.len]
             r == Append(s, new)
  <2>1. new \in Span /\ s \in Seq(Span) /\ p.len \in Nat
    BY DEF Span, Stretch, MarkedTo
  <2>2. /\ r \in Seq(Span) /\ Len(r) = Len(s) + 1 /\ r[Len(s) + 1] = new
        /\ \A k \in 1..Len(s) : r[k] = s[k]
    BY <2>1, AppendProperties
  <2> HIDE DEF r
  <2>3. /\ Len(s) \in Nat
        /\ \A k \in 1..Len(s) : s[k].start \in Nat /\ s[k].len \in Nat
    <3>1. \A k \in 1..Len(s) : s[k] \in Span
      BY <2>1, ElementOfSeq
    <3> QED
      BY <2>1, <3>1, LenProperties DEF Span
  <2>4. \A k \in 1..Len(s) : s[k].start + s[k].len <= m + 1
    BY DEF MarkedTo
  <2>5. new.start = m + 1 /\ new.len = p.len
    OBVIOUS
  <2> HIDE DEF new
  <2>6. ASSUME NEW k \in 1..(Len(r) - 1)
        PROVE  r[k].start + r[k].len <= r[k + 1].start
    <3>1. CASE k = Len(s)
      <4>1. r[k] = s[k] /\ r[k + 1] = new /\ k \in 1..Len(s)
        BY <3>1, <2>2, <2>3
      <4> QED
        BY <4>1, <2>4, <2>5
    <3>2. CASE k # Len(s)
      <4>1. k \in 1..(Len(s) - 1) /\ k \in 1..Len(s) /\ k + 1 \in 1..Len(s)
        BY <3>2, <2>2, <2>3
      <4>2. r[k] = s[k] /\ r[k + 1] = s[k + 1]
        BY <4>1, <2>2
      <4> QED
        BY <4>1, <4>2 DEF MarkedTo
    <3> QED
      BY <3>1, <3>2
  <2>7. ASSUME NEW k \in 1..Len(r)
        PROVE  r[k].start + r[k].len <= m + p.len + 1
    <3>1. CASE k = Len(s) + 1
      BY <3>1, <2>1, <2>2, <2>5
    <3>2. CASE k # Len(s) + 1
      <4>1. k \in 1..Len(s)
        BY <3>2, <2>2, <2>3
      <4> QED
        BY <4>1, <2>1, <2>2, <2>3, <2>4
    <3> QED
      BY <3>1, <3>2
  <2>8. ASSUME NEW i \in 1..(m + p.len), t[i] \notin {Space, Newline}
        PROVE  \E k \in 1..Len(r) : Covers(r[k], i)
    <3>1. CASE i <= m
      <4>1. PICK k \in 1..Len(s) : Covers(s[k], i)
        BY <3>1, <2>8 DEF MarkedTo
      <4>2. k \in 1..Len(r) /\ r[k] = s[k]
        BY <2>2, <2>3
      <4> QED
        BY <4>1, <4>2
    <3>2. CASE i > m
      <4>1. Covers(new, i)
        BY <3>2, <2>1, <2>5 DEF Covers
      <4>2. Len(s) + 1 \in 1..Len(r)
        BY <2>2, <2>3
      <4> QED
        BY <4>1, <4>2, <2>2
    <3> QED
      BY <3>1, <3>2
  <2>9. MarkedTo(t, r, m + p.len)
    BY <2>2, <2>6, <2>7, <2>8 DEF MarkedTo
  <2> QED
    BY <2>9, <1>2 DEF Mark, r, new
<1> QED
  BY <1>1, <1>2

LEMMA MarkIfIsMarked ==
  ASSUME NEW t, NEW s, NEW m \in Nat, NEW p \in Stretch, NEW type \in SpanTypes, NEW valid,
         MarkedTo(t, s, m), p.start = m + 1
  PROVE  MarkedTo(t, MarkIf(valid, s, p, type), m + p.len)
<1>1. (IF valid THEN type ELSE "Error") \in SpanTypes
  BY DEF SpanTypes
<1> QED
  BY <1>1, MarkIsMarked DEF MarkIf

\* A value in two parts has at least the first part and the delimiter.
LEMMA PartsAreMarked ==
  ASSUME NEW t, NEW s, NEW m \in Nat, NEW p \in Stretch, NEW first \in SpanTypes,
         NEW second \in SpanTypes, MarkedTo(t, s, m), p.start = m + 1, p.len >= 2
  PROVE  MarkedTo(t, MarkParts(s, p, first, second), m + p.len)
<1> DEFINE a == Piece(p.start, 1)
           b == Piece(p.start + 1, 1)
           c == Piece(p.start + 2, p.len - 2)
<1>1. /\ p.len \in Nat
      /\ a \in Stretch /\ a.start = m + 1 /\ a.len = 1
      /\ b \in Stretch /\ b.start = m + 1 + 1 /\ b.len = 1
      /\ c \in Stretch /\ c.start = m + 1 + 1 + 1 /\ c.len = p.len - 2
  BY DEF Stretch, Piece
<1> HIDE DEF a, b, c
<1>2. MarkedTo(t, Mark(s, a, first), m + 1)
  BY <1>1, MarkIsMarked
<1>3. m + 1 \in Nat /\ m + 1 + 1 \in Nat /\ "Delimiter" \in SpanTypes
  BY DEF SpanTypes
<1>4. MarkedTo(t, Mark(Mark(s, a, first), b, "Delimiter"), m + 1 + 1)
  BY <1>1, <1>2, <1>3, MarkIsMarked
<1>5. MarkedTo(t, Mark(Mark(Mark(s, a, first), b, "Delimiter"), c, second), m + 1 + 1 + c.len)
  BY <1>1, <1>3, <1>4, MarkIsMarked
<1>6. m + 1 + 1 + c.len = m + p.len
  BY <1>1
<1> QED
  BY <1>5, <1>6 DEF MarkParts, a, b, c

\* An entry of a list is marked whole or in parts.
LEMMA EntryIsMarked ==
  ASSUME NEW t, NEW s, NEW m \in Nat, NEW p \in Stretch, NEW field,
         MarkedTo(t, s, m), p.start = m + 1
  PROVE  MarkedTo(t, MarkEntry(t, s, p, field), m + p.len)
<1>1. "IP" \in SpanTypes /\ "Cidr" \in SpanTypes /\ p.len \in Nat
  BY DEF Stretch, SpanTypes
<1>2. p.len > 1 => p.len >= 2
  BY <1>1
<1>3. p.len > 1 => MarkedTo(t, MarkParts(s, p, "IP", "Cidr"), m + p.len)
  BY <1>1, <1>2, PartsAreMarked
<1>4. MarkedTo(t, MarkIf(IsValid(field, Content(t, p)), s, p, "IP"), m + p.len)
  BY <1>1, MarkIfIsMarked
<1> QED
  BY <1>3, <1>4 DEF MarkEntry

-----------------------------------------------------------------------------
(* Pieces.                                                                 *)

\* The piece up to its last token; what follows it is blank.
LEMMA HeldEnds ==
  ASSUME NEW t, NEW piece, NEW tip, NEW n \in Nat, IsHeld(t, piece, tip, n),
         NEW p, p = [piece EXCEPT !.len = tip]
  PROVE  /\ p \in Stretch /\ p.start = piece.start /\ p.len = tip
         /\ piece.start - 1 \in Nat /\ piece.start = (piece.start - 1) + 1
         /\ tip \in Nat
         /\ \A s : MarkedTo(t, s, piece.start - 1 + tip) => MarkedTo(t, s, n)
<1>1. /\ piece \in Stretch /\ piece.start \in Nat /\ piece.len \in Nat /\ piece.start >= 1
      /\ piece.start + piece.len = n + 1 /\ tip \in 1..piece.len
      /\ AreBlank(t, piece.start + tip, n)
  BY DEF IsHeld, Stretch
<1>2. tip \in Nat
  BY <1>1
<1>3. p \in Stretch /\ p.start = piece.start /\ p.len = tip
  BY <1>1, <1>2 DEF Stretch
<1>4. PICK m \in Nat : m = piece.start - 1 + tip
  BY <1>1, <1>2
<1>5. m <= n /\ m + 1 = piece.start + tip
  BY <1>1, <1>4
<1>6. AreBlank(t, m + 1, n)
  BY <1>1, <1>5
<1>7. \A s : MarkedTo(t, s, m) => MarkedTo(t, s, n)
  BY <1>5, <1>6, MarkedOverBlanks
<1>8. piece.start - 1 \in Nat /\ piece.start = (piece.start - 1) + 1
  BY <1>1
<1> QED
  BY <1>2, <1>3, <1>4, <1>7, <1>8

\* A blank before the piece moves its start, one after it lengthens it, for now.
LEMMA EmptyOverBlank ==
  ASSUME NEW piece, NEW n \in Nat, IsEmptyAt(piece, n)
  PROVE  IsEmptyAt(Blanked(piece, n + 1), n + 1)
BY DEF IsEmptyAt, Blanked, Piece

LEMMA HeldOverBlank ==
  ASSUME NEW t, NEW piece, NEW tip, NEW n \in Nat, IsHeld(t, piece, tip, n), t[n + 1] = Space
  PROVE  /\ IsHeld(t, Blanked(piece, n + 1), tip, n + 1)
         /\ Blanked(piece, n + 1).start = piece.start
<1>1. /\ piece \in Stretch /\ piece.start \in Nat /\ piece.len \in Nat /\ piece.start >= 1
      /\ piece.start + piece.len = n + 1 /\ tip \in 1..piece.len
      /\ AreBlank(t, piece.start + tip, n)
  BY DEF IsHeld, Stretch
<1>2. piece.len # 0
  BY <1>1
<1>3. PICK q : q = [piece EXCEPT !.len = @ + 1]
  OBVIOUS
<1>4. q \in Stretch /\ q.start = piece.start /\ q.len = piece.len + 1
  BY <1>1, <1>3 DEF Stretch
<1>5. AreBlank(t, piece.start + tip, n + 1)
  BY <1>1 DEF AreBlank
<1>6. IsHeld(t, q, tip, n + 1)
  BY <1>1, <1>4, <1>5 DEF IsHeld
<1> QED
  BY <1>2, <1>3, <1>4, <1>6 DEF Blanked

\* With a token that is not blank the piece takes in the blanks before it.
LEMMA PieceGrows ==
  ASSUME NEW t, NEW piece, NEW n \in Nat,
         IsEmptyAt(piece, n) \/ \E tip : IsHeld(t, piece, tip, n)
  PROVE  /\ IsHeld(t, [piece EXCEPT !.len = @ + 1], piece.len + 1, n + 1)
         /\ [piece EXCEPT !.len = @ + 1].start = piece.start
<1>1. /\ piece \in Stretch /\ piece.start \in Nat /\ piece.len \in Nat /\ piece.start >= 1
      /\ piece.start + piece.len = n + 1
  BY DEF IsHeld, IsEmptyAt, Stretch, Piece
<1>2. PICK q : q = [piece EXCEPT !.len = @ + 1]
  OBVIOUS
<1>3. q \in Stretch /\ q.start = piece.start /\ q.len = piece.len + 1
  BY <1>1, <1>2 DEF Stretch
<1>4. AreBlank(t, q.start + (piece.len + 1), n + 1)
  BY <1>1, <1>3 DEF AreBlank
<1>5. IsHeld(t, q, piece.len + 1, n + 1)
  BY <1>1, <1>3, <1>4 DEF IsHeld
<1> QED
  BY <1>2, <1>3, <1>5

-----------------------------------------------------------------------------
(* Lists.                                                                  *)

\* The list is marked up to the entry that is being read.
IsListTo(t, l, n) ==
  /\ l \in [spans : Seq(Span), span : Stretch, last : Nat]
  /\ l.span.start >= 1 /\ MarkedTo(t, l.spans, l.span.start - 1)
  /\ (IsEmptyAt(l.span, n) /\ l.last = 0) \/ IsHeld(t, l.span, l.last, n)

\* The entry that is being read is marked at a delimiter and at the end.
LEMMA ListEntryIsMarked ==
  ASSUME NEW t, NEW l, NEW n \in Nat, NEW field, IsListTo(t, l, n)
  PROVE  MarkedTo(t, MarkEntry(t, l.spans, [l.span EXCEPT !.len = l.last], field), n)
<1>0. PICK p : p = [l.span EXCEPT !.len = l.last]
  OBVIOUS
<1>1. CASE IsEmptyAt(l.span, n) /\ l.last = 0
  <2>1. p \in Stretch /\ p.start = n + 1 /\ p.len = 0
    BY <1>0, <1>1 DEF IsEmptyAt, Piece, Stretch
  <2>2. l.span.start - 1 = n
    BY <1>1 DEF IsEmptyAt, Piece
  <2>3. MarkedTo(t, l.spans, n)
    BY <2>2 DEF IsListTo
  <2>4. MarkedTo(t, MarkEntry(t, l.spans, p, field), n + p.len)
    BY <2>1, <2>3, EntryIsMarked
  <2>5. n + p.len = n
    BY <2>1
  <2> QED
    BY <1>0, <2>4, <2>5
<1>2. CASE IsHeld(t, l.span, l.last, n)
  <2>1. PICK piece, tip : piece = l.span /\ tip = l.last
    OBVIOUS
  <2>2. IsHeld(t, piece, tip, n) /\ p = [piece EXCEPT !.len = tip]
    BY <1>0, <1>2, <2>1
  <2>3. PICK m : m = piece.start - 1
    OBVIOUS
  <2>4. /\ p \in Stretch /\ p.start = piece.start /\ p.len = tip
        /\ m \in Nat /\ piece.start = m + 1
        /\ \A s : MarkedTo(t, s, m + tip) => MarkedTo(t, s, n)
    BY <2>2, <2>3, HeldEnds
  <2>5. MarkedTo(t, l.spans, m)
    BY <2>1, <2>3 DEF IsListTo
  <2>6. MarkedTo(t, MarkEntry(t, l.spans, p, field), m + p.len)
    BY <2>4, <2>5, EntryIsMarked
  <2> QED
    BY <1>0, <2>1, <2>4, <2>6
<1> QED
  BY <1>1, <1>2 DEF IsListTo

\* A turn of the loop takes in one token of the list.
LEMMA ListTurnIsMarked ==
  ASSUME NEW t, NEW l, NEW n \in Nat, NEW field, IsListTo(t, l, n)
  PROVE  IsListTo(t, ListTurn(t, l, n + 1, field), n + 1)
<1> DEFINE r == ListTurn(t, l, n + 1, field)
<1>1. /\ l \in [spans : Seq(Span), span : Stretch, last : Nat] /\ l.span \in Stretch
      /\ l.spans \in Seq(Span) /\ l.last \in Nat /\ l.span.start >= 1
      /\ l.span.len \in Nat
      /\ MarkedTo(t, l.spans, l.span.start - 1)
      /\ (IsEmptyAt(l.span, n) /\ l.last = 0) \/ IsHeld(t, l.span, l.last, n)
  BY DEF IsListTo, Stretch
<1>2. CASE t[n + 1] = Comma
  <2> DEFINE e == MarkEntry(t, l.spans, [l.span EXCEPT !.len = l.last], field)
             q == Piece(n + 1, 1)
  <2>1. MarkedTo(t, e, n)
    BY ListEntryIsMarked
  <2>2. r = [spans |-> Mark(e, q, "Delimiter"), span |-> Piece(n + 1 + 1, 0), last |-> 0]
    <3>1. t[n + 1] # Space
      BY <1>2 DEF Comma, Space
    <3> QED
      BY <1>2, <3>1 DEF ListTurn
  <2>3. q \in Stretch /\ q.start = n + 1 /\ q.len = 1 /\ "Delimiter" \in SpanTypes
    BY DEF Piece, Stretch, SpanTypes
  <2> HIDE DEF e, q, r
  <2>4. MarkedTo(t, Mark(e, q, "Delimiter"), n + q.len)
    BY <2>1, <2>3, MarkIsMarked
  <2>5. PICK s : s = Mark(e, q, "Delimiter")
    OBVIOUS
  <2>6. MarkedTo(t, s, n + 1) /\ s \in Seq(Span)
    BY <2>3, <2>4, <2>5 DEF MarkedTo
  <2>7. /\ Piece(n + 1 + 1, 0) \in Stretch /\ Piece(n + 1 + 1, 0).start = n + 1 + 1
        /\ n + 1 + 1 - 1 = n + 1 /\ n + 1 + 1 >= 1
    BY DEF Piece, Stretch
  <2>8. /\ r \in [spans : Seq(Span), span : Stretch, last : Nat]
        /\ r.spans = s /\ r.span = Piece(n + 1 + 1, 0) /\ r.last = 0
    BY <2>2, <2>5, <2>6, <2>7
  <2> QED
    BY <2>6, <2>7, <2>8 DEF IsListTo, IsEmptyAt, r
<1>3. CASE t[n + 1] # Comma /\ t[n + 1] = Space
  <2>1. PICK q : q = Blanked(l.span, n + 1)
    OBVIOUS
  <2>2. r = [l EXCEPT !.span = q]
    BY <1>3, <2>1 DEF ListTurn
  <2> HIDE DEF r
  <2>3. CASE IsEmptyAt(l.span, n) /\ l.last = 0
    <3>1. q = Piece(n + 1 + 1, 0) /\ q.start - 1 = n + 1 /\ q \in Stretch /\ q.start >= 1
      <4>1. q = Piece(n + 1 + 1, 0)
        BY <2>1, <2>3, EmptyOverBlank DEF IsEmptyAt
      <4> QED
        BY <4>1 DEF Piece, Stretch
    <3>2. l.span.start - 1 = n
      BY <2>3 DEF IsEmptyAt, Piece
    <3>3. n + 1 \in Nat /\ n <= n + 1 /\ AreBlank(t, n + 1, n + 1)
      BY <1>3 DEF AreBlank
    <3>4. MarkedTo(t, l.spans, n + 1)
      BY <1>1, <3>2, <3>3, MarkedOverBlanks
    <3>5. /\ r \in [spans : Seq(Span), span : Stretch, last : Nat]
          /\ r.spans = l.spans /\ r.span = q /\ r.last = l.last
      BY <1>1, <2>2, <3>1
    <3> QED
      BY <2>3, <3>1, <3>4, <3>5 DEF IsListTo, IsEmptyAt, r
  <2>4. CASE IsHeld(t, l.span, l.last, n)
    <3>1. IsHeld(t, q, l.last, n + 1) /\ q.start = l.span.start
      BY <1>3, <2>1, <2>4, HeldOverBlank
    <3>2. q \in Stretch
      BY <3>1 DEF IsHeld
    <3>3. /\ r \in [spans : Seq(Span), span : Stretch, last : Nat]
          /\ r.spans = l.spans /\ r.span = q /\ r.last = l.last
      BY <1>1, <2>2, <3>2
    <3> QED
      BY <1>1, <3>1, <3>3 DEF IsListTo, r
  <2> QED
    BY <1>1, <2>3, <2>4
<1>4. CASE t[n + 1] # Comma /\ t[n + 1] # Space
  <2>1. PICK q : q = [l.span EXCEPT !.len = @ + 1]
    OBVIOUS
  <2>6. PICK k \in Nat : k = l.span.len + 1
    BY <1>1
  <2>2. r = [l EXCEPT !.span = q, !.last = k]
    BY <1>1, <1>4, <2>1, <2>6 DEF ListTurn
  <2> HIDE DEF r
  <2>3. IsHeld(t, q, k, n + 1) /\ q.start = l.span.start
    BY <1>1, <2>1, <2>6, PieceGrows
  <2>4. q \in Stretch
    BY <2>3 DEF IsHeld
  <2>5. /\ r \in [spans : Seq(Span), span : Stretch, last : Nat]
        /\ r.spans = l.spans /\ r.span = q /\ r.last = k
    BY <1>1, <2>2, <2>4
  <2> QED
    BY <1>1, <2>3, <2>5 DEF IsListTo, r
<1> QED
  BY <1>2, <1>3, <1>4

\* The last delimiter keeps its place when it becomes an error.
LEMMA ListEndIsMarked ==
  ASSUME NEW t, NEW l, NEW n \in Nat, NEW field, IsListTo(t, l, n)
  PROVE  MarkedTo(t, ListEnds(t, l, field), n)
<1>1. CASE l.last > 0
  BY <1>1, ListEntryIsMarked DEF ListEnds
<1>2. CASE ~(l.last > 0)
  <2>1. l.span.start - 1 = n /\ MarkedTo(t, l.spans, n)
    <3>1. l.last \in Nat
      BY DEF IsListTo
    <3>2. ~IsHeld(t, l.span, l.last, n)
      BY <3>1, <1>2 DEF IsHeld
    <3>3. l.span = Piece(n + 1, 0)
      BY <3>2 DEF IsListTo, IsEmptyAt
    <3>4. l.span.start - 1 = n
      BY <3>3 DEF Piece
    <3> QED
      BY <3>4 DEF IsListTo
  <2>2. CASE Last(l.spans).type = "Delimiter"
    <3> DEFINE s == l.spans
    <3>1. PICK r : r = [s EXCEPT ![Len(s)].type = "Error"]
      OBVIOUS
    <3>2. s \in Seq(Span)
      BY <2>1 DEF MarkedTo
    <3>3. Len(s) \in Nat /\ DOMAIN s = 1..Len(s) /\ \A k \in 1..Len(s) : s[k] \in Span
      BY <3>2, LenProperties, ElementOfSeq
    <3>4. /\ DOMAIN r = 1..Len(s)
          /\ \A k \in 1..Len(s) :
               r[k] = IF k = Len(s) THEN [s[k] EXCEPT !.type = "Error"] ELSE s[k]
      BY <3>1, <3>3
    <3>5. \A x \in Span : /\ [x EXCEPT !.type = "Error"] \in Span
                          /\ [x EXCEPT !.type = "Error"].start = x.start
                          /\ [x EXCEPT !.type = "Error"].len = x.len
      BY DEF Span, SpanTypes
    <3>6. \A k \in 1..Len(s) : r[k] \in Span /\ r[k].start = s[k].start /\ r[k].len = s[k].len
      BY <3>3, <3>4, <3>5
    <3>8. r \in Seq(Span) /\ Len(r) = Len(s)
      <4>1. CASE Len(s) = 0
        <5>1. r = s
          BY <4>1, <3>1, <3>3
        <5> QED
          BY <5>1, <3>2
      <4>2. CASE Len(s) # 0
        <5>1. Len(s) \in 1..Len(s)
          BY <4>2, <3>3
        <5>2. PICK x \in Span : x = [s[Len(s)] EXCEPT !.type = "Error"]
          BY <5>1, <3>3, <3>5
        <5>3. r = [s EXCEPT ![Len(s)] = x]
          BY <3>1, <5>2
        <5> QED
          BY <5>1, <5>3, <3>2, ExceptSeq
      <4> QED
        BY <4>1, <4>2
    <3> HIDE DEF s
    <3>9. MarkedTo(t, s, n)
      BY <2>1 DEF s
    <3>10. \A k \in 1..(Len(s) - 1) : k \in 1..Len(s) /\ k + 1 \in 1..Len(s)
      BY <3>3
    <3>11. \A k \in 1..(Len(r) - 1) : r[k].start + r[k].len <= r[k + 1].start
      BY <3>6, <3>8, <3>9, <3>10 DEF MarkedTo
    <3>12. \A k \in 1..Len(r) : r[k].start + r[k].len <= n + 1
      BY <3>6, <3>8, <3>9 DEF MarkedTo
    <3>13. \A k \in 1..Len(r) : \A i : Covers(s[k], i) => Covers(r[k], i)
      BY <3>6, <3>8 DEF Covers
    <3>14. \A i \in 1..n : t[i] \notin {Space, Newline} => \E k \in 1..Len(r) : Covers(r[k], i)
      BY <3>8, <3>9, <3>13 DEF MarkedTo
    <3>15. MarkedTo(t, r, n)
      BY <3>8, <3>11, <3>12, <3>14 DEF MarkedTo
    <3> QED
      BY <1>2, <2>2, <3>1, <3>15 DEF ListEnds, s
  <2>3. CASE Last(l.spans).type # "Delimiter"
    BY <1>2, <2>1, <2>3 DEF ListEnds
  <2> QED
    BY <2>2, <2>3
<1> QED
  BY <1>1, <1>2

IsListing(t, spans, p, field, n, list) ==
  list = [k \in 0..n |->
            IF k = 0 THEN [spans |-> spans, span |-> Piece(p.start, 0), last |-> 0]
            ELSE ListTurn(t, list[k - 1], p.start + k - 1, field)]

\* The loop of MarkList is defined.
LEMMA ListingIs ==
  ASSUME NEW t, NEW spans, NEW p, NEW field, NEW n \in Nat
  PROVE  \E list : IsListing(t, spans, p, field, n, list)
<1> DEFINE D == {i \in Nat : \E list : IsListing(t, spans, p, field, i, list)}
           first == [spans |-> spans, span |-> Piece(p.start, 0), last |-> 0]
           next(v, k) == ListTurn(t, v, p.start + k - 1, field)
<1>1. 0 \in D
  <2>1. PICK f : f = [k \in 0..0 |-> first]
    OBVIOUS
  <2> HIDE DEF first
  <2>2. f = [k \in 0..0 |-> IF k = 0 THEN first ELSE next(f[k - 1], k)]
    BY <2>1
  <2> QED
    BY <2>2 DEF IsListing, first
<1>2. ASSUME NEW i \in Nat, i \in D PROVE i + 1 \in D
  <2>1. PICK f : IsListing(t, spans, p, field, i, f)
    BY <1>2
  <2>2. \A k \in 0..i : f[k] = IF k = 0 THEN first ELSE next(f[k - 1], k)
    BY <2>1, Zenon DEF IsListing
  <2> HIDE DEF first
  <2>3. PICK g : g = [k \in 0..i + 1 |-> IF k <= i THEN f[k] ELSE next(f[i], i + 1)]
    OBVIOUS
  <2> HIDE DEF next
  <2>4. ASSUME NEW k \in 0..i + 1
        PROVE  g[k] = IF k = 0 THEN first ELSE next(g[k - 1], k)
    <3>1. CASE k <= i
      BY <1>2, <2>2, <2>3, <3>1
    <3>2. CASE k = i + 1
      BY <1>2, <2>3, <3>2
    <3> QED
      BY <1>2, <3>1, <3>2
  <2>5. g = [k \in 0..i + 1 |-> IF k = 0 THEN first ELSE next(g[k - 1], k)]
    BY <2>3, <2>4
  <2> USE DEF next, first
  <2>6. IsListing(t, spans, p, field, i + 1, g)
    BY <2>5, Zenon DEF IsListing
  <2> QED
    BY <1>2, <2>6
<1> HIDE DEF D
<1>3. n \in D
  BY <1>1, <1>2, Induction
<1> QED
  BY <1>3 DEF D

\* A list is marked whole.
LEMMA ListIsMarked ==
  ASSUME NEW t, NEW s, NEW m \in Nat, NEW p \in Stretch, NEW field,
         MarkedTo(t, s, m), p.start = m + 1
  PROVE  MarkedTo(t, MarkList(t, s, p, field), m + p.len)
<1>1. PICK n \in Nat : n = p.len
  BY DEF Stretch
<1>2. PICK f : f = CHOOSE list : IsListing(t, s, p, field, n, list)
  OBVIOUS
<1>3. IsListing(t, s, p, field, n, f)
  BY <1>2, ListingIs
<1>4. MarkList(t, s, p, field) = ListEnds(t, f[n], field)
  BY <1>1, <1>2 DEF MarkList, IsListing
<1> DEFINE D == {k \in Nat : k <= n => IsListTo(t, f[k], m + k)}
<1>5. 0 \in D
  <2>1. f[0] = [spans |-> s, span |-> Piece(p.start, 0), last |-> 0]
    BY <1>3, 0 \in 0..n DEF IsListing
  <2>2. /\ Piece(p.start, 0) = Piece(m + 1, 0) /\ Piece(p.start, 0) \in Stretch
        /\ Piece(p.start, 0).start = m + 1 /\ m + 1 - 1 = m /\ m + 1 >= 1 /\ m + 0 = m
    BY DEF Piece, Stretch
  <2>3. s \in Seq(Span)
    BY DEF MarkedTo
  <2>4. /\ f[0] \in [spans : Seq(Span), span : Stretch, last : Nat]
        /\ f[0].spans = s /\ f[0].span = Piece(p.start, 0) /\ f[0].last = 0
    BY <2>1, <2>2, <2>3
  <2>5. IsListTo(t, f[0], m)
    BY <2>2, <2>4 DEF IsListTo, IsEmptyAt
  <2> QED
    BY <2>2, <2>5
<1>6. ASSUME NEW k \in Nat, k \in D PROVE k + 1 \in D
  <2> SUFFICES ASSUME k + 1 <= n PROVE IsListTo(t, f[k + 1], m + (k + 1))
    OBVIOUS
  <2>1. k \in 0..n /\ k + 1 \in 0..n /\ k + 1 # 0 /\ k + 1 - 1 = k /\ k <= n
    OBVIOUS
  <2>2. f[k + 1] = ListTurn(t, f[k], p.start + (k + 1) - 1, field)
    <3>1. \A j \in 0..n : j # 0 => f[j] = ListTurn(t, f[j - 1], p.start + j - 1, field)
      BY <1>3, Zenon DEF IsListing
    <3> QED
      BY <2>1, <3>1
  <2>3. PICK i \in Nat : i = m + k
    OBVIOUS
  <2>4. p.start + (k + 1) - 1 = i + 1 /\ m + (k + 1) = i + 1
    BY <2>3
  <2>5. IsListTo(t, f[k], i)
    BY <1>6, <2>1, <2>3
  <2>6. IsListTo(t, ListTurn(t, f[k], i + 1, field), i + 1)
    BY <2>5, ListTurnIsMarked
  <2> QED
    BY <2>2, <2>4, <2>6
<1> HIDE DEF D
<1>7. n \in D
  BY <1>5, <1>6, Induction
<1>8. IsListTo(t, f[n], m + n) /\ m + n \in Nat
  BY <1>7 DEF D
<1>9. MarkedTo(t, ListEnds(t, f[n], field), m + n)
  BY <1>8, ListEndIsMarked
<1> QED
  BY <1>1, <1>4, <1>9

\* Every value is; a valid endpoint has three tokens, so that it can be marked in parts.
LEMMA ValueIsMarked ==
  ASSUME NEW t \in Seq(Tokens), NEW s, NEW m \in Nat, NEW p \in Stretch, NEW field,
         MarkedTo(t, s, m), p.start = m + 1, p.len >= 1, m + p.len <= Len(t)
  PROVE  MarkedTo(t, MarkValue(t, s, p, field), m + p.len)
<1>1. CASE field = "MTU"
  <2>1. MarkedTo(t, MarkIf(IsValid(field, Content(t, p)), s, p, "MTU"), m + p.len)
    BY MarkIfIsMarked DEF SpanTypes
  <2> QED
    BY <1>1, <2>1 DEF MarkValue
<1>2. CASE field = "Endpoint" /\ IsValid(field, Content(t, p))
  <2>1. Content(t, p) = <<AWord, Colon, AWord>>
    BY <1>2 DEF IsValid
  <2>2. /\ p.start \in Nat /\ p.len \in Nat
        /\ p.start \in 1..Len(t) + 1 /\ p.start + p.len - 1 \in p.start - 1..Len(t)
    <3>1. p.start \in Nat /\ p.len \in Nat /\ Len(t) \in Nat
      BY LenProperties DEF Stretch
    <3> QED
      BY <3>1
  <2>3. Len(Content(t, p)) = p.len
    <3>1. PICK a \in Nat, b \in Nat : a = p.start /\ b = p.start + p.len - 1
      BY <2>2
    <3>2. \A i \in a..b : i \in 1..Len(t)
      BY <2>2, <3>1
    <3>3. Len(SubSeq(t, a, b)) = IF a <= b THEN b - a + 1 ELSE 0
      <4>1. \A i \in a..b : t[i] \in Tokens
        BY <3>2, ElementOfSeq
      <4> QED
        BY <4>1, SubSeqProperties
    <3>4. a <= b /\ b - a + 1 = p.len
      BY <2>2, <3>1
    <3> QED
      BY <3>1, <3>3, <3>4 DEF Content
  <2>4. p.len = 3
    BY <2>1, <2>3
  <2>5. MarkedTo(t, MarkParts(s, p, "Host", "Port"), m + p.len)
    BY <2>4, PartsAreMarked DEF SpanTypes
  <2> QED
    BY <1>2, <2>5 DEF MarkValue
<1>3. CASE field = "Endpoint" /\ ~IsValid(field, Content(t, p))
  <2>1. MarkedTo(t, Mark(s, p, "Error"), m + p.len)
    BY MarkIsMarked DEF SpanTypes
  <2> QED
    BY <1>3, <2>1 DEF MarkValue
<1>4. CASE field \in {"DNS", "AllowedIPs"}
  BY <1>4, ListIsMarked DEF MarkValue
<1>5. CASE field \notin {"MTU", "Endpoint", "DNS", "AllowedIPs"}
  <2>1. MarkedTo(t, Mark(s, p, "Error"), m + p.len)
    BY MarkIsMarked DEF SpanTypes
  <2> QED
    BY <1>5, <2>1 DEF MarkValue
<1> QED
  BY <1>1, <1>2, <1>3, <1>4, <1>5

-----------------------------------------------------------------------------
(* The scan.                                                               *)

ScanType ==
  [state : {"OnNone", "OnKey", "OnSection", "OnValue", "OnComment"},
   section : Sections \cup {Invalid}, field : Fields \cup {Invalid}, equals : Nat,
   span : Stretch, last : Nat, spans : Seq(Span)]

\* What has been read of the first n tokens is marked, but for the piece that is being read.
InPiece(t, h, n) == IsHeld(t, h.span, h.last, n) /\ MarkedTo(t, h.spans, h.span.start - 1)

\* The sign and the piece after it.
InValue(t, h, n) ==
  /\ h.equals \in 1..(h.span.start - 1) /\ MarkedTo(t, h.spans, h.equals - 1)
  /\ AreBlank(t, h.equals + 1, h.span.start - 1)
  /\ IsEmptyAt(h.span, n) \/ IsHeld(t, h.span, h.last, n)

InComment(t, h, n) ==
  /\ h.span.start >= 1 /\ h.span.start + h.span.len = n + 1
  /\ MarkedTo(t, h.spans, h.span.start - 1)

IsScanTo(t, h, n) ==
  /\ h \in ScanType
  /\ h.state = "OnNone" => IsEmptyAt(h.span, n) /\ MarkedTo(t, h.spans, n)
  /\ h.state \in {"OnKey", "OnSection"} => InPiece(t, h, n)
  /\ h.state = "OnValue" => InValue(t, h, n)
  /\ h.state = "OnComment" => InComment(t, h, n)

\* The piece that is being read is marked up to its last token.
LEMMA HeldIsMarked ==
  ASSUME NEW t, NEW s, NEW piece, NEW tip, NEW n \in Nat, IsHeld(t, piece, tip, n),
         MarkedTo(t, s, piece.start - 1), NEW p, p = [piece EXCEPT !.len = tip],
         NEW type \in SpanTypes, NEW valid
  PROVE  MarkedTo(t, Mark(s, p, type), n) /\ MarkedTo(t, MarkIf(valid, s, p, type), n)
<1>1. PICK m : m = piece.start - 1
  OBVIOUS
<1>2. /\ p \in Stretch /\ p.start = piece.start /\ p.len = tip
      /\ m \in Nat /\ piece.start = m + 1
      /\ \A x : MarkedTo(t, x, m + tip) => MarkedTo(t, x, n)
  BY <1>1, HeldEnds
<1>3. MarkedTo(t, s, m)
  BY <1>1
<1>4. MarkedTo(t, Mark(s, p, type), m + p.len)
  BY <1>2, <1>3, MarkIsMarked
<1>5. MarkedTo(t, MarkIf(valid, s, p, type), m + p.len)
  BY <1>2, <1>3, MarkIfIsMarked
<1> QED
  BY <1>2, <1>4, <1>5

LEMMA SpanIsMarked ==
  ASSUME NEW t, NEW h, NEW n \in Nat, InPiece(t, h, n), NEW p, p = [h.span EXCEPT !.len = h.last],
         NEW type \in SpanTypes, NEW valid
  PROVE  MarkedTo(t, Mark(h.spans, p, type), n) /\ MarkedTo(t, MarkIf(valid, h.spans, p, type), n)
<1>1. PICK piece, tip : piece = h.span /\ tip = h.last
  OBVIOUS
<1>2. /\ IsHeld(t, piece, tip, n) /\ p = [piece EXCEPT !.len = tip]
      /\ MarkedTo(t, h.spans, piece.start - 1)
  BY <1>1 DEF InPiece
<1> QED
  BY <1>2, HeldIsMarked

\* The end of a line marks all that has been read of it.
LEMMA LineEndIsMarked ==
  ASSUME NEW t \in Seq(Tokens), NEW h, NEW n \in Nat, n <= Len(t), IsScanTo(t, h, n)
  PROVE  LineEnds(t, h) \in ScanType /\ MarkedTo(t, LineEnds(t, h).spans, n)
<1>1. h \in ScanType /\ h.span \in Stretch /\ h.spans \in Seq(Span)
  BY DEF IsScanTo, ScanType
<1>2. PICK piece : piece = [h.span EXCEPT !.len = h.last]
  OBVIOUS
<1>3. PICK sign : sign = Piece(h.equals, 1)
  OBVIOUS
<1>4. \A s : MarkedTo(t, s, n) => s \in Seq(Span)
  BY DEF MarkedTo
<1>5. CASE h.state = "OnNone"
  BY <1>1, <1>5 DEF IsScanTo, LineEnds
<1>6. CASE h.state = "OnKey"
  <2>1. InPiece(t, h, n) /\ "Error" \in SpanTypes
    BY <1>6 DEF IsScanTo, SpanTypes
  <2>2. PICK s : s = Mark(h.spans, piece, "Error")
    OBVIOUS
  <2>3. MarkedTo(t, s, n) /\ s \in Seq(Span)
    BY <1>2, <1>4, <2>1, <2>2, SpanIsMarked
  <2>4. LineEnds(t, h) = [h EXCEPT !.spans = s]
    BY <1>1, <1>2, <1>6, <2>2 DEF LineEnds
  <2>5. [h EXCEPT !.spans = s] \in ScanType /\ [h EXCEPT !.spans = s].spans = s
    BY <1>1, <2>3 DEF ScanType
  <2> QED
    BY <2>3, <2>4, <2>5
<1>7. CASE h.state = "OnSection"
  <2>1. InPiece(t, h, n) /\ "Section" \in SpanTypes
    BY <1>7 DEF IsScanTo, SpanTypes
  <2>2. PICK x : x = SectionNamed(Content(t, piece))
    OBVIOUS
  <2>3. x \in Sections \cup {Invalid}
    BY <2>2 DEF SectionNamed
  <2>4. PICK s : s = MarkIf(x # Invalid, h.spans, piece, "Section")
    OBVIOUS
  <2>5. MarkedTo(t, s, n) /\ s \in Seq(Span)
    BY <1>2, <1>4, <2>1, <2>4, SpanIsMarked
  <2>6. LineEnds(t, h) = [h EXCEPT !.section = x, !.spans = s]
    BY <1>1, <1>2, <1>7, <2>2, <2>4 DEF LineEnds
  <2>7. /\ [h EXCEPT !.section = x, !.spans = s] \in ScanType
        /\ [h EXCEPT !.section = x, !.spans = s].spans = s
    BY <1>1, <2>3, <2>5 DEF ScanType
  <2> QED
    BY <2>5, <2>6, <2>7
<1>8. CASE h.state = "OnComment"
  <2>1. PICK s : s = Mark(h.spans, h.span, "Comment")
    OBVIOUS
  <2>2. PICK m : m = h.span.start - 1
    OBVIOUS
  <2>3. m \in Nat /\ h.span.start = m + 1 /\ m + h.span.len = n
    <3>1. InComment(t, h, n)
      BY <1>8 DEF IsScanTo
    <3>2. h.span.start \in Nat /\ h.span.len \in Nat
      BY <1>1 DEF Stretch
    <3> QED
      BY <2>2, <3>1, <3>2 DEF InComment
  <2>4. MarkedTo(t, h.spans, m) /\ "Comment" \in SpanTypes
    BY <1>8, <2>2 DEF IsScanTo, InComment, SpanTypes
  <2>5. MarkedTo(t, s, m + h.span.len)
    BY <1>1, <2>1, <2>3, <2>4, MarkIsMarked
  <2>6. MarkedTo(t, s, n) /\ s \in Seq(Span)
    BY <1>4, <2>3, <2>5
  <2>7. LineEnds(t, h) = [h EXCEPT !.spans = s]
    BY <1>1, <1>8, <2>1 DEF LineEnds
  <2>8. [h EXCEPT !.spans = s] \in ScanType /\ [h EXCEPT !.spans = s].spans = s
    BY <1>1, <2>6 DEF ScanType
  <2> QED
    BY <2>6, <2>7, <2>8
<1>9. CASE h.state = "OnValue"
  <2>1. PICK e : e = h.equals
    OBVIOUS
  <2>2. PICK b : b = h.span.start
    OBVIOUS
  <2>3. InValue(t, h, n)
    BY <1>9 DEF IsScanTo
  <2>4. /\ b \in Nat /\ e \in 1..(b - 1) /\ e \in Nat /\ e - 1 \in Nat /\ (e - 1) + 1 = e
        /\ e <= b - 1 /\ b - 1 \in Nat
    BY <1>1, <2>1, <2>2, <2>3 DEF InValue, Stretch
  <2>5. sign \in Stretch /\ sign.start = e /\ sign.len = 1
    BY <1>3, <2>1, <2>4 DEF Piece, Stretch
  <2>6. ASSUME NEW type \in SpanTypes
        PROVE  MarkedTo(t, Mark(h.spans, sign, type), b - 1)
    <3>1. PICK d \in Nat : d = e - 1
      BY <2>4
    <3>2. MarkedTo(t, h.spans, d) /\ sign.start = d + 1 /\ d + 1 = e
      BY <2>1, <2>3, <2>4, <2>5, <3>1 DEF InValue
    <3>3. MarkedTo(t, Mark(h.spans, sign, type), d + sign.len)
      BY <2>5, <3>2, MarkIsMarked
    <3>4. MarkedTo(t, Mark(h.spans, sign, type), e)
      BY <2>5, <3>2, <3>3
    <3>5. AreBlank(t, e + 1, b - 1)
      BY <2>1, <2>2, <2>3 DEF InValue
    <3> QED
      BY <2>4, <3>4, <3>5, MarkedOverBlanks
  <2>7. CASE h.span.len = 0
    <3>1. ~IsHeld(t, h.span, h.last, n)
      BY <2>7 DEF IsHeld
    <3>2. b - 1 = n
      BY <2>2, <2>3, <3>1 DEF InValue, IsEmptyAt, Piece
    <3>3. PICK s : s = Mark(h.spans, sign, "Error")
      OBVIOUS
    <3>4. MarkedTo(t, s, n) /\ s \in Seq(Span)
      BY <1>4, <2>6, <3>2, <3>3 DEF SpanTypes
    <3>5. LineEnds(t, h) = [h EXCEPT !.spans = s]
      BY <1>1, <1>3, <1>9, <2>7, <3>3 DEF LineEnds
    <3>6. [h EXCEPT !.spans = s] \in ScanType /\ [h EXCEPT !.spans = s].spans = s
      BY <1>1, <3>4 DEF ScanType
    <3> QED
      BY <3>4, <3>5, <3>6
  <2>8. CASE h.span.len # 0
    <3>1. IsHeld(t, h.span, h.last, n)
      BY <2>3, <2>8 DEF InValue, IsEmptyAt, Piece
    <3>2. PICK s : s = Mark(h.spans, sign, "Delimiter")
      OBVIOUS
    <3>3. PICK r : r = MarkValue(t, s, piece, h.field)
      OBVIOUS
    <3>4. PICK m \in Nat : m = b - 1
      BY <2>4
    <3>5. MarkedTo(t, s, m)
      BY <2>6, <3>2, <3>4 DEF SpanTypes
    <3>6. MarkedTo(t, r, n)
      <4>1. PICK q, tip : q = h.span /\ tip = h.last
        OBVIOUS
      <4>2. IsHeld(t, q, tip, n) /\ piece = [q EXCEPT !.len = tip]
        BY <1>2, <3>1, <4>1
      <4>3. m = q.start - 1
        BY <2>2, <3>4, <4>1
      <4>4. /\ piece \in Stretch /\ piece.start = q.start /\ piece.len = tip
            /\ q.start = m + 1
            /\ \A x : MarkedTo(t, x, m + tip) => MarkedTo(t, x, n)
        BY <4>2, <4>3, HeldEnds
      <4>5. tip >= 1 /\ m + tip <= n /\ tip \in Nat
        BY <4>2, <4>4 DEF IsHeld, Stretch
      <4>6. m + tip <= Len(t)
        BY <4>5, LenProperties
      <4>7. MarkedTo(t, r, m + piece.len)
        BY <3>3, <3>5, <4>4, <4>5, <4>6, ValueIsMarked
      <4> QED
        BY <4>4, <4>7
    <3>7. LineEnds(t, h) = [h EXCEPT !.spans = r]
      BY <1>1, <1>2, <1>3, <1>9, <2>8, <3>2, <3>3 DEF LineEnds
    <3>8. r \in Seq(Span)
      BY <1>4, <3>6
    <3>9. [h EXCEPT !.spans = r] \in ScanType /\ [h EXCEPT !.spans = r].spans = r
      BY <1>1, <3>8 DEF ScanType
    <3> QED
      BY <3>6, <3>7, <3>9
  <2> QED
    BY <2>7, <2>8
<1> QED
  BY <1>1, <1>5, <1>6, <1>7, <1>8, <1>9 DEF ScanType

\* The turns of the loop, one token each.
LEMMA NewlineTurn ==
  ASSUME NEW t \in Seq(Tokens), NEW h, NEW n \in Nat, n <= Len(t), IsScanTo(t, h, n),
         t[n + 1] = Newline
  PROVE  IsScanTo(t, LineBegins(LineEnds(t, h), n + 1), n + 1)
<1>1. PICK e : e = LineEnds(t, h)
  OBVIOUS
<1>2. e \in ScanType /\ MarkedTo(t, e.spans, n)
  BY <1>1, LineEndIsMarked
<1>3. PICK q : q = Piece(n + 1 + 1, 0)
  OBVIOUS
<1>4. q \in Stretch
  BY <1>3 DEF Piece, Stretch
<1>5. PICK r : r = LineBegins(e, n + 1)
  OBVIOUS
<1>6. r \in ScanType /\ r.state = "OnNone" /\ r.span = q /\ r.spans = e.spans
  BY <1>2, <1>3, <1>4, <1>5 DEF LineBegins, ScanType
<1>7. n + 1 \in Nat /\ n <= n + 1 /\ AreBlank(t, n + 1, n + 1)
  BY DEF AreBlank
<1>8. MarkedTo(t, e.spans, n + 1)
  BY <1>2, <1>7, MarkedOverBlanks
<1> QED
  BY <1>1, <1>3, <1>5, <1>6, <1>8 DEF IsScanTo, IsEmptyAt

LEMMA SharpTurn ==
  ASSUME NEW t \in Seq(Tokens), NEW h, NEW n \in Nat, n <= Len(t), IsScanTo(t, h, n)
  PROVE  IsScanTo(t, CommentBegins(LineEnds(t, h), n + 1), n + 1)
<1>1. PICK e : e = LineEnds(t, h)
  OBVIOUS
<1>2. e \in ScanType /\ MarkedTo(t, e.spans, n)
  BY <1>1, LineEndIsMarked
<1>3. PICK q : q = Piece(n + 1, 1)
  OBVIOUS
<1>4. q \in Stretch /\ q.start = n + 1 /\ q.len = 1
  BY <1>3 DEF Piece, Stretch
<1>5. PICK r : r = CommentBegins(e, n + 1)
  OBVIOUS
<1>6. r \in ScanType /\ r.state = "OnComment" /\ r.span = q /\ r.spans = e.spans
  BY <1>2, <1>3, <1>4, <1>5 DEF CommentBegins, ScanType
<1>7. r.span.start >= 1 /\ r.span.start + r.span.len = n + 1 + 1 /\ r.span.start - 1 = n
  BY <1>4, <1>6
<1>8. InComment(t, r, n + 1)
  BY <1>2, <1>6, <1>7 DEF InComment
<1> QED
  BY <1>1, <1>5, <1>6, <1>8 DEF IsScanTo

LEMMA CommentTurn ==
  ASSUME NEW t, NEW h, NEW n \in Nat, IsScanTo(t, h, n), h.state = "OnComment"
  PROVE  IsScanTo(t, [h EXCEPT !.span.len = @ + 1], n + 1)
<1>1. h \in ScanType /\ h.span \in Stretch
  BY DEF IsScanTo, ScanType
<1>2. PICK q : q = [h.span EXCEPT !.len = @ + 1]
  OBVIOUS
<1>3. /\ h.span.start \in Nat /\ h.span.len \in Nat
      /\ q \in Stretch /\ q.start = h.span.start /\ q.len = h.span.len + 1
  BY <1>1, <1>2 DEF Stretch
<1>4. PICK r : r = [h EXCEPT !.span = q]
  OBVIOUS
<1>5. r = [h EXCEPT !.span.len = @ + 1]
  BY <1>1, <1>2, <1>4 DEF ScanType
<1>6. r \in ScanType /\ r.state = "OnComment" /\ r.span = q /\ r.spans = h.spans
  BY <1>1, <1>3, <1>4 DEF ScanType
<1>7. InComment(t, h, n)
  BY DEF IsScanTo
<1>8. InComment(t, r, n + 1)
  BY <1>3, <1>6, <1>7 DEF InComment
<1> QED
  BY <1>5, <1>6, <1>8 DEF IsScanTo

LEMMA SpaceTurn ==
  ASSUME NEW t, NEW h, NEW n \in Nat, IsScanTo(t, h, n), h.state # "OnComment", t[n + 1] = Space
  PROVE  IsScanTo(t, [h EXCEPT !.span = Blanked(@, n + 1)], n + 1)
<1>1. h \in ScanType /\ h.span \in Stretch
  BY DEF IsScanTo, ScanType
<1>2. PICK q : q = Blanked(h.span, n + 1)
  OBVIOUS
<1>3. PICK r : r = [h EXCEPT !.span = q]
  OBVIOUS
<1>4. r = [h EXCEPT !.span = Blanked(@, n + 1)]
  BY <1>1, <1>2, <1>3 DEF ScanType
<1>5. q \in Stretch => /\ r \in ScanType /\ r.state = h.state /\ r.span = q
                       /\ r.spans = h.spans /\ r.last = h.last /\ r.equals = h.equals
  BY <1>1, <1>3 DEF ScanType
<1>6. n + 1 \in Nat /\ n <= n + 1 /\ AreBlank(t, n + 1, n + 1)
  BY DEF AreBlank
<1>7. IsEmptyAt(h.span, n) =>
        /\ IsEmptyAt(q, n + 1) /\ q \in Stretch /\ q.start = n + 1 + 1 /\ h.span.start = n + 1
  <2>1. IsEmptyAt(h.span, n) => IsEmptyAt(q, n + 1)
    BY <1>2, EmptyOverBlank
  <2> QED
    BY <2>1 DEF IsEmptyAt, Piece, Stretch
<1>8. IsHeld(t, h.span, h.last, n) =>
        IsHeld(t, q, h.last, n + 1) /\ q \in Stretch /\ q.start = h.span.start
  BY <1>2, HeldOverBlank DEF IsHeld
<1>9. CASE h.state = "OnNone"
  <2>1. IsEmptyAt(h.span, n) /\ MarkedTo(t, h.spans, n)
    BY <1>9 DEF IsScanTo
  <2>2. MarkedTo(t, h.spans, n + 1)
    BY <1>6, <2>1, MarkedOverBlanks
  <2> QED
    BY <1>4, <1>5, <1>7, <1>9, <2>1, <2>2 DEF IsScanTo
<1>10. CASE h.state \in {"OnKey", "OnSection"}
  <2>1. IsHeld(t, h.span, h.last, n) /\ MarkedTo(t, h.spans, h.span.start - 1)
    BY <1>10 DEF IsScanTo, InPiece
  <2>2. InPiece(t, r, n + 1)
    BY <1>5, <1>8, <2>1 DEF InPiece
  <2> QED
    BY <1>4, <1>5, <1>8, <1>10, <2>1, <2>2 DEF IsScanTo
<1>11. CASE h.state = "OnValue"
  <2>1. InValue(t, h, n)
    BY <1>11 DEF IsScanTo
  <2>2. CASE IsHeld(t, h.span, h.last, n)
    <3>1. InValue(t, r, n + 1)
      BY <1>5, <1>8, <2>1, <2>2 DEF InValue
    <3> QED
      BY <1>4, <1>5, <1>8, <1>11, <2>2, <3>1 DEF IsScanTo
  <2>3. CASE IsEmptyAt(h.span, n)
    <3>1. r.span.start = n + 1 + 1 /\ h.span.start = n + 1
      BY <1>5, <1>7, <2>3
    <3>2. AreBlank(t, h.equals + 1, n)
      <4>1. h.span.start - 1 = n
        BY <3>1
      <4> QED
        BY <2>1, <4>1 DEF InValue
    <3>3. r.equals \in 1..(r.span.start - 1) /\ h.equals \in Nat
      BY <1>5, <1>7, <2>1, <2>3, <3>1 DEF InValue
    <3>4. AreBlank(t, r.equals + 1, r.span.start - 1)
      <4>1. r.span.start - 1 = n + 1 /\ r.equals = h.equals
        BY <1>5, <1>7, <2>3, <3>1
      <4>2. AreBlank(t, h.equals + 1, n + 1)
        BY <3>2, <3>3 DEF AreBlank
      <4> QED
        BY <4>1, <4>2
    <3>5. InValue(t, r, n + 1)
      BY <1>5, <1>7, <2>1, <2>3, <3>3, <3>4 DEF InValue
    <3> QED
      BY <1>4, <1>5, <1>7, <1>11, <2>3, <3>5 DEF IsScanTo
  <2> QED
    BY <2>1, <2>2, <2>3 DEF InValue
<1> QED
  BY <1>1, <1>9, <1>10, <1>11 DEF ScanType

LEMMA EqualsTurn ==
  ASSUME NEW t, NEW h, NEW n \in Nat, IsScanTo(t, h, n), h.state = "OnKey"
  PROVE  IsScanTo(t, KeyEnds(t, h, n + 1), n + 1)
<1>1. h \in ScanType /\ InPiece(t, h, n)
  BY DEF IsScanTo
<1>2. PICK key : key = [h.span EXCEPT !.len = h.last]
  OBVIOUS
<1>3. PICK x : x = FieldNamed(Content(t, key))
  OBVIOUS
<1>4. x \in Fields \cup {Invalid}
  BY <1>3 DEF FieldNamed
<1>5. PICK s : s = MarkIf(x # Invalid /\ SectionOf[x] = h.section, h.spans, key, "Field")
  OBVIOUS
<1>6. MarkedTo(t, s, n) /\ s \in Seq(Span)
  <2>1. MarkedTo(t, s, n)
    BY <1>1, <1>2, <1>5, SpanIsMarked DEF SpanTypes
  <2> QED
    BY <2>1 DEF MarkedTo
<1>7. PICK q : q = Piece(n + 1 + 1, 0)
  OBVIOUS
<1>8. q \in Stretch /\ q.start = n + 1 + 1
  BY <1>7 DEF Piece, Stretch
<1>9. PICK r : r = KeyEnds(t, h, n + 1)
  OBVIOUS
<1>10. r = [h EXCEPT !.field = x, !.equals = n + 1, !.state = "OnValue", !.span = q, !.spans = s]
  BY <1>1, <1>2, <1>3, <1>5, <1>7, <1>9 DEF KeyEnds, ScanType
<1>11. r \in ScanType /\ r.state = "OnValue" /\ r.equals = n + 1 /\ r.span = q /\ r.spans = s
  <2>1. n + 1 \in Nat
    OBVIOUS
  <2>2. PICK e \in Nat : e = n + 1
    BY <2>1
  <2> QED
    BY <1>1, <1>4, <1>6, <1>8, <1>10, <2>2 DEF ScanType
<1>12. /\ r.equals \in 1..(r.span.start - 1) /\ r.equals - 1 = n
       /\ AreBlank(t, r.equals + 1, r.span.start - 1)
  BY <1>8, <1>11 DEF AreBlank
<1>13. InValue(t, r, n + 1)
  BY <1>6, <1>7, <1>11, <1>12 DEF InValue, IsEmptyAt
<1> QED
  BY <1>9, <1>11, <1>13 DEF IsScanTo

LEMMA OtherTurn ==
  ASSUME NEW t, NEW h, NEW n \in Nat, IsScanTo(t, h, n), h.state # "OnComment",
         NEW st, st = h.state \/ (h.state = "OnNone" /\ st \in {"OnSection", "OnKey"}),
         st # "OnNone",
         NEW v, v = [h EXCEPT !.state = st, !.span.len = @ + 1, !.last = h.span.len + 1]
  PROVE  IsScanTo(t, v, n + 1)
<1>1. h \in ScanType /\ h.span \in Stretch /\ h.span.len \in Nat
  BY DEF IsScanTo, ScanType, Stretch
<1>2. PICK q : q = [h.span EXCEPT !.len = @ + 1]
  OBVIOUS
<1>3. PICK l \in Nat : l = h.span.len + 1
  BY <1>1
<1>4. PICK r : r = [h EXCEPT !.state = st, !.span = q, !.last = l]
  OBVIOUS
<1>5. r = v
  BY <1>1, <1>2, <1>3, <1>4 DEF ScanType
<1>6. IsHeld(t, q, l, n + 1) /\ q.start = h.span.start /\ q \in Stretch
  <2>1. IsEmptyAt(h.span, n) \/ \E tip : IsHeld(t, h.span, tip, n)
    BY <1>1 DEF IsScanTo, InPiece, InValue, ScanType
  <2>2. IsHeld(t, q, l, n + 1) /\ q.start = h.span.start
    BY <1>2, <1>3, <2>1, PieceGrows
  <2> QED
    BY <2>2 DEF IsHeld
<1>7. /\ r \in ScanType /\ r.state = st /\ r.span = q
      /\ r.spans = h.spans /\ r.last = l /\ r.equals = h.equals
  BY <1>1, <1>3, <1>4, <1>6 DEF ScanType
<1>8. CASE h.state = "OnNone"
  <2>1. h.span.start = n + 1 /\ MarkedTo(t, h.spans, n) /\ n + 1 - 1 = n
    BY <1>8 DEF IsScanTo, IsEmptyAt, Piece
  <2>2. InPiece(t, r, n + 1) /\ st \in {"OnSection", "OnKey"}
    BY <1>6, <1>7, <1>8, <2>1 DEF InPiece
  <2> QED
    BY <1>5, <1>7, <2>2 DEF IsScanTo
<1>9. CASE h.state \in {"OnKey", "OnSection"}
  <2>1. MarkedTo(t, h.spans, h.span.start - 1)
    BY <1>9 DEF IsScanTo, InPiece
  <2>2. InPiece(t, r, n + 1)
    BY <1>6, <1>7, <2>1 DEF InPiece
  <2> QED
    BY <1>5, <1>7, <1>9, <2>2 DEF IsScanTo
<1>10. CASE h.state = "OnValue"
  <2>1. InValue(t, h, n)
    BY <1>10 DEF IsScanTo
  <2>2. InValue(t, r, n + 1)
    BY <1>6, <1>7, <2>1 DEF InValue
  <2> QED
    BY <1>5, <1>7, <1>10, <2>2 DEF IsScanTo
<1> QED
  BY <1>1, <1>8, <1>9, <1>10 DEF ScanType

\* Whatever the token is.
LEMMA TurnIsScan ==
  ASSUME NEW t \in Seq(Tokens), NEW h, NEW n \in Nat, n <= Len(t), IsScanTo(t, h, n)
  PROVE  IsScanTo(t, Turn(t, h, n + 1), n + 1)
<1> USE DEF Newline, Sharp, Space, Equals
<1>1. CASE t[n + 1] = Newline
  BY <1>1, NewlineTurn DEF Turn
<1>2. CASE t[n + 1] = Sharp /\ h.state # "OnComment"
  BY <1>2, SharpTurn DEF Turn
<1>3. CASE t[n + 1] # Newline /\ h.state = "OnComment"
  BY <1>3, CommentTurn DEF Turn
<1>4. CASE t[n + 1] = Space /\ h.state # "OnComment"
  BY <1>4, SpaceTurn DEF Turn
<1>5. CASE t[n + 1] = Equals /\ h.state = "OnKey"
  BY <1>5, EqualsTurn DEF Turn
<1>6. CASE /\ t[n + 1] \notin {Newline, Sharp, Space} /\ h.state # "OnComment"
           /\ ~(t[n + 1] = Equals /\ h.state = "OnKey")
  <2>1. PICK st : st = IF h.state # "OnNone" THEN h.state
                       ELSE IF t[n + 1] \in Sections THEN "OnSection" ELSE "OnKey"
    OBVIOUS
  <2>2. /\ st = h.state \/ (h.state = "OnNone" /\ st \in {"OnSection", "OnKey"})
        /\ st # "OnNone"
    <3>1. CASE h.state = "OnNone"
      BY <2>1, <3>1
    <3>2. CASE h.state # "OnNone"
      BY <2>1, <3>2
    <3> QED
      BY <3>1, <3>2
  <2>3. Turn(t, h, n + 1) = [h EXCEPT !.state = st, !.span.len = @ + 1, !.last = h.span.len + 1]
    <3>1. h \in ScanType
      BY DEF IsScanTo
    <3> QED
      BY <1>6, <2>1, <3>1 DEF Turn, ScanType
  <2> QED
    BY <1>6, <2>2, <2>3, OtherTurn
<1> QED
  BY <1>1, <1>2, <1>3, <1>4, <1>5, <1>6

IsScanning(t, n, scanned) ==
  scanned = [k \in 0..n |-> IF k = 0 THEN NothingRead ELSE Turn(t, scanned[k - 1], k)]

\* The loop of the scan is defined.
LEMMA ScanningIs ==
  ASSUME NEW t, NEW n \in Nat
  PROVE  \E scanned : IsScanning(t, n, scanned)
<1> DEFINE D == {i \in Nat : \E scanned : IsScanning(t, i, scanned)}
           next(v, k) == Turn(t, v, k)
<1>1. 0 \in D
  <2>1. PICK f : f = [k \in 0..0 |-> NothingRead]
    OBVIOUS
  <2>2. f = [k \in 0..0 |-> IF k = 0 THEN NothingRead ELSE next(f[k - 1], k)]
    BY <2>1
  <2> QED
    BY <2>2 DEF IsScanning
<1>2. ASSUME NEW i \in Nat, i \in D PROVE i + 1 \in D
  <2>1. PICK f : IsScanning(t, i, f)
    BY <1>2
  <2>2. \A k \in 0..i : f[k] = IF k = 0 THEN NothingRead ELSE next(f[k - 1], k)
    BY <2>1, Zenon DEF IsScanning
  <2>3. PICK g : g = [k \in 0..i + 1 |-> IF k <= i THEN f[k] ELSE next(f[i], i + 1)]
    OBVIOUS
  <2> HIDE DEF next
  <2>4. ASSUME NEW k \in 0..i + 1
        PROVE  g[k] = IF k = 0 THEN NothingRead ELSE next(g[k - 1], k)
    <3>1. CASE k <= i
      BY <1>2, <2>2, <2>3, <3>1
    <3>2. CASE k = i + 1
      BY <1>2, <2>3, <3>2
    <3> QED
      BY <1>2, <3>1, <3>2
  <2>5. g = [k \in 0..i + 1 |-> IF k = 0 THEN NothingRead ELSE next(g[k - 1], k)]
    BY <2>3, <2>4
  <2> USE DEF next
  <2>6. IsScanning(t, i + 1, g)
    BY <2>5, Zenon DEF IsScanning
  <2> QED
    BY <1>2, <2>6
<1> HIDE DEF D
<1>3. n \in D
  BY <1>1, <1>2, Induction
<1> QED
  BY <1>3 DEF D

\* Before the first token.
LEMMA NothingReadIsScan ==
  ASSUME NEW t
  PROVE  IsScanTo(t, NothingRead, 0)
<1>1. PICK q : q = Piece(1, 0)
  OBVIOUS
<1>2. q \in Stretch /\ <<>> \in Seq(Span) /\ Len(<<>>) = 0
  BY <1>1, EmptySeq DEF Piece, Stretch
<1>3. /\ NothingRead \in ScanType /\ NothingRead.state = "OnNone"
      /\ NothingRead.span = q /\ NothingRead.spans = <<>>
  BY <1>1, <1>2 DEF NothingRead, ScanType
<1>4. MarkedTo(t, <<>>, 0)
  BY <1>2 DEF MarkedTo
<1> QED
  BY <1>1, <1>3, <1>4 DEF IsScanTo, IsEmptyAt

\* A text that is given is read to its end.
LEMMA ScannedIsScan ==
  ASSUME NEW t \in Seq(Tokens)
  PROVE  IsScanTo(t, Scanned(t), Len(t))
<1>1. PICK n : n = Len(t)
  OBVIOUS
<1>2. n \in Nat
  BY <1>1, LenProperties
<1>3. PICK f : f = CHOOSE scanned : IsScanning(t, n, scanned)
  OBVIOUS
<1>4. IsScanning(t, n, f)
  BY <1>2, <1>3, ScanningIs
<1>5. Scanned(t) = f[n]
  BY <1>1, <1>3 DEF Scanned, IsScanning
<1> DEFINE D == {k \in Nat : k <= n => IsScanTo(t, f[k], k)}
<1>6. 0 \in D
  <2>1. 0 \in 0..n
    BY <1>2
  <2>2. f[0] = NothingRead
    BY <1>4, <2>1 DEF IsScanning
  <2> QED
    BY <2>2, NothingReadIsScan
<1>7. ASSUME NEW k \in Nat, k \in D PROVE k + 1 \in D
  <2> SUFFICES ASSUME k + 1 <= n PROVE IsScanTo(t, f[k + 1], k + 1)
    OBVIOUS
  <2>1. k + 1 \in 0..n /\ k + 1 # 0 /\ k + 1 - 1 = k /\ k <= n
    BY <1>2
  <2>2. f[k + 1] = Turn(t, f[k], k + 1)
    <3>1. \A j \in 0..n : j # 0 => f[j] = Turn(t, f[j - 1], j)
      BY <1>4, Zenon DEF IsScanning
    <3> QED
      BY <2>1, <3>1
  <2>3. IsScanTo(t, f[k], k) /\ k <= Len(t)
    BY <1>1, <1>7, <2>1
  <2> QED
    BY <2>2, <2>3, TurnIsScan
<1> HIDE DEF D
<1>8. n \in D
  BY <1>2, <1>6, <1>7, Induction
<1> QED
  BY <1>1, <1>2, <1>5, <1>8 DEF D

\* What follows a text does not matter to what has been read of it.
LEMMA ScanWithMore ==
  ASSUME NEW t \in Seq(Tokens), NEW u \in Seq(Tokens), NEW h, NEW n \in Nat,
         \A i \in 1..n : u[i] = t[i], IsScanTo(t, h, n)
  PROVE  IsScanTo(u, h, n)
<1>1. /\ h \in ScanType /\ h.span.start \in Nat /\ h.span.len \in Nat
      /\ h.equals \in Nat /\ h.last \in Nat
  BY DEF IsScanTo, ScanType, Stretch
<1>2. ASSUME NEW s, NEW m \in Int, m <= n, MarkedTo(t, s, m) PROVE MarkedTo(u, s, m)
  <2>1. \A i \in 1..m : u[i] = t[i]
    BY <1>2
  <2> QED
    BY <1>2, <2>1 DEF MarkedTo
<1>3. \A a \in Int, b \in Int : a >= 1 /\ b <= n /\ AreBlank(t, a, b) => AreBlank(u, a, b)
  BY DEF AreBlank
<1>4. IsHeld(t, h.span, h.last, n) => IsHeld(u, h.span, h.last, n) /\ h.span.start - 1 <= n
  BY <1>1, <1>3 DEF IsHeld
<1>5. CASE h.state = "OnNone"
  BY <1>1, <1>2, <1>5 DEF IsScanTo
<1>6. CASE h.state \in {"OnKey", "OnSection"}
  BY <1>1, <1>2, <1>4, <1>6 DEF IsScanTo, InPiece
<1>7. CASE h.state = "OnValue"
  <2>1. InValue(t, h, n)
    BY <1>7 DEF IsScanTo
  <2>2. h.span.start - 1 <= n
    BY <1>4, <2>1 DEF InValue, IsEmptyAt, Piece
  <2>3. h.equals >= 1 /\ h.equals <= h.span.start - 1
    BY <2>1 DEF InValue
  <2>4. MarkedTo(u, h.spans, h.equals - 1)
    BY <1>1, <1>2, <2>1, <2>2, <2>3 DEF InValue
  <2>5. AreBlank(u, h.equals + 1, h.span.start - 1)
    BY <1>1, <1>3, <2>1, <2>2, <2>3 DEF InValue
  <2>6. InValue(u, h, n)
    BY <1>4, <2>1, <2>4, <2>5 DEF InValue
  <2> QED
    BY <1>1, <1>7, <2>6 DEF IsScanTo
<1>8. CASE h.state = "OnComment"
  <2>1. InComment(t, h, n)
    BY <1>8 DEF IsScanTo
  <2>2. InComment(u, h, n)
    BY <1>1, <1>2, <2>1 DEF InComment
  <2> QED
    BY <1>1, <1>8, <2>2 DEF IsScanTo
<1> QED
  BY <1>1, <1>5, <1>6, <1>7, <1>8 DEF ScanType

\* The text has been read to its end.
HighlightInv == text \in Seq(Tokens) /\ IsScanTo(text, scan, Len(text))

LEMMA HighlightInitInv == HighlightInit => HighlightInv
BY HighlightAssumption, ScannedIsScan DEF HighlightInit, HighlightInv

\* It stays so as the text grows.
LEMMA HighlightStepInv == HighlightInv /\ [HighlightNext]_highlightVars => HighlightInv'
<1> SUFFICES ASSUME HighlightInv, [HighlightNext]_highlightVars PROVE HighlightInv'
  OBVIOUS
<1>1. CASE HighlightNext
  <2>1. PICK c \in Tokens : text' = Append(text, c) /\ scan' = Turn(text', scan, Len(text'))
    BY <1>1 DEF HighlightNext, Type
  <2>2. PICK t, u, h, n : t = text /\ u = text' /\ h = scan /\ n = Len(text)
    OBVIOUS
  <2>3. t \in Seq(Tokens) /\ n = Len(t) /\ n \in Nat /\ IsScanTo(t, h, n)
    BY <2>2, LenProperties DEF HighlightInv
  <2>4. u = Append(t, c)
    BY <2>1, <2>2
  <2>5. u \in Seq(Tokens) /\ Len(u) = n + 1 /\ \A i \in 1..n : u[i] = t[i]
    BY <2>3, <2>4, AppendProperties
  <2>6. IsScanTo(u, h, n) /\ n <= Len(u)
    BY <2>3, <2>5, ScanWithMore
  <2>7. IsScanTo(u, Turn(u, h, n + 1), n + 1)
    BY <2>3, <2>5, <2>6, TurnIsScan
  <2>8. scan' = Turn(u, h, n + 1)
    BY <2>1, <2>2, <2>5
  <2>9. text' \in Seq(Tokens) /\ IsScanTo(text', scan', Len(text'))
    BY <2>2, <2>5, <2>7, <2>8
  <2> QED
    BY <2>9 DEF HighlightInv
<1>2. CASE UNCHANGED highlightVars
  BY <1>2 DEF highlightVars, HighlightInv
<1> QED
  BY <1>1, <1>2

\* EverythingIsMarkedOnce: whatever the text is, the spans of highlight_config are in its
\* order and do not overlap, and every token that can be seen is in one of them.
THEOREM AllIsMarked == HighlightSpec => []EverythingIsMarkedOnce
<1>1. HighlightInv => EverythingIsMarkedOnce
  <2> SUFFICES ASSUME HighlightInv PROVE EverythingIsMarkedOnce
    OBVIOUS
  <2>1. PICK n : n = Len(text)
    OBVIOUS
  <2>2. text \in Seq(Tokens) /\ n \in Nat /\ n <= Len(text) /\ IsScanTo(text, scan, n)
    BY <2>1, LenProperties DEF HighlightInv
  <2>3. MarkedTo(text, Spans, n)
    BY <2>2, LineEndIsMarked DEF Spans
  <2>4. Spans \in Seq(Span)
    BY <2>3 DEF MarkedTo
  <2>5. /\ DOMAIN Spans = 1..Len(Spans) /\ DOMAIN text = 1..n
        /\ \A k \in DOMAIN Spans : Spans[k] \in Span
    BY <2>1, <2>2, <2>4, LenProperties, ElementOfSeq
  <2>6. \A k \in DOMAIN Spans : Spans[k].start \in Nat /\ Spans[k].len \in Nat
    BY <2>5 DEF Span
  <2>7. \A k \in DOMAIN Spans : Spans[k].start + Spans[k].len - 1 <= Len(text)
    BY <2>1, <2>2, <2>3, <2>5, <2>6 DEF MarkedTo
  <2>8. \A k \in 1..(Len(Spans) - 1) : Spans[k].start + Spans[k].len <= Spans[k + 1].start
    BY <2>3 DEF MarkedTo
  <2>9. \A i \in DOMAIN text :
          text[i] \notin {Space, Newline} => \E k \in DOMAIN Spans : Covers(Spans[k], i)
    BY <2>3, <2>5 DEF MarkedTo
  <2> QED
    BY <2>7, <2>8, <2>9 DEF EverythingIsMarkedOnce
<1> QED
  BY <1>1, HighlightInitInv, HighlightStepInv, PTL DEF HighlightSpec
=============================================================================
