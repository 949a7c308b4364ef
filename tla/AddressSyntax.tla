---------------------------- MODULE AddressSyntax ----------------------------
(***************************************************************************)
(* is_valid_ipv4 and is_valid_ipv6 of highlighter.c, character by          *)
(* character.  The functions look at the character that follows the        *)
(* address in the text when it is shorter than they expect.                *)
(***************************************************************************)
EXTENDS Integers, Sequences, FiniteSets, SequencesExt

CONSTANTS
  Octets,       \* of an IPv4 address: 4
  Groups,       \* of an IPv6 address: 8
  Alphabet,     \* the characters used, per kind
  MaxLength     \* bound on the length, per kind

VARIABLES kind, address

vars == <<kind, address>>

\* Hexadecimal digits are their values.
Dot == 100
Colon == 101
Other == 102
Decimals == 0..9
Hexadecimals == 0..15

\* What may follow: the port's colon after IPv4, a slash, bracket or blank after both.
Follows == [ipv4 |-> {Colon, Other}, ipv6 |-> {Other}]

At(s, pos, after) == IF pos <= Len(s) THEN s[pos] ELSE after

\* The number of characters of a set from pos on, up to a limit.
Run(s, pos, set, limit) ==
  CHOOSE j \in 0..limit :
    /\ \A k \in 0..(j - 1) : At(s, pos + k, Other) \in set
    /\ j = limit \/ At(s, pos + j, Other) \notin set

Number(s) == FoldLeft(LAMBDA val, c : 10 * val + c, 0, s)

\* The loop of is_valid_ipv4 from octet i, counted from 0, on.
RECURSIVE OctetsFrom(_, _, _, _)
OctetsFrom(s, i, pos, after) ==
  LET j == Run(s, pos, Decimals, 3) IN
  /\ i < Octets /\ pos <= Len(s)
  /\ j > 0 /\ ~(j > 1 /\ s[pos] = 0) /\ Number(SubSeq(s, pos, pos + j - 1)) <= 255
  /\ \/ pos + j > Len(s) /\ i = Octets - 1
     \/ At(s, pos + j, after) = Dot /\ OctetsFrom(s, i + 1, pos + j + 1, after)

IsValidIPv4(s, after) == OctetsFrom(s, 0, 1, after)

\* Mutant: the groups are not counted once the colons have been seen.
RECURSIVE GroupsFromUncounted(_, _, _, _, _)
GroupsFromUncounted(s, i, pos, seenColons, after) ==
  LET j == Run(s, pos, Hexadecimals, 4) IN
  IF pos > Len(s) THEN TRUE
  ELSE IF s[pos] = Colon /\ ~seenColons THEN
    pos = Len(s) \/ GroupsFromUncounted(s, i + 1, pos + 1, TRUE, after)
  ELSE
    /\ j > 0
    /\ \/ pos + j > Len(s) /\ (seenColons \/ i = Groups - 1)
       \/ /\ i # Groups - 1 \/ seenColons
          /\ IF At(s, pos + j, after) # Colon
               THEN /\ At(s, pos + j, after) = Dot /\ (i >= Groups - 2 \/ seenColons)
                    /\ IsValidIPv4(SubSeq(s, pos, Len(s)), after)
               ELSE GroupsFromUncounted(s, i + 1, pos + j + 1, seenColons, after)

\* The loop of is_valid_ipv6 from group i on: a group and what comes after it.
RECURSIVE GroupsFrom(_, _, _, _, _)
GroupsFrom(s, i, pos, seenColons, after) ==
  LET j == Run(s, pos, Hexadecimals, 4) IN
  IF pos > Len(s) THEN TRUE
  ELSE IF s[pos] = Colon /\ ~seenColons THEN
    \/ pos = Len(s)
    \/ i # Groups - 1 /\ GroupsFrom(s, i + 1, pos + 1, TRUE, after)
  ELSE
    /\ j > 0
    /\ \/ pos + j > Len(s) /\ (seenColons \/ i = Groups - 1)
       \/ /\ i # Groups - 1
          /\ IF At(s, pos + j, after) # Colon
               THEN /\ At(s, pos + j, after) = Dot /\ (i >= Groups - 2 \/ seenColons)
                    /\ IsValidIPv4(SubSeq(s, pos, Len(s)), after)
               ELSE GroupsFrom(s, i + 1, pos + j + 1, seenColons, after)

IsValidIPv6(s, after) ==
  /\ Len(s) >= 2
  /\ s[1] = Colon => s[2] = Colon
  /\ ~(s[Len(s)] = Colon /\ s[Len(s) - 1] # Colon)
  /\ GroupsFrom(s, 0, IF s[1] = Colon THEN 2 ELSE 1, FALSE, after)

Init == kind \in {"ipv4", "ipv6"} /\ address = <<>>

Type(c) ==
  /\ Len(address) < MaxLength[kind]
  /\ address' = Append(address, c) /\ UNCHANGED kind

Next == \E c \in Alphabet[kind] : Type(c)

Spec == Init /\ [][Next]_vars
-----------------------------------------------------------------------------
\* The parts of s between its cuts at c.
Parts(s, c) ==
  LET cuts == SelectSeq([i \in 1..(Len(s) + 2) |-> i - 1],
                        LAMBDA i : i \in {0, Len(s) + 1} \/ s[i] = c)
  IN  [k \in 1..(Len(cuts) - 1) |-> SubSeq(s, cuts[k] + 1, cuts[k + 1] - 1)]

IsOctet(p) ==
  /\ Len(p) \in 1..3 /\ Range(p) \subseteq Decimals
  /\ p[1] = 0 => Len(p) = 1
  /\ Number(p) <= 255

IsIPv4(s) ==
  Len(Parts(s, Dot)) = Octets /\ \A k \in 1..Octets : IsOctet(Parts(s, Dot)[k])

IsGroup(p) == Len(p) \in 1..4 /\ Range(p) \subseteq Hexadecimals

\* How many groups a text of groups stands for, of which the last may be an IPv4
\* address; -1 if it is no such text.
GroupCount(s) ==
  LET parts == Parts(s, Colon)
      n == Len(parts) IN
  IF s = <<>> THEN 0
  ELSE IF ~\A k \in 1..(n - 1) : IsGroup(parts[k]) THEN -1
  ELSE IF IsGroup(parts[n]) THEN n
  ELSE IF IsIPv4(parts[n]) THEN n + 1
  ELSE -1

IsIPv6(s) ==
  \/ GroupCount(s) = Groups
  \/ \E k \in 1..(Len(s) - 1) :
       LET left == SubSeq(s, 1, k - 1)
           right == SubSeq(s, k + 2, Len(s)) IN
       /\ s[k] = Colon /\ s[k + 1] = Colon
       /\ GroupCount(left) >= 0 /\ Dot \notin Range(left) /\ GroupCount(right) >= 0
       /\ GroupCount(left) + GroupCount(right) < Groups

\* The one-pass checks accept exactly the addresses of RFC 4291's grammar, the short form
\* standing for one group at least, whatever follows the address in the text.
AddressesAreRecognised ==
  \A after \in Follows[kind] :
    IF kind = "ipv4" THEN IsValidIPv4(address, after) <=> IsIPv4(address)
    ELSE IsValidIPv6(address, after) <=> IsIPv6(address)
=============================================================================
