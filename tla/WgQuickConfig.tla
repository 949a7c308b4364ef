---------------------------- MODULE WgQuickConfig ----------------------------
(***************************************************************************)
(* The reader and the writer of wg-quick configurations                    *)
(* (TunnelConfiguration+WgQuickConfig.swift), line by line.  A line is a   *)
(* section header, an attribute, junk, or blank once its comment and white *)
(* space are cut off; empty lines are no lines.  One optional key with a   *)
(* single value stands for those of its section, and one key with several  *)
(* entries.  The text of an entry is a record of what its reader tells     *)
(* apart, or bad for any reader.                                           *)
(***************************************************************************)
EXTENDS SequencesExt

CONSTANTS
  Lines,        \* the lines texts are made of
  Beginnings,   \* texts without an error to begin with
  MaxLines      \* bound on the lines that follow

VARIABLES
  text,     \* the lines read so far
  reader,   \* the loop's variables
  done      \* the last line has been read

vars == <<text, reader, done>>

Bad == [is |-> "bad"]   \* as [is |-> ...] is the text of an entry that is read as it is

Header(section) == [kind |-> "header", section |-> section]
Attribute(key, value) == [kind |-> "attribute", key |-> key, value |-> value]
Junk  == [kind |-> "junk"]
Blank == [kind |-> "blank"]

KeysOf == [interface |-> {"privatekey", "listenport", "address"},
           peer      |-> {"publickey", "endpoint", "allowedips"}]
Required == [interface |-> "privatekey", peer |-> "publickey"]
WithMultipleEntries == {"address", "allowedips"}

NoAttributes == [k \in {} |-> Bad]
NoInterface == NoAttributes

Start ==
  [state |-> "notInASection", attributes |-> NoAttributes,
   interface |-> NoInterface, peers |-> <<>>, error |-> "none"]

Throw(r, error) == [r EXCEPT !.error = error]

\* A value is the sequence of its entries, of which most keys' values have one; entries
\* that are missing altogether are left out when the value is split.

\* Endpoint(from:), of a host in brackets or not, with its port.  Without brackets the
\* host ends at the first colon, and what is left of it is no port.
WithColon == {"ipv6", "1:2"}
IsEndpoint(given) == given.brackets \/ given.host \notin WithColon

\* NWEndpoint.Host makes a name of what is no address, "1:2" too.
EndpointOf(given) == [host |-> given.host]

\* Mutant: addresses have no brackets either.
EndpointTextBare(endpoint) == [host |-> endpoint.host, brackets |-> FALSE]

\* Endpoint.stringRepresentation.
EndpointText(endpoint) == [host |-> endpoint.host, brackets |-> endpoint.host = "ipv6"]

NoLength == -1
MaxNetworkPrefixLength == [ipv4 |-> 32, ipv6 |-> 128]

\* IPAddressRange(from:); its text has the address and the length it was given.
RangeOf(given) ==
  LET max == MaxNetworkPrefixLength[given.address] IN
  [given EXCEPT !.length = IF @ = NoLength \/ @ > max THEN max ELSE @]

IsEntry(key, given) == given # Bad /\ (key = "endpoint" => IsEndpoint(given))

EntryOf(key, given) ==
  CASE key = "endpoint" -> EndpointOf(given)
    [] key \in WithMultipleEntries -> RangeOf(given)
    [] OTHER -> given

EntryText(key, entry) == IF key = "endpoint" THEN EndpointText(entry) ELSE entry

Collates(attributes, section) ==
  /\ Required[section] \in DOMAIN attributes
  /\ \A k \in DOMAIN attributes : \A given \in Range(attributes[k]) : IsEntry(k, given)

\* A configuration's part: no entries is the same as no key.
Part(attributes) ==
  [k \in {k \in DOMAIN attributes : k \in WithMultipleEntries => attributes[k] # <<>>}
     |-> [i \in DOMAIN attributes[k] |-> EntryOf(k, attributes[k][i])]]

WithAttribute(r, key, value) ==
  IF key \notin DOMAIN r.attributes
    THEN [r EXCEPT !.attributes = (key :> value) @@ @]
  ELSE IF key \in WithMultipleEntries
    THEN [r EXCEPT !.attributes[key] = @ \o value]
  ELSE Throw(r, "multipleEntriesForKey")

Known(r, key) ==
  IF r.error # "none" \/ r.state = "notInASection" \/ key \in KeysOf[r.state] THEN r
  ELSE Throw(r, "unrecognizedKey")

\* The line itself: attributes are kept, other lines are headers, blank or invalid.
Noted(r, line) ==
  CASE line.kind = "attribute" -> Known(WithAttribute(r, line.key, line.value), line.key)
    [] line.kind = "junk"      -> Throw(r, "invalidLine")
    [] OTHER                   -> r

\* The section before a header or the end of the text.
SectionEnds(r) ==
  IF r.error # "none" \/ r.state = "notInASection" THEN r
  ELSE IF ~Collates(r.attributes, r.state) THEN Throw(r, "missingOrInvalid")
  ELSE IF r.state = "peer" THEN [r EXCEPT !.peers = Append(@, Part(r.attributes))]
  ELSE IF r.interface # NoInterface THEN Throw(r, "multipleInterfaces")
  ELSE [r EXCEPT !.interface = Part(r.attributes)]

\* Mutant: the attributes of the section before are kept.
SectionBeginsOnTop(r, line) ==
  IF line.kind = "header" THEN [r EXCEPT !.state = line.section] ELSE r

SectionBegins(r, line) ==
  IF line.kind = "header"
    THEN [r EXCEPT !.state = line.section, !.attributes = NoAttributes] ELSE r

\* One turn of the loop.
Turn(r, line, isLast) ==
  LET n == Noted(r, line) IN
  SectionBegins(IF isLast \/ line.kind = "header" THEN SectionEnds(n) ELSE n, line)

\* After the loop.
Finished(r) ==
  IF r.error # "none" THEN r
  ELSE IF Cardinality({p["publickey"] : p \in Range(r.peers)}) # Len(r.peers)
    THEN Throw(r, "multiplePeersWithSamePublicKey")
  ELSE IF r.interface = NoInterface THEN Throw(r, "noInterface")
  ELSE r

Read(lines, end) ==
  FoldLeftDomain(
    LAMBDA r, i : IF r.error # "none" THEN r ELSE Turn(r, lines[i], i = end), Start, lines)

Parsed(lines) == Finished(Read(lines, Len(lines)))

\* asWgQuickConfig: a part's keys in the order of their lines.
Order == <<"privatekey", "listenport", "address", "publickey", "allowedips", "endpoint">>

Written(section, part) ==
  <<Header(section)>> \o
  LET keys == SelectSeq(Order, LAMBDA k : k \in DOMAIN part)
      Value(k) == [i \in DOMAIN part[k] |-> EntryText(k, part[k][i])]
  IN  [i \in DOMAIN keys |-> Attribute(keys[i], Value(keys[i]))]

AsWgQuickConfig(interface, peers) ==
  Written("interface", interface) \o
  FlattenSeq([i \in DOMAIN peers |-> Written("peer", peers[i])])

Init == text \in Beginnings /\ reader = Read(text, 0) /\ done = FALSE

ReadLine(line) ==
  /\ ~done /\ reader.error = "none"
  /\ \E b \in Beginnings : IsPrefix(b, text) /\ Len(text) < Len(b) + MaxLines
  /\ text' = Append(text, line)
  /\ \/ done' = FALSE /\ reader' = Turn(reader, line, FALSE)
     \/ done' = TRUE  /\ reader' = Finished(Turn(reader, line, TRUE))

Next == \E line \in Lines : ReadLine(line)

Spec == Init /\ [][Next]_vars
-----------------------------------------------------------------------------
\* What a text says, told of the text as a whole: its sections are the headers with the
\* attributes up to the next header.
Headers(lines) == {i \in DOMAIN lines : lines[i].kind = "header"}

\* A header on the last line opens a section that is never looked at.
Heard(lines) == IF Len(lines) \in Headers(lines) THEN Front(lines) ELSE lines

Body(lines, h) ==
  {i \in DOMAIN lines : /\ lines[i].kind = "attribute" /\ i > h
                        /\ \A g \in Headers(lines) : g > h => i < g}

Indices(lines) == [i \in DOMAIN lines |-> i]

Entries(lines, h, key) ==
  LET at == SelectSeq(Indices(lines), LAMBDA i : i \in Body(lines, h) /\ lines[i].key = key)
  IN  [i \in DOMAIN at |-> lines[at[i]].value]

SaidKeys(lines, h) == {lines[i].key : i \in Body(lines, h)}

Said(lines, h) ==
  [k \in SaidKeys(lines, h) |->
     IF k \in WithMultipleEntries THEN FlattenSeq(Entries(lines, h, k))
     ELSE Entries(lines, h, k)[1]]

SaysOnce(lines, h) ==
  \A k \in SaidKeys(lines, h) \ WithMultipleEntries : Len(Entries(lines, h, k)) = 1

IsSection(lines, h) ==
  /\ SaysOnce(lines, h)
  /\ SaidKeys(lines, h) \subseteq KeysOf[lines[h].section]
  /\ Collates(Said(lines, h), lines[h].section)

Of(lines, section) ==
  SelectSeq(Indices(lines), LAMBDA h : h \in Headers(lines) /\ lines[h].section = section)

IsConfiguration(lines) ==
  /\ \A i \in DOMAIN lines : lines[i].kind # "junk"
  /\ SaysOnce(lines, 0)
  /\ \A h \in Headers(lines) : IsSection(lines, h)
  /\ Len(Of(lines, "interface")) = 1
  /\ \A g, h \in Range(Of(lines, "peer")) :
       g # h => Said(lines, g)["publickey"] # Said(lines, h)["publickey"]

\* The reader accepts exactly the texts that are configurations, and takes from them
\* what they say: no attribute crosses from one section to another, none is lost or
\* doubled, at the end of the text as elsewhere; only a header on the last line is not
\* heard.
ReadAsSaid ==
  done =>
    LET lines == Heard(text) IN
    /\ (reader.error = "none") <=> IsConfiguration(lines)
    /\ reader.error = "none" =>
         /\ reader.interface = Part(Said(lines, Of(lines, "interface")[1]))
         /\ reader.peers = [i \in DOMAIN Of(lines, "peer") |-> Part(Said(lines, Of(lines, "peer")[i]))]

\* A host that has a colon and is no address: it was read in brackets, and is written
\* without them.
LosesBrackets(peer) == "endpoint" \in DOMAIN peer /\ peer["endpoint"][1].host = "1:2"

\* What is read, written and read again is the same configuration, as the keychain keeps
\* configurations as texts and a reload compares them read back; a configuration with a
\* host that loses its brackets, and no other, cannot be read back.
WrittenIsReadBack ==
  done /\ reader.error = "none" =>
    LET again == Parsed(AsWgQuickConfig(reader.interface, reader.peers)) IN
    IF \E p \in Range(reader.peers) : LosesBrackets(p) THEN again.error # "none"
    ELSE /\ again.error = "none"
         /\ again.interface = reader.interface /\ again.peers = reader.peers
=============================================================================
