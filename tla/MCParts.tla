------------------------------ MODULE MCParts ------------------------------
(***************************************************************************)
(* The parts that do not act on each other, explored side by side: a       *)
(* behaviour is that of one part, and the other parts' variables are idle. *)
(* Some parts are extended, the others are instances: KeyEncoding, so that *)
(* TLC computes its tables once, and those whose properties are theorems   *)
(* too.  Their properties hold of idle parts as well, which wait in a      *)
(* first state.                                                            *)
(***************************************************************************)
EXTENDS PacketTunnelProvider, KeyEncoding, OnDemandOption, DNSResolver, LogOpening,
        RecentTunnels, TunnelImporter, Highlighter

VARIABLES
  part,
  lines, reader, done,
  kind, address

readerVars    == <<lines, reader, done>>
addressVars   == <<kind, address>>

partsVars ==
  <<part, vars, keyVars, readerVars, highlightVars, optionVars, addressVars, recentVars,
    resolverVars, importVars, openingVars>>
-----------------------------------------------------------------------------
\* Of up to three sessions in one process: three; two of one tunnel under the app's
\* attempts, with a change of path; the build whose process exits; two changes of path.
InWorld(build, tunnelOf, paths, app) ==
  [build |-> build, last |-> Len(tunnelOf), paths |-> paths, app |-> app, tunnel |-> tunnelOf]

OneWorld == InWorld("iOS", <<1, 2, 1>>, 1, FALSE)

ProviderWorlds ==
  {OneWorld, InWorld("iOS", <<1, 1>>, 2, TRUE), InWorld("macOS", <<1, 1>>, 1, TRUE),
   InWorld("iOS", <<1, 2>>, 3, FALSE)}
-----------------------------------------------------------------------------
\* Texts of four lines after each beginning.
Section(section) == [kind |-> "header", section |-> section]
Line(k, value) == [kind |-> "attribute", key |-> k, value |-> value]

Good(x) == <<[is |-> x]>>
Host(h, brackets) == <<[host |-> h, brackets |-> brackets]>>
AddressRange(family, length) == [address |-> family, length |-> length]

InterfaceLines == <<Section("interface"), Line("privatekey", Good("key"))>>

Config == INSTANCE WgQuickConfig WITH
  text <- lines,
  Lines <- {Section("interface"), Section("peer"), [kind |-> "blank"], [kind |-> "junk"],
            Line("privatekey", Good("key")), Line("listenport", Good("bad")),
            Line("address", <<AddressRange("ipv4", 24)>>), Line("address", <<>>),
            Line("publickey", Good("p")), Line("publickey", Good("q")),
            Line("allowedips", <<AddressRange("ipv6", -1), AddressRange("ipv4", 40)>>),
            Line("endpoint", Host("name", TRUE)), Line("endpoint", Host("ipv6", TRUE)),
            Line("endpoint", Host("1:2", TRUE)), Line("endpoint", Host("1:2", FALSE))},
  Beginnings <- {<<>>, InterfaceLines,
                 InterfaceLines \o <<Section("peer"), Line("publickey", Good("p"))>>},
  MaxLines <- 4
-----------------------------------------------------------------------------
\* Three tokens after beginnings that bring every value under way.
After(section, begun) == {<<section, "newline">> \o t : t \in begun}

HighlightTokens ==
  {"newline", "space", "#", "=", ",", ":", "/", "word",
   "[Interface]", "[Peer]", "DNS", "MTU", "Endpoint", "AllowedIPs"}

HighlightBeginnings ==
  {<<>>}
  \cup After("[Interface]", {<<>>, <<"DNS", "=">>, <<"DNS", "=", "word", ",">>,
                             <<"DNS", "=", ",", "word", "space">>})
  \cup After("[Peer]", {<<"AllowedIPs", "space", "=">>, <<"AllowedIPs", "=", "word", "/">>,
                        <<"Endpoint", "=">>, <<"Endpoint", "=", "word", ":">>})
-----------------------------------------------------------------------------
\* Two octets and four groups; digits around the limits, 100 and 101 the dot and the colon.
Address == INSTANCE AddressSyntax WITH
  Octets <- 2, Groups <- 4,
  Alphabet <- [ipv4 |-> {0, 2, 5, 6, 100}, ipv6 |-> {1, 15, 100, 101}],
  MaxLength <- [ipv4 |-> 6, ipv6 |-> 8]
-----------------------------------------------------------------------------
\* Up to three peers; what is found for a name: nothing, or addresses of both families.
PeerEndpoints == UNION {[1..n -> {"none", "address", "name"}] : n \in 0..3}

FoundAddresses == {<<"error">>, <<>>, <<"v4">>, <<"v6">>, <<"v6", "v6">>, <<"v6", "v4", "v4">>}
-----------------------------------------------------------------------------
\* One or two files: any configuration file, and archives with a blank name, out of order,
\* with an entry twice, with two of one name, or unreadable in part or whole.
ConfFiles == [kind : {"conf"}, opens : BOOLEAN, entries : [1..1 -> [name : 0..2, body : {"x", "bad"}]]]

Archive(opens, entries) ==
  [kind |-> "zip", opens |-> opens,
   entries |-> [i \in DOMAIN entries |-> [name |-> entries[i][1], body |-> entries[i][2]]]]

Archives == {Archive(FALSE, <<>>), Archive(TRUE, <<>>)} \cup {Archive(TRUE, entries) : entries \in
  {<<<<0, "x">>>>, <<<<2, "x">>, <<1, "x">>>>, <<<<1, "x">>, <<1, "x">>>>,
   <<<<1, "x">>, <<2, "bad">>>>, <<<<0, "x">>, <<2, "x">>>>, <<<<1, "x">>, <<1, "bad">>>>}}

ImportedLists == UNION {[1..n -> ConfFiles \cup Archives] : n \in 1..2}
-----------------------------------------------------------------------------
\* Keys of five bytes: characters inside and at both sides of every range of the
\* alphabet, in every place of a group, and all characters as a hexadecimal digit.
Edges == {64, 65, 66, 67, 90, 91, 96, 97, 122, 123, 46, 47, 48, 57, 58, 42, 43, 44, 61, -1, -128, 127}

Base64Texts ==
  {c \o <<72, 105, 69, EqualsSign>> : c \in [1..4 -> {65, 90, 97, 48, 43, 47, 64, -1, 61}]}
  \cup {<<72, 105, 51, 47>> \o Append(c, EqualsSign) : c \in [1..3 -> Edges]}
  \cup {<<72, 105, 51, 47, 65, 65, 65, 65>>, <<72, 105, 51, 47, 65, 65, EqualsSign>>}

HexTexts ==
  {[i \in 1..10 |-> IF i = p THEN c ELSE 70] : p \in {3, 4}, c \in Chars \ {0}}
  \cup {<<c, d, 48, 48, 48, 48, 48, 48, 48, 48>> : c, d \in {48, 57, 65, 70, 97, 102}}
  \cup {<<48>>}

KeyTexts ==
  [form : {"base64"}, chars : Base64Texts] \cup [form : {"hex"}, chars : HexTexts]
-----------------------------------------------------------------------------
\* What a part that is not explored has for its variables.
IdleProvider == world = OneWorld /\ Init
IdleKeys    == input = None /\ state = None /\ accepted = None /\ key = None /\ output = None
IdleReader  == lines = None /\ reader = None /\ done = None
IdleScan    == text = <<>> /\ HighlightInit
IdleOption  == option = Plain("off") /\ OnDemandInit
IdleAddress == kind = None /\ address = None
IdleResolver == asked = <<>> /\ ResolverInit
IdleImport  == files = <<Archive(FALSE, <<>>)>> /\ listed = {} /\ ImportInit
IdleOpening ==
  log = [next |-> 0, lines |-> [k \in Slots |-> Blank], magic |-> TRUE] /\ OpeningInit
IdleRecent  == tunnels = {} /\ RecentInit

PartsInit ==
  \/ /\ part = "provider" /\ Init
     /\ IdleKeys /\ IdleReader /\ IdleScan /\ IdleOption
     /\ IdleAddress /\ IdleRecent /\ IdleResolver /\ IdleImport /\ IdleOpening
  \/ /\ part = "keys" /\ KeyInit
     /\ IdleProvider /\ IdleReader /\ IdleScan /\ IdleOption
     /\ IdleAddress /\ IdleRecent /\ IdleResolver /\ IdleImport /\ IdleOpening
  \/ /\ part = "config" /\ Config!Init
     /\ IdleProvider /\ IdleKeys /\ IdleScan /\ IdleOption
     /\ IdleAddress /\ IdleRecent /\ IdleResolver /\ IdleImport /\ IdleOpening
  \/ /\ part = "highlight" /\ HighlightInit
     /\ IdleProvider /\ IdleKeys /\ IdleReader /\ IdleOption
     /\ IdleAddress /\ IdleRecent /\ IdleResolver /\ IdleImport /\ IdleOpening
  \/ /\ part = "on demand" /\ OnDemandInit
     /\ IdleProvider /\ IdleKeys /\ IdleReader /\ IdleScan
     /\ IdleAddress /\ IdleRecent /\ IdleResolver /\ IdleImport /\ IdleOpening
  \/ /\ part = "address" /\ Address!Init
     /\ IdleProvider /\ IdleKeys /\ IdleReader /\ IdleScan
     /\ IdleOption /\ IdleRecent /\ IdleResolver /\ IdleImport /\ IdleOpening
  \/ /\ part = "recent" /\ RecentInit
     /\ IdleProvider /\ IdleKeys /\ IdleReader /\ IdleScan
     /\ IdleOption /\ IdleAddress /\ IdleResolver /\ IdleImport /\ IdleOpening
  \/ /\ part = "resolver" /\ ResolverInit
     /\ IdleProvider /\ IdleKeys /\ IdleReader /\ IdleScan
     /\ IdleOption /\ IdleAddress /\ IdleRecent /\ IdleImport /\ IdleOpening
  \/ /\ part = "import" /\ ImportInit
     /\ IdleProvider /\ IdleKeys /\ IdleReader /\ IdleScan
     /\ IdleOption /\ IdleAddress /\ IdleRecent /\ IdleResolver /\ IdleOpening
  \/ /\ part = "log" /\ OpeningInit
     /\ IdleProvider /\ IdleKeys /\ IdleReader /\ IdleScan
     /\ IdleOption /\ IdleAddress /\ IdleRecent /\ IdleResolver /\ IdleImport

PartsNext ==
  \/ /\ part = "provider" /\ Next
     /\ UNCHANGED <<part, keyVars, readerVars, highlightVars, optionVars, addressVars,
                     recentVars, resolverVars, importVars, openingVars>>
  \/ /\ part = "keys" /\ ReadAndWrite
     /\ UNCHANGED <<part, vars, readerVars, highlightVars, optionVars, addressVars,
                     recentVars, resolverVars, importVars, openingVars>>
  \/ /\ part = "config" /\ Config!Next
     /\ UNCHANGED <<part, vars, keyVars, highlightVars, optionVars, addressVars,
                     recentVars, resolverVars, importVars, openingVars>>
  \/ /\ part = "highlight" /\ HighlightNext
     /\ UNCHANGED <<part, vars, keyVars, readerVars, optionVars, addressVars,
                     recentVars, resolverVars, importVars, openingVars>>
  \/ /\ part = "on demand" /\ OnDemandNext
     /\ UNCHANGED <<part, vars, keyVars, readerVars, highlightVars, addressVars,
                     recentVars, resolverVars, importVars, openingVars>>
  \/ /\ part = "address" /\ Address!Next
     /\ UNCHANGED <<part, vars, keyVars, readerVars, highlightVars, optionVars,
                     recentVars, resolverVars, importVars, openingVars>>
  \/ /\ part = "recent" /\ RecentNext
     /\ UNCHANGED <<part, vars, keyVars, readerVars, highlightVars, optionVars,
                     addressVars, resolverVars, importVars, openingVars>>
  \/ /\ part = "resolver" /\ ResolverNext
     /\ UNCHANGED <<part, vars, keyVars, readerVars, highlightVars, optionVars,
                     addressVars, recentVars, importVars, openingVars>>
  \/ /\ part = "import" /\ ImportNext
     /\ UNCHANGED <<part, vars, keyVars, readerVars, highlightVars, optionVars,
                     addressVars, recentVars, resolverVars, openingVars>>
  \/ /\ part = "log" /\ OpeningNext
     /\ UNCHANGED <<part, vars, keyVars, readerVars, highlightVars, optionVars, addressVars,
                     recentVars, resolverVars, importVars>>

PartsSpec == PartsInit /\ [][PartsNext]_partsVars
-----------------------------------------------------------------------------
\* A text is read as the configuration it says, section by section.
ReadAsSaid == part = "config" => Config!ReadAsSaid

\* A configuration that is written and read again is the same.
WrittenIsReadBack == part = "config" => Config!WrittenIsReadBack

\* The address checks accept the addresses and nothing else.
AddressesAreRecognised == part = "address" => Address!AddressesAreRecognised
=============================================================================
