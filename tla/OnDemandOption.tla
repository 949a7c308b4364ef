---------------------------- MODULE OnDemandOption ----------------------------
(***************************************************************************)
(* ActivateOnDemandOption.swift: the user's option becomes a list of       *)
(* on-demand rules of the system, of which the first that matches decides, *)
(* and is read back from them.  A list of SSIDs is a non-empty set.        *)
(***************************************************************************)
EXTENDS Sequences, FiniteSets, SequencesExt

CONSTANT SSIDs

VARIABLES option, rules, readBack

optionVars == <<option, rules, readBack>>

\* wiFi, and the other interface of the build: cellular or ethernet.
Interfaces == {"wiFi", "nonWiFi"}

AnySSID == {}

SSIDLists == (SUBSET SSIDs) \ {{}}

SSIDOptions ==
  {[kind |-> "any", ssids |-> AnySSID]} \cup [kind : {"only", "except"}, ssids : SSIDLists]

Plain(kind) == [kind |-> kind, ssid |-> [kind |-> "any", ssids |-> AnySSID]]

Options ==
  {Plain("off"), Plain("nonWiFiInterfaceOnly")}
  \cup [kind : {"wiFiInterfaceOnly", "anyInterface"}, ssid : SSIDOptions]

Rule(action, interface, ssids) == [action |-> action, interface |-> interface, ssids |-> ssids]
Connect(interface)    == Rule("connect", interface, AnySSID)
Disconnect(interface) == Rule("disconnect", interface, AnySSID)

\* Mutant: the rule for all of wiFi comes before that for some SSIDs.
SSIDRulesReversed(ssid) ==
  CASE ssid.kind = "any"    -> <<Connect("wiFi")>>
    [] ssid.kind = "only"   -> <<Disconnect("wiFi"), Rule("connect", "wiFi", ssid.ssids)>>
    [] ssid.kind = "except" -> <<Connect("wiFi"), Rule("disconnect", "wiFi", ssid.ssids)>>

SSIDRules(ssid) ==
  CASE ssid.kind = "any"    -> <<Connect("wiFi")>>
    [] ssid.kind = "only"   -> <<Rule("connect", "wiFi", ssid.ssids), Disconnect("wiFi")>>
    [] ssid.kind = "except" -> <<Rule("disconnect", "wiFi", ssid.ssids), Connect("wiFi")>>

RulesFor(o) ==
  CASE o.kind = "off" -> <<>>
    [] o.kind = "wiFiInterfaceOnly"    -> Append(SSIDRules(o.ssid), Disconnect("nonWiFi"))
    [] o.kind = "nonWiFiInterfaceOnly" -> <<Connect("nonWiFi"), Disconnect("wiFi")>>
    [] o.kind = "anyInterface" ->
         IF o.ssid.kind = "any" THEN <<Connect("any")>>
         ELSE Append(SSIDRules(o.ssid), Connect("nonWiFi"))

First(rs, places) == rs[Min(places)]

WithTwoRules(rs) ==
  LET connect == First(rs, {i \in DOMAIN rs : rs[i].action = "connect"}) IN
  Plain(IF connect.interface = "wiFi" THEN "wiFiInterfaceOnly" ELSE "nonWiFiInterfaceOnly")

\* Mutant: the SSID rule is looked for among all wiFi rules.
WithThreeRulesAnyWiFi(rs) ==
  LET wiFi  == First(rs, {i \in DOMAIN rs : rs[i].interface = "wiFi" /\ rs[i].action = "connect"})
      other == First(rs, {i \in DOMAIN rs : rs[i].interface = "nonWiFi"}) IN
  [kind |-> IF other.action = "connect" THEN "anyInterface" ELSE "wiFiInterfaceOnly",
   ssid |-> [kind |-> IF wiFi.action = "connect" THEN "only" ELSE "except",
             ssids |-> wiFi.ssids]]

WithThreeRules(rs) ==
  LET wiFi  == First(rs, {i \in DOMAIN rs : rs[i].interface = "wiFi" /\ rs[i].ssids # AnySSID})
      other == First(rs, {i \in DOMAIN rs : rs[i].interface = "nonWiFi"}) IN
  [kind |-> IF other.action = "connect" THEN "anyInterface" ELSE "wiFiInterfaceOnly",
   ssid |-> [kind |-> IF wiFi.action = "connect" THEN "only" ELSE "except",
             ssids |-> wiFi.ssids]]

OptionFrom(rs) ==
  CASE Len(rs) = 0 -> Plain("off")
    [] Len(rs) = 1 -> Plain("anyInterface")
    [] Len(rs) = 2 -> WithTwoRules(rs)
    [] Len(rs) = 3 -> WithThreeRules(rs)

OnDemandInit ==
  /\ option \in Options
  /\ rules = RulesFor(option) /\ readBack = OptionFrom(rules)

\* The user chooses an option; it is applied, and read for the next editing.
Apply(o) ==
  /\ option' = o /\ rules' = RulesFor(o) /\ readBack' = OptionFrom(rules')

OnDemandNext == \E o \in Options : Apply(o)

OnDemandSpec == OnDemandInit /\ [][OnDemandNext]_optionVars
-----------------------------------------------------------------------------
\* What the system does on an interface, on wiFi with an SSID: the first rule that
\* matches decides.
Matches(rule, interface, ssid) ==
  /\ rule.interface \in {"any", interface}
  /\ rule.ssids = AnySSID \/ (interface = "wiFi" /\ ssid \in rule.ssids)

Decision(rs, interface, ssid) ==
  LET matching == {i \in DOMAIN rs : Matches(rs[i], interface, ssid)} IN
  IF matching = {} THEN "none" ELSE First(rs, matching).action

Permits(ssidOption, ssid) ==
  CASE ssidOption.kind = "any"    -> TRUE
    [] ssidOption.kind = "only"   -> ssid \in ssidOption.ssids
    [] ssidOption.kind = "except" -> ssid \notin ssidOption.ssids

IsWanted(o, interface, ssid) ==
  CASE o.kind = "wiFiInterfaceOnly"    -> interface = "wiFi" /\ Permits(o.ssid, ssid)
    [] o.kind = "nonWiFiInterfaceOnly" -> interface = "nonWiFi"
    [] o.kind = "anyInterface"         -> interface = "wiFi" => Permits(o.ssid, ssid)

\* On every interface and SSID, the rules make the system connect exactly when the option
\* says so and disconnect otherwise, by the order in which they are written.
RulesSayTheOption ==
  \A interface \in Interfaces, ssid \in SSIDs :
    Decision(rules, interface, ssid) =
      IF option.kind = "off" THEN "none"
      ELSE IF IsWanted(option, interface, ssid) THEN "connect" ELSE "disconnect"

\* The rules are told apart by their number and actions alone, and give back the option
\* they were made from.
OptionIsReadBack == readBack = option
=============================================================================
