---------------------------- MODULE RoutingRules ----------------------------
(***************************************************************************)
(* What the user writes in the Routing tab, and what a core makes of it.   *)
(*                                                                         *)
(* A rule is a function from matcher keys to sets of values, with an       *)
(* action.  The keys stand for the families of sing-box keys that the      *)
(* program tells apart: "app" (process_name), "site" (the domain keys),    *)
(* "ip" (ip_cidr), "port" and "range" (port and port_range, both as the   *)
(* ports they cover) and "lan" (ip_is_private).  A connection has one      *)
(* value for each of app, site, ip and port.                               *)
(***************************************************************************)
EXTENDS Naturals, SequencesExt, FiniteSetsExt

NoTag == ""
Blank == " "            \* a name of white space only, from edited storage
Shared == "svchost"     \* the process that owns all queries of the DNS client
None == [none |-> TRUE]

\* The positions S in order, and the elements of a list at them: a filter of
\* the list, as a set of positions that a proof can speak of.
InOrder(S) ==
    [k \in 1 .. Cardinality(S) |-> CHOOSE x \in S : Cardinality({y \in S : y < x}) = k - 1]
At(list, S) == [k \in 1 .. Cardinality(S) |-> list[InOrder(S)[k]]]

-----------------------------------------------------------------------------
(* The stored settings: [rules, direct, vpn, sniff, final, ownLocal,       *)
(* ownRemote, https, pick]: `own` for DNS servers other than the built-in  *)
(* ones, `https` when the remote one is asked over HTTPS, `pick` for the   *)
(* server picked in the window.  A user's rule is [on, match, kind, to].   *)

IsEnabled(rule) == rule.on

\* strip_empty_fields and flatten_matchers: the matchers that are not empty
\* become keys of the rule itself.
Stripped(match) == [k \in {j \in DOMAIN match : match[j] # {}} |-> match[k]]

\* normalize_rule_action: the kind of the action object and its outbound; an
\* object without a kind routes.
Verb(rule) == IF rule.kind = NoTag THEN "route" ELSE rule.kind

Names(list) == list \ {Blank}

-----------------------------------------------------------------------------
(* How a core reads a list of rules.                                       *)

\* sing-box: alternatives inside the destination and inside the port, all
\* groups together.
Holds(key, values, c) ==
    CASE key = "app" -> c.app \in values
      [] key = "site" -> c.site \in values
      [] key \in {"ip", "lan"} -> c.ip \in values
      [] OTHER -> c.port \in values

Group(key) ==
    CASE key = "app" -> "process"
      [] key \in {"site", "ip", "lan"} -> "destination"
      [] OTHER -> "port"

Matches(match, c) ==
    \A key \in DOMAIN match :
        \E same \in DOMAIN match :
            Group(same) = Group(key) /\ Holds(same, match[same], c)

\* Xray: every field of a rule must hold.
MatchesAll(match, c) == \A key \in DOMAIN match : Holds(key, match[key], c)

PassingVerbs == {"sniff", "resolve", "route-options"}

\* A rule is [match, verb, to] and what it says [verb, to].  The first of a
\* list that hits says what is done.
Routed(tag) == [verb |-> "route", to |-> tag]
Says(rule) == [verb |-> rule.verb, to |-> rule.to]
FirstSays(rules, hits, otherwise) ==
    IF hits = {} THEN otherwise ELSE Says(rules[Min(hits)])

\* What a list of route rules does with a connection.
Hits(rules, c) ==
    {i \in DOMAIN rules : Matches(rules[i].match, c) /\ rules[i].verb \notin PassingVerbs}
Decision(rules, otherwise, c) == FirstSays(rules, Hits(rules, c), otherwise)

\* What a list of DNS rules does with a query: only the process that asks and
\* the name it asks for are known.
DnsHits(rules, q) == {i \in DOMAIN rules : MatchesAll(rules[i].match, q)}
DnsDecision(rules, otherwise, q) == FirstSays(rules, DnsHits(rules, q), otherwise)
=============================================================================
