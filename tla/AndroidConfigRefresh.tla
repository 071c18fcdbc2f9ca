-------------------------- MODULE AndroidConfigRefresh --------------------------
(***************************************************************************)
(* The engine configuration of one session of the Android app after the    *)
(* other: ensureEngineConfig generates config.yaml, or leaves the user's    *)
(* alone; startAndroidEmbeddedMihomo renders it with the Tailscale sections *)
(* and applies it; watchAndroidEmbeddedTailscaleConfig renders it again     *)
(* whenever they have changed, by taking the sections it put in last out of *)
(* the file and putting the new ones in.                                   *)
(*                                                                         *)
(* Every section is read from the runtime's snapshot, one read each, while  *)
(* the snapshot goes on changing.                                          *)
(***************************************************************************)
EXTENDS Naturals, Sequences, FiniteSets, SequencesExt

CONSTANTS
    SuffixRules,    \* the DOMAIN-SUFFIX rules of the MagicDNS suffixes, ...
    Default,        \* ... the one of ts.net among them
    Fixed,          \* the managed rules that do not change, the tailnet's CIDR rule last
    Match,          \* the rule of a generated configuration, MATCH,PROXY
    Names,          \* MagicDNS names, whole and short ones
    Short,          \* the short name of a name under the suffix that a rule is for
    IpOrder,        \* addresses, those of IPv4 first, each kind in ascending order
    None,           \* no entry for a name; no engine
    UserRules,      \* the rules of a configuration the user wrote, ...
    UserHosts,      \* ... and its hosts section
    MaxChanges      \* bound: changes of the snapshot, and reads that miss it

Ips == ToSet(IpOrder)

\* The rules there can be.
Rules == SuffixRules \cup ToSet(Fixed) \cup {Match} \cup ToSet(UserRules)

ASSUME ListsAssumption ==
    Fixed \in Seq(Rules) /\ UserRules \in Seq(Rules) /\ IpOrder \in Seq(Ips)
ASSUME RefreshAssumption ==
    /\ Default \in SuffixRules
    /\ ToSet(Fixed) \cap SuffixRules = {}
    /\ Match \notin ToSet(Fixed) \cup SuffixRules
    /\ None \notin Ips \cup Names \cup SuffixRules
    /\ Short \in [Names \X SuffixRules -> Names \cup {None}]
    /\ \A n \in Names : Short[<<n, Default>>] = None
    /\ UserHosts \in [Names -> Ips \cup {None}]
    /\ MaxChanges \in Nat

VARIABLES
    at,         \* where the session is
    managed,    \* whether config.yaml has its managed marker
    net,        \* what the snapshot says: suffix, hosts, and the loopback proxy
    file,       \* config.yaml
    current,    \* the sections that were put in last
    next,       \* the sections read since
    engine,     \* the configuration Mihomo runs, or None
    changes,    \* how often the snapshot has changed or was missed
    disturbed   \* history: the sections changed between the generation and the first
                \* rendering, or a refreshed configuration did not parse

vars == <<at, managed, net, file, current, next, engine, changes, disturbed>>

Hosts == [Names -> Ips \cup {None}]
NoHosts == [n \in Names |-> None]
\* via: the loopback listener, told from the former session's.
Sections == [suffix : SuffixRules, hosts : Hosts, via : {0, 1}]
NoSections == [suffix |-> None, hosts |-> NoHosts, via |-> None]
Configs == [rules : Seq(Rules), hosts : Hosts, via : {0, 1, None}]

ASSUME NoneIsNoConfig == None \notin Configs

Place == {"over", "hosts", "routing", "render", "write", "parse", "serve", "compare"}

-----------------------------------------------------------------------------
(* The sections and the configuration.                                     *)

\* buildTailscaleRouting: the suffix's rule first.
ManagedRules(s) == <<s.suffix>> \o Fixed
\* The configuration ensureEngineConfig generates.
Generated(s) == [rules |-> ManagedRules(s) \o <<Match>>, hosts |-> s.hosts, via |-> s.via]

\* The rules that are not to be dropped, in their order.
Without(rules, dropped) ==
    LET kept[i \in 0 .. Len(rules)] ==
          IF i = 0 THEN <<>>
          ELSE IF rules[i] \in dropped THEN kept[i - 1] ELSE Append(kept[i - 1], rules[i])
    IN  kept[Len(rules)]
RemoveRules(rules, s) == IF s = NoSections THEN rules ELSE Without(rules, ToSet(ManagedRules(s)))
\* Wrong on purpose: the rules are appended.
InjectRulesLast(rules, s) == Without(rules, ToSet(ManagedRules(s))) \o ManagedRules(s)
InjectRules(rules, s) == ManagedRules(s) \o Without(rules, ToSet(ManagedRules(s)))

RemoveHosts(hosts, s) == [n \in Names |-> IF s.hosts[n] # None THEN None ELSE hosts[n]]
InjectHosts(hosts, s) == [n \in Names |-> IF s.hosts[n] # None THEN s.hosts[n] ELSE hosts[n]]

\* Wrong on purpose: what was put in last is not taken out.
ReplaceAdding(config, previous, s) ==
    [rules |-> InjectRules(config.rules, s),
     hosts |-> InjectHosts(config.hosts, s),
     via   |-> s.via]

\* replaceManagedTailscaleSections; the proxy is replaced by its name.
ReplaceSections(config, previous, s) ==
    [rules |-> InjectRules(RemoveRules(config.rules, previous), s),
     hosts |-> InjectHosts(RemoveHosts(config.hosts, previous), s),
     via   |-> s.via]

-----------------------------------------------------------------------------
(* The names of the tailnet (tailscale.go).                                *)

\* The lowest IPv4 address, or else the lowest one.
preferredTailscaleIP(ips) ==
    IF ips = {} THEN None ELSE Head(Without(IpOrder, Ips \ ips))

\* Wrong on purpose: a short name hides the node that has that very name.
AliasesFirst(hosts, rule) ==
    [n \in Names |->
        LET whole == {m \in Names : hosts[m] # None /\ Short[<<m, rule>>] = n}
        IN  IF whole # {} THEN hosts[CHOOSE m \in whole : TRUE] ELSE hosts[n]]

\* tailscaleMagicDNSHosts: magicDNSShortHostAliases adds the short names that stand for one
\* whole name and for no node's own.
WithAliases(hosts, rule) ==
    [n \in Names |->
        LET whole == {m \in Names : hosts[m] # None /\ Short[<<m, rule>>] = n}
        IN  IF hosts[n] = None /\ Cardinality(whole) = 1
            THEN hosts[CHOOSE m \in whole : TRUE] ELSE hosts[n]]

-----------------------------------------------------------------------------
TypeOK ==
    /\ at \in Place
    /\ managed \in BOOLEAN
    /\ net \in Sections
    /\ file \in Configs
    /\ engine \in Configs \cup {None}
    /\ current \in Sections \cup {NoSections}
    /\ next \in [suffix : SuffixRules \cup {None}, hosts : Hosts, via : {0, 1, None}]
    /\ at \in {"write", "parse", "compare"} => next \in Sections
    /\ at \in {"serve", "compare"} => engine # None /\ current \in Sections
    /\ changes \in 0..MaxChanges
    /\ disturbed \in BOOLEAN

Init ==
    /\ at = "over"
    /\ managed \in BOOLEAN
    /\ net = [suffix |-> Default, hosts |-> NoHosts, via |-> 0]
    /\ file = [rules |-> UserRules, hosts |-> UserHosts, via |-> None]
    /\ current = NoSections
    /\ next = NoSections
    /\ engine = None
    /\ changes = 0
    /\ disturbed = FALSE

-----------------------------------------------------------------------------
(* The snapshot.                                                           *)

Count == changes < MaxChanges /\ changes' = changes + 1

\* A peer comes, goes or gets other addresses, or the suffix becomes known.
SnapshotChanges ==
    /\ Count
    /\ \/ \E n \in Names, ips \in SUBSET Ips :
            net' = [net EXCEPT !.hosts[n] = preferredTailscaleIP(ips)]
       \/ \E s \in SuffixRules : net' = [net EXCEPT !.suffix = s]
    /\ net' # net
    /\ UNCHANGED <<at, managed, file, current, next, engine, disturbed>>

\* The four reads of buildTailscaleRouting and tailscaleMagicDNSHosts.  One that finds
\* the snapshot being rewritten, or the one a former session's watcher wrote late, costs
\* one of MaxChanges.
ReadRouting(s) ==
    LET read(suffix, via) == [suffix |-> suffix, hosts |-> next.hosts, via |-> via]
    IN  \/ s = read(net.suffix, net.via) /\ UNCHANGED changes
        \/ s = read(Default, net.via) /\ Count
        \/ s = read(net.suffix, 1 - net.via) /\ Count
ReadHosts(s) ==
    \/ s = [next EXCEPT !.hosts = WithAliases(net.hosts, net.suffix)] /\ UNCHANGED changes
    \/ s = [next EXCEPT !.hosts = WithAliases(net.hosts, Default)] /\ Count
    \/ s = [next EXCEPT !.hosts = NoHosts] /\ Count
\* "embedded tailscale runtime is not ready".
NotReady == Count

-----------------------------------------------------------------------------
(* A session.                                                              *)

Goto(from, to) == at = from /\ at' = to

\* A new runtime, with a listener of its own, and StartEngine's ensureEngineConfig.
Begin ==
    /\ Goto("over", IF managed THEN "hosts" ELSE "render")
    /\ net' = [net EXCEPT !.via = 1 - @]
    /\ current' = NoSections
    /\ disturbed' = FALSE
    /\ UNCHANGED <<managed, file, next, engine, changes>>

\* injectTailscaleDNS comes before buildTailscaleRouting here, ...
GenerateHosts ==
    /\ Goto("hosts", "routing")
    /\ ReadHosts(next')
    /\ UNCHANGED <<managed, net, file, current, engine, disturbed>>

Generate ==
    /\ Goto("routing", "render")
    /\ ReadRouting(next')
    /\ file' = Generated(next')
    /\ UNCHANGED <<managed, net, current, engine, disturbed>>

GenerateFails ==
    /\ Goto("routing", "over")
    /\ NotReady
    /\ UNCHANGED <<managed, net, file, current, next, engine, disturbed>>

\* ... and after it in renderAndroidEmbeddedRuntimeConfig.
Render ==
    /\ Goto("render", "write")
    /\ ReadRouting(next')
    /\ UNCHANGED <<managed, net, file, current, engine, disturbed>>

\* Wrong on purpose: a start that cannot render goes on.
FallbackServes == "serve"
\* An error ends a session that is starting; the watcher goes on.
Fallback == IF current = NoSections THEN "over" ELSE "serve"

RenderFails ==
    /\ Goto("render", Fallback)
    /\ NotReady
    /\ UNCHANGED <<managed, net, file, current, next, engine, disturbed>>

\* The file is written before the text is known to parse.
Write ==
    /\ Goto("write", "parse")
    /\ ReadHosts(next')
    /\ file' = ReplaceSections(file, current, next')
    /\ disturbed' = (disturbed \/ (current = NoSections /\ managed /\ file # Generated(next')))
    /\ UNCHANGED <<managed, net, current, engine>>

Apply ==
    /\ Goto("parse", "serve")
    /\ engine' = file
    /\ current' = next
    /\ UNCHANGED <<managed, net, file, next, changes, disturbed>>

ParseFails ==
    /\ Goto("parse", Fallback)
    /\ Count
    /\ disturbed' = TRUE
    /\ UNCHANGED <<managed, net, file, current, next, engine>>

\* A tick of the watcher.
Poll ==
    /\ Goto("serve", "compare")
    /\ ReadRouting(next')
    /\ UNCHANGED <<managed, net, file, current, engine, disturbed>>

Compare ==
    /\ ReadHosts(next')
    /\ Goto("compare", IF next' = current THEN "serve" ELSE "render")
    /\ UNCHANGED <<managed, net, file, current, engine, disturbed>>

\* The context is done.
End ==
    /\ Goto("serve", "over")
    /\ engine' = None
    /\ UNCHANGED <<managed, net, file, current, next, changes, disturbed>>

Watcher == Poll \/ Compare \/ Render \/ Write \/ Apply
Next == \/ SnapshotChanges \/ Begin \/ GenerateHosts \/ Generate \/ GenerateFails
        \/ RenderFails \/ ParseFails \/ End \/ Watcher

Spec == Init /\ [][Next]_vars

\* The ticker ticks and the goroutine is scheduled.
FairSpec == Spec /\ WF_vars(Watcher)

-----------------------------------------------------------------------------
(* Properties.                                                             *)

Managed == SuffixRules \cup ToSet(Fixed)
Own(rules) == Without(rules, Managed)

\* Refreshing a generated configuration comes to the same as generating it again: the
\* engine runs with the current sections and nothing is left of former ones, unless they
\* changed before the first rendering or a refreshed configuration did not parse.
RefreshIsRegeneration ==
    managed /\ ~disturbed /\ at \in {"serve", "compare", "render", "write"} /\ engine # None
        => engine = Generated(current)

\* However many sessions and refreshes there are, a configuration the user wrote keeps
\* the rules that are not managed ones, in their order.
OwnRulesKept == ~managed => Own(file.rules) = Own(UserRules)

\* The engine matches the tailnet's rules before any other, and each of them once.
TailnetFirst ==
    engine # None =>
        /\ IsPrefix(ManagedRules(current), engine.rules)
        /\ \A r \in ToSet(ManagedRules(current)) :
             r \notin ToSet(SubSeq(engine.rules, 2 + Len(Fixed), Len(engine.rules)))

\* Putting the managed rules in and taking them out disturbs the order of neither.
RulesKeepTheirOrder == OwnRulesKept /\ TailnetFirst

\* The engine catches up with the snapshot: with its names, their short forms where no
\* node has that very name, its suffix and the listener of the session that runs.
EngineFollows ==
    at = "serve" ~> \/ at = "over"
                    \/ /\ engine # None
                       /\ Head(engine.rules) = net.suffix
                       /\ engine.via = net.via
                       /\ \A n \in Names : net.hosts[n] # None =>
                            /\ engine.hosts[n] = net.hosts[n]
                            /\ LET short == Short[<<n, net.suffix>>]
                               IN  short # None /\ net.hosts[short] = None =>
                                       engine.hosts[short] = net.hosts[n]
=============================================================================
