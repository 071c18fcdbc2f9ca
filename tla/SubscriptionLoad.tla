---------------------------- MODULE SubscriptionLoad ----------------------------
(***************************************************************************)
(* Loading a subscription in the Android app: the view model's coroutines    *)
(* (HomoscaleViewModel.kt), the preferences and the configuration file they *)
(* write (AppPreferences.kt, ConfigFiles.java), and the bridge's refresh of *)
(* the cached provider (engine_bootstrap.go, mobilelib/main.go).             *)
(*                                                                         *)
(* The main thread runs one piece of a coroutine at a time; while a member  *)
(* of Jobs writes the configuration in an IO thread, it goes on with others, *)
(* busy actions among them.  The bridge's calls block it, but no IO thread. *)
(***************************************************************************)
EXTENDS FiniteSets

CONSTANTS
    Jobs,   \* the coroutines that can be under way at once
    Urls,   \* the subscriptions' URLs
    Blank   \* no URL

\* The markers "no URL" and "nobody" are apart from the values.
ASSUME MarkersAssumption == Blank \notin Urls /\ "free" \notin Jobs

VARIABLES
    calm,       \* whether the user waits for what is under way and no write fails
    alive,      \* whether the app's process is there
    ui,         \* _uiState: the active subscription, the loaded one, ipv6 and busy
    prefs,      \* what the preferences hold of it
    yaml,       \* homoscale.yaml
    cache,      \* the cached provider: the URL that its content is from
    job,        \* each coroutine
    main,       \* the job whose call of the bridge blocks the main thread, or "free"
    matched     \* whether the cache has been what the last load that succeeded was for

app  == <<alive, ui, prefs>>
vars == <<calm, app, yaml, cache, job, main, matched>>

Choices == Urls \cup {Blank}
Text(how, url, ipv6) == [how |-> how, url |-> url, ipv6 |-> ipv6]
Part == Text("part", Blank, FALSE)
Usable(c) == c \in Urls

Idle == [at |-> "idle", kind |-> "sync", url |-> Blank, prev |-> Blank, read |-> Blank, ipv6 |-> FALSE]
JobType == [at : {"idle", "wait", "open", "write", "back", "ask", "read", "fetch", "cut", "fill", "ok", "err",
                  "end"},
            kind : {"sync", "action", "load", "tailnet"},
            url : Choices, prev : Choices, read : Choices, ipv6 : BOOLEAN]

NoneUnderWay == \A j \in Jobs : job[j] = Idle

TypeOK ==
    /\ calm \in BOOLEAN /\ alive \in BOOLEAN
    /\ ui \in [active : Choices, loaded : Choices, ipv6 : BOOLEAN, busy : BOOLEAN]
    /\ prefs \in [active : Choices, loaded : Choices, ipv6 : BOOLEAN]
    /\ yaml \in [how : {"part", "whole"}, url : Choices, ipv6 : BOOLEAN]
    /\ cache \in Urls \cup {"none", "empty"}
    /\ job \in [Jobs -> JobType]
    /\ main \in Jobs \cup {"free"}
    /\ matched \in BOOLEAN
    /\ \A j \in Jobs :
         job[j].at \in {"ask", "read", "fetch", "cut", "fill", "ok", "err"} <=> main = j

Fresh == [active |-> Blank, loaded |-> Blank, ipv6 |-> FALSE]

\* AppPreferencesStore.load: without a loaded subscription, the active one's URL.
FromPrefs(p) == [p EXCEPT !.loaded = IF @ = Blank THEN p.active ELSE @]
Seen(u) == [active |-> u.active, loaded |-> u.loaded, ipv6 |-> u.ipv6]

Init ==
    /\ calm \in BOOLEAN
    /\ alive = FALSE
    /\ ui = [active |-> Blank, loaded |-> Blank, ipv6 |-> FALSE, busy |-> FALSE]
    /\ prefs = Fresh
    /\ yaml = Part /\ cache = "none"
    /\ job = [j \in Jobs |-> Idle]
    /\ main = "free" /\ matched = TRUE

At(j, place)   == job[j].at = place
Sets(j, place) == job' = [job EXCEPT ![j].at = place]
Finishes(j) ==
    job' = [job EXCEPT ![j] = [Idle EXCEPT !.at = "end",
                                           !.kind = IF @ = job[j].kind THEN "sync" ELSE "action"]]
MainRuns == alive /\ main = "free"
\* Not every button is disabled while the app is busy, and none before it is drawn again.
Touches  == MainRuns /\ (calm => NoneUnderWay)

-----------------------------------------------------------------------------
(* What the user does.  A coroutine starts at once on the main thread.     *)

\* setActiveSubscription, saveSubscription, deleteSubscription: savePreferences.
Chooses(u) ==
    /\ Touches /\ u # ui.active
    /\ ui' = [ui EXCEPT !.active = u]
    /\ prefs' = Seen(ui')
    /\ UNCHANGED <<calm, alive, yaml, cache, job, main, matched>>

\* setIpv6Enabled writes the configuration at once; setRoutingMode, setPackageBypass and
\* addSuggestedProxyApps list the installed apps first.
SetsOption(j, place) ==
    /\ Touches /\ At(j, "idle") /\ place \in {"open", "wait"}
    /\ ui' = [ui EXCEPT !.ipv6 = ~@]
    /\ prefs' = Seen(ui')
    /\ job' = [job EXCEPT ![j] = [Idle EXCEPT !.at = place,
                                         !.url = IF place = "open" THEN ui.loaded ELSE Blank]]
    /\ UNCHANGED <<calm, alive, yaml, cache, main, matched>>

\* launchBusyAction: whatever is under way.
Launches(j, kind, place, url) ==
    /\ Touches /\ At(j, "idle")
    /\ ui' = [ui EXCEPT !.busy = TRUE]
    /\ job' = [job EXCEPT ![j] = [Idle EXCEPT !.at = place, !.kind = kind, !.url = url,
                                           !.prev = IF kind = "load" THEN ui.loaded ELSE Blank]]
    /\ main' = IF place = "ask" THEN j ELSE main
    /\ UNCHANGED <<calm, alive, prefs, yaml, cache, matched>>

connectService(j)         == Launches(j, "action", "open", ui.loaded)
disconnectService(j)      == Launches(j, "action", "end", Blank)
loadSubscriptionConfig(j) == Launches(j, "load", "open", ui.active)
loginToTailnet(j)         == Launches(j, "tailnet", "open", ui.loaded)
logoutTailnet(j)          == Launches(j, "tailnet", "ask", Blank)
\* ... and selectProxy.
setProxyMode(j)           == Launches(j, "action", "ask", Blank)

-----------------------------------------------------------------------------
(* syncConfig, in an IO thread.                                            *)

\* The installed apps are listed; which subscription is loaded is read now.
Listed(j) ==
    /\ MainRuns /\ At(j, "wait")
    /\ job' = [job EXCEPT ![j] = [@ EXCEPT !.at = "open", !.url = ui.loaded]]
    /\ UNCHANGED <<calm, app, yaml, cache, main, matched>>

\* The options are read from the state as it is by now.
Opens(j) ==
    /\ At(j, "open")
    /\ yaml' = Part
    /\ job' = [job EXCEPT ![j] = [@ EXCEPT !.at = "write", !.ipv6 = ui.ipv6]]
    /\ UNCHANGED <<calm, app, cache, main, matched>>

\* Over another's text, a shorter one leaves the other's end.
Writes(j) ==
    /\ At(j, "write")
    /\ LET text == Text("whole", job[j].url, job[j].ipv6)
       IN  yaml' \in {text} \cup IF yaml \in {Part, text} THEN {} ELSE {Part}
    /\ job' = [job EXCEPT ![j] = [@ EXCEPT !.at = "back", !.ipv6 = FALSE,
                                           !.url = IF job[j].kind = "load" THEN job[j].url ELSE Blank]]
    /\ UNCHANGED <<calm, app, cache, main, matched>>

Dead == /\ alive' = FALSE
        /\ job' = [j \in Jobs |-> Idle]
        /\ main' = "free"

\* Wrong on purpose: nobody takes the exception, and the flag stays.
SyncFailsSilently(j) ==
    /\ ~calm /\ (At(j, "open") \/ At(j, "write"))
    /\ job' = [job EXCEPT ![j] = Idle]
    /\ UNCHANGED <<calm, app, yaml, cache, main, matched>>

\* runCatching takes the exception; what is not a busy action ends with the app.
SyncFails(j) ==
    /\ ~calm /\ (At(j, "open") \/ At(j, "write"))
    /\ IF job[j].kind = "sync"
       THEN Dead
       ELSE Finishes(j) /\ UNCHANGED <<alive, main>>
    /\ UNCHANGED <<calm, ui, prefs, yaml, cache, matched>>

\* Back on the main thread: a load goes straight on to the refresh, and from there, without
\* letting anyone else in, to what follows; a login calls the bridge.
Back(j) ==
    /\ MainRuns /\ At(j, "back")
    /\ CASE job[j].kind = "load"    -> Sets(j, "read") /\ main' = j
         [] job[j].kind = "tailnet" -> Sets(j, "ask") /\ main' = j
         [] OTHER -> Finishes(j) /\ UNCHANGED main
    /\ UNCHANGED <<calm, app, yaml, cache, matched>>

\* The bridge's answer to a login, a logout or what is to be done about a proxy.
Answered(j) ==
    /\ main = j /\ At(j, "ask")
    /\ Finishes(j) /\ main' = "free"
    /\ UNCHANGED <<calm, app, yaml, cache, matched>>

\* The status has been read again; the first busy action that ends clears the flag.
Ends(j) ==
    /\ MainRuns /\ At(j, "end")
    /\ ui' = IF job[j].kind = "sync" THEN ui ELSE [ui EXCEPT !.busy = FALSE]
    /\ job' = [job EXCEPT ![j] = Idle]
    /\ UNCHANGED <<calm, alive, prefs, yaml, cache, main, matched>>

-----------------------------------------------------------------------------
(* HomoscaleRefreshSubscriptionJSON, on the main thread.                   *)

Answers(j, place) == /\ job' = [job EXCEPT ![j] = [@ EXCEPT !.at = place, !.read = Blank]]
                     /\ UNCHANGED <<calm, app, yaml, main>>

\* loadBridgeConfig: the file as it is now, whoever wrote it.
LoadsConfig(j) ==
    /\ main = j /\ At(j, "read") /\ yaml.how = "whole"
    /\ job' = [job EXCEPT ![j] = [@ EXCEPT !.at = "fetch", !.read = yaml.url]]
    /\ UNCHANGED <<calm, app, yaml, cache, main, matched>>

\* Empty or garbled: an error, or another directory's cache that is none of this app's.
LoadsGarbled(j) ==
    /\ main = j /\ At(j, "read") /\ yaml.how # "whole"
    /\ \E place \in {"ok", "err"} :
         Answers(j, place) /\ matched' = (matched /\ place = "err")
    /\ UNCHANGED cache

RemovesCache(j) ==
    /\ main = j /\ At(j, "fetch") /\ job[j].read = Blank
    /\ cache' = "none" /\ matched' = TRUE
    /\ Answers(j, "ok")

\* hasUsableAndroidSubscriptionCache: the old content, from wherever, will do.
FetchFailsOver(j) ==
    /\ main = j /\ At(j, "fetch") /\ job[j].read # Blank /\ Usable(cache)
    /\ matched' = FALSE
    /\ Answers(j, "ok")
    /\ UNCHANGED cache

\* Wrong on purpose: the failure is answered like a success.
FetchFailsUnseen(j) ==
    /\ main = j /\ At(j, "fetch") /\ job[j].read # Blank /\ ~Usable(cache)
    /\ Answers(j, "ok")
    /\ UNCHANGED <<cache, matched>>

FetchFails(j) ==
    /\ main = j /\ At(j, "fetch") /\ job[j].read # Blank /\ ~Usable(cache)
    /\ Answers(j, "err")
    /\ UNCHANGED <<cache, matched>>

Fetches(j) ==
    /\ main = j /\ At(j, "fetch") /\ job[j].read # Blank
    /\ Sets(j, "cut")
    /\ UNCHANGED <<calm, app, yaml, cache, main, matched>>

CutsCache(j) ==
    /\ main = j /\ At(j, "cut")
    /\ cache' = "empty"
    /\ Sets(j, "fill")
    /\ UNCHANGED <<calm, app, yaml, main, matched>>

\* normalizeSubscriptionProvider: the proxies of the answer, or the answer as it is.
FillsCache(j) ==
    /\ main = j /\ At(j, "fill")
    /\ cache' = job[j].read /\ matched' = TRUE
    /\ Answers(j, "ok")

\* A blank answer is written like any other.
FillsBlank(j) ==
    /\ main = j /\ At(j, "fill")
    /\ Answers(j, "ok")
    /\ UNCHANGED <<cache, matched>>

CacheFails(j) ==
    /\ ~calm /\ main = j
    /\ At(j, "cut") \/ At(j, "fill") \/ (At(j, "fetch") /\ job[j].read = Blank)
    /\ Answers(j, "err")
    /\ UNCHANGED <<cache, matched>>

Refresh(j) ==
    \/ LoadsConfig(j) \/ LoadsGarbled(j) \/ RemovesCache(j) \/ FetchFailsOver(j) \/ FetchFails(j)
    \/ Fetches(j) \/ CutsCache(j) \/ FillsCache(j) \/ FillsBlank(j) \/ CacheFails(j)

-----------------------------------------------------------------------------
(* What follows the refresh.                                               *)

\* Wrong on purpose: the active subscription is saved as it was when the load began.
SucceedsWithOld(j) ==
    /\ main = j /\ At(j, "ok")
    /\ ui' = [ui EXCEPT !.loaded = job[j].url]
    /\ prefs' = [Seen(ui') EXCEPT !.active = job[j].url]
    /\ Finishes(j) /\ main' = "free"
    /\ UNCHANGED <<calm, alive, yaml, cache, matched>>

Succeeds(j) ==
    /\ main = j /\ At(j, "ok")
    /\ ui' = [ui EXCEPT !.loaded = job[j].url]
    /\ prefs' = Seen(ui')
    /\ Finishes(j) /\ main' = "free"
    /\ UNCHANGED <<calm, alive, yaml, cache, matched>>

\* Wrong on purpose: the configuration keeps the URL that could not be loaded.
ReportsError(j) ==
    /\ main = j /\ At(j, "err")
    /\ Finishes(j) /\ main' = "free"
    /\ UNCHANGED <<calm, app, yaml, cache, matched>>

\* The configuration goes back to the subscription loaded before.
Restores(j) ==
    /\ main = j /\ At(j, "err")
    /\ job' = [job EXCEPT ![j] = [@ EXCEPT !.at = "open", !.kind = "action",
                                           !.url = job[j].prev, !.prev = Blank]]
    /\ main' = "free"
    /\ UNCHANGED <<calm, app, yaml, cache, matched>>

Coroutine(j) ==
    \/ Listed(j) \/ Opens(j) \/ Writes(j) \/ Back(j) \/ Ends(j)
    \/ Refresh(j) \/ Succeeds(j) \/ Restores(j)
    \/ job[j].kind = "action" /\ Answered(j)

-----------------------------------------------------------------------------
(* The app's process.                                                      *)

\* Init of the view model: the first configuration is written after the apps are listed.
Starts(j) ==
    /\ ~alive /\ alive' = TRUE
    /\ LET p == FromPrefs(prefs)
       IN  /\ ui' = [active |-> p.active, loaded |-> p.loaded, ipv6 |-> p.ipv6, busy |-> FALSE]
           /\ matched' = (matched /\ p.loaded = prefs.loaded)
    /\ job' = [job EXCEPT ![j].at = "wait"]
    /\ UNCHANGED <<calm, prefs, yaml, cache, main>>

\* What the preferences hold is applied before the process goes.
Dies ==
    /\ alive /\ Dead
    /\ matched' = (matched /\ ~\E j \in Jobs : At(j, "ok"))
    /\ UNCHANGED <<calm, ui, prefs, yaml, cache>>

Next ==
    \/ Dies
    \/ \E u \in Choices : Chooses(u)
    \/ \E j \in Jobs :
         \/ SetsOption(j, "open") \/ SetsOption(j, "wait")
         \/ connectService(j) \/ disconnectService(j) \/ loadSubscriptionConfig(j)
         \/ loginToTailnet(j) \/ logoutTailnet(j) \/ setProxyMode(j)
         \/ Coroutine(j) \/ Answered(j) \/ SyncFails(j) \/ Starts(j)

Spec == Init /\ [][Next]_vars

\* The coroutines run: the main thread and the IO threads go on, a fetch has a limit of
\* 15 seconds, a call of the engine's controller one of 10.  A login has none, nor a logout.
FairSpec == Spec /\ \A j \in Jobs : WF_vars(Coroutine(j))

-----------------------------------------------------------------------------
(* Properties.                                                             *)

\* What the user sees is what the next start of the app gives: saving one thing after a
\* suspension does not bring back an older value of another (savePreferences takes all the
\* others from the state as it is then).  A loaded subscription that is blank is taken for
\* the active one by the next start.
PrefsKeepWhatIsSeen ==
    alive => /\ prefs.active = ui.active /\ prefs.ipv6 = ui.ipv6
             /\ FromPrefs(prefs).loaded = FromPrefs(Seen(ui)).loaded

\* With a user who waits and writes that work, the configuration file agrees with what is
\* loaded and with the options whenever nothing is under way, also after a load that failed.
ConfigMatchesApp ==
    calm /\ alive /\ NoneUnderWay =>
        yaml = Text("whole", ui.loaded, ui.ipv6)

\* ... and the cached provider is the loaded subscription's, unless the last fetch failed
\* over to an older one, the answer was blank, the app died before it had saved what it had
\* loaded, or a start took the active subscription for the loaded one.
LoadedIsCached ==
    calm /\ alive /\ NoneUnderWay /\ matched /\ cache # "empty" =>
        cache = IF ui.loaded = Blank THEN "none" ELSE ui.loaded

\* The app does not stay busy, whatever fails and overlaps, unless a login or a logout keeps it
\* waiting: these have no limit (LoginTailscale under context.Background()).
BusyEnds ==
    alive /\ ui.busy ~> \/ ~alive \/ ~ui.busy
                       \/ \E j \in Jobs : At(j, "ask") /\ job[j].kind = "tailnet"
=============================================================================
