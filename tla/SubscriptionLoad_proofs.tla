------------------------ MODULE SubscriptionLoad_proofs ------------------------
(***************************************************************************)
(* Theorems about SubscriptionLoad, for any sets of coroutines and          *)
(* subscriptions.                                                          *)
(***************************************************************************)
EXTENDS SubscriptionLoad, TLAPS

\* The cache that a subscription's load leaves.
Cached(url) == IF url = Blank THEN "none" ELSE url

Refreshing == {"read", "fetch", "cut", "fill", "ok", "err"}
Blocking   == Refreshing \cup {"ask"}
Kinds      == {"sync", "action", "load", "tailnet"}

\* A coroutine that is idle remembers nothing, and there is none in an app that is dead.
Quiet ==
    /\ \A j \in Jobs : At(j, "idle") => job[j] = Idle
    /\ ~alive => NoneUnderWay /\ main = "free"
    /\ \A j \in Jobs : job[j].at \in {"cut", "fill"} => job[j].read # Blank

\* The user waits: one coroutine at a time, which finds the state as it has left it.
OneJob == \A j, k \in Jobs : job[j] # Idle /\ job[k] # Idle => j = k

\* The URL that the configuration is to hold while a coroutine is under way.
Wanted(j) == IF job[j].kind = "load" THEN job[j].url ELSE ui.loaded

Progress(j) ==
    /\ At(j, "wait") => job[j].kind = "sync"
    /\ job[j].at \in {"open", "write"} => job[j].url = Wanted(j)
    /\ job[j].kind = "load" => job[j].prev = ui.loaded
    /\ At(j, "write") => job[j].ipv6 = ui.ipv6 /\ yaml = Part
    /\ At(j, "back") => yaml = Text("whole", Wanted(j), ui.ipv6)
    /\ job[j].at \in Refreshing =>
         job[j].kind = "load" /\ yaml = Text("whole", job[j].url, ui.ipv6)
    /\ job[j].at \in {"fetch", "cut", "fill"} => job[j].read = job[j].url
    /\ job[j].at \in {"ask", "end"} => yaml = Text("whole", ui.loaded, ui.ipv6)
    /\ At(j, "fill") => cache = "empty"

\* What the cache holds, unless it is known not to match.
CacheIs(url) == matched /\ cache # "empty" => cache = Cached(url)
NoneOk == \A j \in Jobs : ~At(j, "ok")

Waiting ==
    /\ OneJob
    /\ alive => /\ \A j \in Jobs : Progress(j)
                /\ NoneUnderWay => yaml = Text("whole", ui.loaded, ui.ipv6)
                /\ \A j \in Jobs : At(j, "ok") => CacheIs(job[j].url)
                /\ NoneOk => CacheIs(ui.loaded) /\ (matched => prefs.loaded = ui.loaded)
    /\ ~alive => CacheIs(prefs.loaded)

\* The inductive invariant.
LoadInv == TypeOK /\ Quiet /\ PrefsKeepWhatIsSeen /\ (calm => Waiting)

USE MarkersAssumption DEF MarkersAssumption, app, Choices, At, Text, Part, MainRuns, Blocking, Kinds

-----------------------------------------------------------------------------
\* A step moves one coroutine; what it makes of it.
Moves(j) == job' \in [Jobs -> JobType] /\ \A k \in Jobs \ {j} : job'[k] = job[k]
Becomes(j, at, kind, url, prev, read, ipv6) ==
    /\ job'[j].at = at /\ job'[j].kind = kind /\ job'[j].url = url /\ job'[j].prev = prev
    /\ job'[j].read = read /\ job'[j].ipv6 = ipv6

LEMMA Setting ==
  ASSUME job \in [Jobs -> JobType], NEW j \in Jobs, NEW place,
         place \in {"idle", "wait", "open", "write", "back", "ask", "read", "fetch", "cut",
                    "fill", "ok", "err", "end"},
         Sets(j, place)
  PROVE  Moves(j) /\ Becomes(j, place, job[j].kind, job[j].url, job[j].prev, job[j].read,
                             job[j].ipv6)
BY SMTT(30) DEF Sets, Moves, Becomes, JobType

LEMMA Answering ==
  ASSUME job \in [Jobs -> JobType], NEW j \in Jobs, NEW place \in {"ok", "err"},
         Answers(j, place)
  PROVE  Moves(j) /\ Becomes(j, place, job[j].kind, job[j].url, job[j].prev, Blank, job[j].ipv6)
BY ZenonT(40) DEF Answers, Moves, Becomes, JobType

LEMMA IdleType == Idle \in JobType
BY DEF Idle, JobType

\* What is left of a coroutine's kind at its end.
LastKind(kind) == IF kind = "sync" THEN "sync" ELSE "action"

LEMMA Finishing ==
  ASSUME job \in [Jobs -> JobType], NEW j \in Jobs, Finishes(j)
  PROVE  Moves(j) /\ Becomes(j, "end", LastKind(job[j].kind), Blank, Blank, Blank, FALSE)
<1> DEFINE kind == LastKind(job[j].kind)
           b == [Idle EXCEPT !.at = "end", !.kind = kind]
<1>1. kind \in {"sync", "action"} BY DEF LastKind
<1>2. job' = [job EXCEPT ![j] = b] BY DEF Finishes, Idle, LastKind
<1> HIDE DEF kind
<1>3. /\ b.at = "end" /\ b.kind = kind /\ b.url = Blank /\ b.prev = Blank /\ b.read = Blank
      /\ b.ipv6 = FALSE
  BY DEF Idle
<1>4. b \in JobType BY <1>1 DEF Idle, JobType
<1> HIDE DEF b
<1>5. Moves(j) /\ Becomes(j, "end", kind, Blank, Blank, Blank, FALSE)
  BY <1>2, <1>3, <1>4 DEF Moves, Becomes
<1> QED BY <1>5 DEF kind

LEMMA Launching ==
  ASSUME TypeOK, NEW j \in Jobs, NEW kind \in Kinds, NEW place \in {"open", "ask", "end"},
         NEW url \in Choices, Launches(j, kind, place, url)
  PROVE  Moves(j) /\ Becomes(j, place, kind, url, IF kind = "load" THEN ui.loaded ELSE Blank,
                             Blank, FALSE)
<1> DEFINE prev == IF kind = "load" THEN ui.loaded ELSE Blank
           b == [Idle EXCEPT !.at = place, !.kind = kind, !.url = url, !.prev = prev]
<1>1. prev \in Choices /\ job \in [Jobs -> JobType] BY DEF TypeOK
<1>2. job' = [job EXCEPT ![j] = b] BY DEF Launches
<1> HIDE DEF prev
<1>3. /\ b.at = place /\ b.kind = kind /\ b.url = url /\ b.prev = prev /\ b.read = Blank
      /\ b.ipv6 = FALSE
  BY DEF Idle
<1>4. b \in JobType BY <1>1 DEF Idle, JobType
<1> HIDE DEF b
<1>5. Moves(j) /\ Becomes(j, place, kind, url, prev, Blank, FALSE)
  BY <1>1, <1>2, <1>3, <1>4 DEF Moves, Becomes
<1> QED BY <1>5 DEF prev

LEMMA Option ==
  ASSUME TypeOK, NEW j \in Jobs, NEW place \in {"open", "wait"}, SetsOption(j, place)
  PROVE  Moves(j) /\ Becomes(j, place, "sync", IF place = "open" THEN ui.loaded ELSE Blank,
                             Blank, Blank, FALSE)
<1> DEFINE url == IF place = "open" THEN ui.loaded ELSE Blank
           b == [Idle EXCEPT !.at = place, !.url = url]
<1>1. url \in Choices /\ job \in [Jobs -> JobType] BY DEF TypeOK
<1>2. job' = [job EXCEPT ![j] = b] BY DEF SetsOption
<1> HIDE DEF url
<1>3. /\ b.at = place /\ b.kind = "sync" /\ b.url = url /\ b.prev = Blank /\ b.read = Blank
      /\ b.ipv6 = FALSE
  BY DEF Idle
<1>4. b \in JobType BY <1>1 DEF Idle, JobType
<1> HIDE DEF b
<1>5. Moves(j) /\ Becomes(j, place, "sync", url, Blank, Blank, FALSE)
  BY <1>1, <1>2, <1>3, <1>4 DEF Moves, Becomes
<1> QED BY <1>5 DEF url

-----------------------------------------------------------------------------
\* The parts of the invariant that only depend on which coroutine has moved, and where to.
LEMMA TypeStep ==
  ASSUME TypeOK, NEW j \in Jobs, Moves(j),
         calm' \in BOOLEAN, alive' \in BOOLEAN, matched' \in BOOLEAN,
         ui' \in [active : Choices, loaded : Choices, ipv6 : BOOLEAN, busy : BOOLEAN],
         prefs' \in [active : Choices, loaded : Choices, ipv6 : BOOLEAN],
         yaml' \in [how : {"part", "whole"}, url : Choices, ipv6 : BOOLEAN],
         cache' \in Urls \cup {"none", "empty"},
         main' = IF job'[j].at \in Blocking THEN j ELSE IF main = j THEN "free" ELSE main,
         job'[j].at \in Blocking => main \in {j, "free"}
  PROVE  TypeOK'
<1>1. main' \in Jobs \cup {"free"} BY DEF TypeOK
<1>2. ASSUME NEW k \in Jobs
      PROVE  job'[k].at \in {"ask", "read", "fetch", "cut", "fill", "ok", "err"} <=> main' = k
  BY DEF TypeOK, Moves, Refreshing
<1> QED BY <1>1, <1>2 DEF TypeOK, Moves

LEMMA QuietStep ==
  ASSUME Quiet, alive', NEW j \in Jobs, Moves(j), ~At(j, "idle")',
         job'[j].at \in {"cut", "fill"} => job'[j].read # Blank
  PROVE  Quiet'
BY DEF Quiet, Moves

\* A coroutine that is under way is alone when the user waits.
LEMMA Alone ==
  ASSUME Waiting, NEW j \in Jobs, job[j] # Idle \/ NoneUnderWay
  PROVE  \A k \in Jobs \ {j} : job[k] = Idle
BY DEF Waiting, OneJob, NoneUnderWay

LEMMA WaitingStep ==
  ASSUME alive', NEW j \in Jobs, Moves(j), ~At(j, "idle")',
         \A k \in Jobs \ {j} : job[k] = Idle,
         Progress(j)',
         At(j, "ok")' => CacheIs(job[j].url)',
         ~At(j, "ok")' => CacheIs(ui.loaded)' /\ (matched' => prefs'.loaded = ui'.loaded)
  PROVE  Waiting'
<1>1. \A k \in Jobs \ {j} : job'[k] = Idle BY DEF Moves
<1>2. job'[j] # Idle BY DEF Idle
<1>3. OneJob' BY <1>1 DEF OneJob
<1>4. ~NoneUnderWay' BY <1>2 DEF NoneUnderWay
<1>5. ASSUME NEW k \in Jobs \ {j} PROVE Progress(k)'
  BY <1>1 DEF Progress, Idle, Refreshing
<1>6. \A k \in Jobs \ {j} : ~At(k, "ok")' BY <1>1 DEF Idle
<1> QED BY <1>3, <1>4, <1>5, <1>6 DEF Waiting, NoneOk

-----------------------------------------------------------------------------
\* An app that is gone has no coroutine left.
LEMMA DeadInv ==
  ASSUME TypeOK, Dead, UNCHANGED <<calm, ui, prefs, yaml, cache>>, matched' \in BOOLEAN,
         calm => CacheIs(prefs.loaded)'
  PROVE  LoadInv'
<1>1. \A j \in Jobs : job'[j] = Idle BY DEF Dead
<1>2. job' \in [Jobs -> JobType] BY IdleType DEF Dead
<1>3. TypeOK'
  <2>1. \A j \in Jobs : job'[j].at \notin {"ask", "read", "fetch", "cut", "fill", "ok", "err"}
    BY <1>1 DEF Idle
  <2>2. main' = "free" /\ alive' = FALSE BY DEF Dead
  <2>3. \A j \in Jobs : job'[j].at \in {"ask", "read", "fetch", "cut", "fill", "ok", "err"} <=> main' = j
    BY <2>1, <2>2
  <2>4. alive' \in BOOLEAN /\ main' \in Jobs \cup {"free"} BY <2>2
  <2> QED BY <1>2, <2>3, <2>4 DEF TypeOK
<1>4. Quiet' BY <1>1 DEF Quiet, Dead, NoneUnderWay, Idle
<1>5. PrefsKeepWhatIsSeen' BY DEF PrefsKeepWhatIsSeen, Dead
<1>6. calm => Waiting' BY <1>1 DEF Waiting, Dead, OneJob
<1> QED BY <1>3, <1>4, <1>5, <1>6 DEF LoadInv

LEMMA UnderWay == ASSUME LoadInv, NEW j \in Jobs, ~At(j, "idle") PROVE alive
BY DEF LoadInv, Quiet, NoneUnderWay, Idle

\* What a coroutine finds that has not just refreshed the provider, when the user waits.
LEMMA Found ==
  ASSUME LoadInv, calm, NEW j \in Jobs, ~At(j, "idle"), ~At(j, "ok")
  PROVE  /\ \A k \in Jobs \ {j} : job[k] = Idle
         /\ Progress(j) /\ CacheIs(ui.loaded) /\ (matched => prefs.loaded = ui.loaded)
<1>1. alive /\ Waiting BY UnderWay DEF LoadInv
<1>2. job[j] # Idle BY DEF Idle
<1>3. \A k \in Jobs \ {j} : job[k] = Idle BY <1>1, <1>2, Alone
<1>4. NoneOk BY <1>3 DEF NoneOk, Idle
<1> QED BY <1>1, <1>3, <1>4 DEF Waiting

-----------------------------------------------------------------------------
(* One lemma per action: syncConfig.                                       *)

LEMMA ListedInv == ASSUME LoadInv, NEW j \in Jobs, Listed(j) PROVE LoadInv'
<1>1. Moves(j) /\ Becomes(j, "open", job[j].kind, ui.loaded, job[j].prev, job[j].read,
                          job[j].ipv6)
  <2> DEFINE b == [job[j] EXCEPT !.at = "open", !.url = ui.loaded]
  <2>1. job \in [Jobs -> JobType] /\ job[j] \in JobType /\ ui.loaded \in Choices
    BY DEF LoadInv, TypeOK
  <2>2. b \in JobType BY <2>1 DEF JobType
  <2>3. /\ b.at = "open" /\ b.kind = job[j].kind /\ b.url = ui.loaded /\ b.prev = job[j].prev
        /\ b.read = job[j].read /\ b.ipv6 = job[j].ipv6
    BY <2>1 DEF JobType
  <2>4. job' = [job EXCEPT ![j] = b] BY DEF Listed
  <2> HIDE DEF b
  <2> QED BY <2>1, <2>2, <2>3, <2>4 DEF Moves, Becomes
<1>2. TypeOK' BY <1>1, TypeStep DEF LoadInv, TypeOK, Becomes, Listed, Refreshing
<1>3. Quiet' BY <1>1, QuietStep DEF LoadInv, Becomes, Listed
<1>4. PrefsKeepWhatIsSeen' BY DEF LoadInv, PrefsKeepWhatIsSeen, Listed
<1>5. ASSUME calm PROVE Waiting'
  <2>1. /\ \A k \in Jobs \ {j} : job[k] = Idle
        /\ Progress(j) /\ CacheIs(ui.loaded) /\ (matched => prefs.loaded = ui.loaded)
    BY <1>5, Found DEF Listed
  <2>2. Progress(j)' BY <1>1, <2>1 DEF Progress, Becomes, Refreshing, Listed, Wanted
  <2>3. CacheIs(ui.loaded)' /\ (matched' => prefs'.loaded = ui'.loaded)
    BY <2>1 DEF CacheIs, Listed
  <2> QED BY <1>1, <2>1, <2>2, <2>3, WaitingStep DEF Becomes, Listed
<1> QED BY <1>2, <1>3, <1>4, <1>5 DEF LoadInv, Listed

LEMMA OpensInv == ASSUME LoadInv, NEW j \in Jobs, Opens(j) PROVE LoadInv'
<1>1. Moves(j) /\ Becomes(j, "write", job[j].kind, job[j].url, job[j].prev, job[j].read,
                          ui.ipv6)
  <2> DEFINE b == [job[j] EXCEPT !.at = "write", !.ipv6 = ui.ipv6]
  <2>1. job \in [Jobs -> JobType] /\ job[j] \in JobType /\ ui.ipv6 \in BOOLEAN
    BY DEF LoadInv, TypeOK
  <2>2. b \in JobType BY <2>1 DEF JobType
  <2>3. /\ b.at = "write" /\ b.kind = job[j].kind /\ b.url = job[j].url /\ b.prev = job[j].prev
        /\ b.read = job[j].read /\ b.ipv6 = ui.ipv6
    BY <2>1 DEF JobType
  <2>4. job' = [job EXCEPT ![j] = b] BY DEF Opens
  <2> HIDE DEF b
  <2> QED BY <2>1, <2>2, <2>3, <2>4 DEF Moves, Becomes
<1>2. alive BY UnderWay DEF Opens
<1>3. TypeOK' BY <1>1, TypeStep DEF LoadInv, TypeOK, Becomes, Opens, Refreshing
<1>4. Quiet' BY <1>1, <1>2, QuietStep DEF LoadInv, Becomes, Opens
<1>5. PrefsKeepWhatIsSeen' BY DEF LoadInv, PrefsKeepWhatIsSeen, Opens
<1>6. ASSUME calm PROVE Waiting'
  <2>1. /\ \A k \in Jobs \ {j} : job[k] = Idle
        /\ Progress(j) /\ CacheIs(ui.loaded) /\ (matched => prefs.loaded = ui.loaded)
    BY <1>6, Found DEF Opens
  <2>2. Progress(j)' BY <1>1, <2>1 DEF Progress, Becomes, Refreshing, Opens, Wanted
  <2>3. CacheIs(ui.loaded)' /\ (matched' => prefs'.loaded = ui'.loaded)
    BY <2>1 DEF CacheIs, Opens
  <2> QED BY <1>1, <1>2, <2>1, <2>2, <2>3, WaitingStep DEF Becomes, Opens
<1> QED BY <1>3, <1>4, <1>5, <1>6 DEF LoadInv, Opens

LEMMA WritesInv == ASSUME LoadInv, NEW j \in Jobs, Writes(j) PROVE LoadInv'
<1> DEFINE url == IF job[j].kind = "load" THEN job[j].url ELSE Blank
           text == Text("whole", job[j].url, job[j].ipv6)
<1>1. Moves(j) /\ Becomes(j, "back", job[j].kind, url, job[j].prev, job[j].read, FALSE)
  <2> DEFINE b == [job[j] EXCEPT !.at = "back", !.ipv6 = FALSE, !.url = url]
  <2>1. job \in [Jobs -> JobType] /\ job[j] \in JobType BY DEF LoadInv, TypeOK
  <2>2. url \in Choices BY <2>1 DEF JobType
  <2>3. job' = [job EXCEPT ![j] = b] BY DEF Writes
  <2> HIDE DEF url
  <2>4. b \in JobType BY <2>1, <2>2 DEF JobType
  <2>5. /\ b.at = "back" /\ b.kind = job[j].kind /\ b.url = url /\ b.prev = job[j].prev
        /\ b.read = job[j].read /\ b.ipv6 = FALSE
    BY <2>1 DEF JobType
  <2> HIDE DEF b
  <2> QED BY <2>1, <2>3, <2>4, <2>5 DEF Moves, Becomes
<1>2. alive BY UnderWay DEF Writes
<1>3. At(j, "write") /\ UNCHANGED <<calm, alive, ui, prefs, cache, main, matched>> BY DEF Writes
<1>4. yaml' \in {text} \cup IF yaml \in {Part, text} THEN {} ELSE {Part} BY DEF Writes
<1>5. yaml' \in [how : {"part", "whole"}, url : Choices, ipv6 : BOOLEAN]
  <2>1. job[j].url \in Choices /\ job[j].ipv6 \in BOOLEAN BY DEF LoadInv, TypeOK, JobType
  <2>2. text \in [how : {"part", "whole"}, url : Choices, ipv6 : BOOLEAN] BY <2>1
  <2>3. Part \in [how : {"part", "whole"}, url : Choices, ipv6 : BOOLEAN] OBVIOUS
  <2>4. yaml' = text \/ yaml' = Part BY <1>4
  <2> QED BY <2>2, <2>3, <2>4
<1> HIDE DEF url
<1>6. TypeOK' BY <1>1, <1>3, <1>5, TypeStep DEF LoadInv, TypeOK, Becomes, Refreshing
<1>7. Quiet' BY <1>1, <1>2, <1>3, QuietStep DEF LoadInv, Becomes
<1>8. PrefsKeepWhatIsSeen' BY <1>3 DEF LoadInv, PrefsKeepWhatIsSeen
<1>9. ASSUME calm PROVE Waiting'
  <2>1. /\ \A k \in Jobs \ {j} : job[k] = Idle
        /\ Progress(j) /\ CacheIs(ui.loaded) /\ (matched => prefs.loaded = ui.loaded)
    BY <1>3, <1>9, Found
  <2>2. /\ yaml = Part /\ job[j].url = Wanted(j) /\ job[j].ipv6 = ui.ipv6
        /\ job[j].kind = "load" => job[j].prev = ui.loaded
    BY <1>3, <2>1 DEF Progress
  <2>3. yaml' = Text("whole", Wanted(j), ui.ipv6)
    <3>1. yaml' = text BY <1>4, <2>2
    <3> QED BY <2>2, <3>1
  <2>4. Wanted(j)' = Wanted(j) BY <1>1, <1>3 DEF Wanted, Becomes, url
  <2>5. Progress(j)' BY <1>1, <1>3, <2>2, <2>3, <2>4 DEF Progress, Becomes, Refreshing
  <2>6. CacheIs(ui.loaded)' /\ (matched' => prefs'.loaded = ui'.loaded)
    BY <1>3, <2>1 DEF CacheIs
  <2> QED BY <1>1, <1>2, <1>3, <2>1, <2>5, <2>6, WaitingStep DEF Becomes
<1> QED BY <1>3, <1>6, <1>7, <1>8, <1>9 DEF LoadInv

LEMMA SyncFailsInv == ASSUME LoadInv, NEW j \in Jobs, SyncFails(j) PROVE LoadInv'
<1>1. CASE job[j].kind = "sync"
  BY <1>1, DeadInv DEF SyncFails, LoadInv, TypeOK
<1>2. CASE job[j].kind # "sync"
  <2>1. job \in [Jobs -> JobType] BY DEF LoadInv, TypeOK
  <2>2. Moves(j) /\ Becomes(j, "end", LastKind(job[j].kind), Blank, Blank, Blank, FALSE)
    BY <1>2, <2>1, Finishing DEF SyncFails
  <2>3. alive BY UnderWay DEF SyncFails
  <2>4. main # j BY DEF SyncFails, LoadInv, TypeOK
  <2>5. TypeOK' BY <1>2, <2>2, <2>4, TypeStep DEF LoadInv, TypeOK, Becomes, SyncFails, Refreshing
  <2>6. Quiet' BY <1>2, <2>2, <2>3, QuietStep DEF LoadInv, Becomes, SyncFails
  <2>7. PrefsKeepWhatIsSeen' BY <1>2 DEF LoadInv, PrefsKeepWhatIsSeen, SyncFails
  <2> QED BY <2>5, <2>6, <2>7 DEF LoadInv, SyncFails
<1> QED BY <1>1, <1>2

LEMMA BackInv == ASSUME LoadInv, NEW j \in Jobs, Back(j) PROVE LoadInv'
<1>1. job \in [Jobs -> JobType] BY DEF LoadInv, TypeOK
<1>2. UNCHANGED <<calm, alive, ui, prefs, yaml, cache, matched>> BY DEF Back
<1>3. alive /\ main = "free" /\ At(j, "back") BY DEF Back
<1>4. /\ Moves(j) /\ job'[j].at \in {"read", "ask", "end"}
      /\ main' = IF job'[j].at = "end" THEN main ELSE j
      /\ job'[j].at = "read" <=> job[j].kind = "load"
      /\ job'[j].kind = "load" <=> job[j].kind = "load"
      /\ job'[j].at = "read" => job'[j].url = job[j].url /\ job'[j].prev = job[j].prev
  <2>1. CASE job[j].kind = "load"
    <3>1. Moves(j) /\ Becomes(j, "read", job[j].kind, job[j].url, job[j].prev, job[j].read,
                              job[j].ipv6)
      BY <1>1, <2>1, Setting DEF Back
    <3> QED BY <2>1, <3>1 DEF Becomes, Back
  <2>2. CASE job[j].kind = "tailnet"
    <3>1. Moves(j) /\ Becomes(j, "ask", job[j].kind, job[j].url, job[j].prev, job[j].read,
                              job[j].ipv6)
      BY <1>1, <2>2, Setting DEF Back
    <3> QED BY <2>2, <3>1 DEF Becomes, Back
  <2>3. CASE job[j].kind \notin {"load", "tailnet"}
    <3>1. Moves(j) /\ Becomes(j, "end", LastKind(job[j].kind), Blank, Blank, Blank, FALSE)
      BY <1>1, <2>3, Finishing DEF Back
    <3> QED BY <1>3, <2>3, <3>1 DEF Becomes, Back, LastKind
  <2> QED BY <2>1, <2>2, <2>3
<1>5. TypeOK'
  <2>1. job'[j].at \in Blocking <=> job'[j].at # "end" BY <1>4 DEF Refreshing
  <2>2. main' = IF job'[j].at \in Blocking THEN j ELSE IF main = j THEN "free" ELSE main
    BY <1>3, <1>4, <2>1
  <2>3. calm' \in BOOLEAN /\ alive' \in BOOLEAN /\ matched' \in BOOLEAN
    BY <1>2 DEF LoadInv, TypeOK
  <2>4. /\ ui' \in [active : Choices, loaded : Choices, ipv6 : BOOLEAN, busy : BOOLEAN]
        /\ prefs' \in [active : Choices, loaded : Choices, ipv6 : BOOLEAN]
        /\ yaml' \in [how : {"part", "whole"}, url : Choices, ipv6 : BOOLEAN]
        /\ cache' \in Urls \cup {"none", "empty"}
    BY <1>2 DEF LoadInv, TypeOK
  <2>5. TypeOK /\ Moves(j) /\ main \in {j, "free"} BY <1>3, <1>4 DEF LoadInv
  <2> QED BY <2>2, <2>3, <2>4, <2>5, TypeStep
<1>6. Quiet' BY <1>2, <1>3, <1>4, QuietStep DEF LoadInv
<1>7. PrefsKeepWhatIsSeen' BY <1>2 DEF LoadInv, PrefsKeepWhatIsSeen
<1>8. ASSUME calm PROVE Waiting'
  <2>1. /\ \A k \in Jobs \ {j} : job[k] = Idle
        /\ Progress(j) /\ CacheIs(ui.loaded) /\ (matched => prefs.loaded = ui.loaded)
    BY <1>3, <1>8, Found
  <2>2. Progress(j)' BY <1>2, <1>3, <1>4, <2>1 DEF Progress, Refreshing, Wanted
  <2>3. CacheIs(ui.loaded)' /\ (matched' => prefs'.loaded = ui'.loaded)
    BY <1>2, <2>1 DEF CacheIs
  <2> QED BY <1>2, <1>3, <1>4, <2>1, <2>2, <2>3, WaitingStep
<1> QED BY <1>2, <1>5, <1>6, <1>7, <1>8 DEF LoadInv

LEMMA AnsweredInv == ASSUME LoadInv, NEW j \in Jobs, Answered(j) PROVE LoadInv'
<1>1. /\ main = j /\ At(j, "ask") /\ main' = "free"
      /\ UNCHANGED <<calm, alive, ui, prefs, yaml, cache, matched>>
  BY DEF Answered
<1>2. Moves(j) /\ Becomes(j, "end", LastKind(job[j].kind), Blank, Blank, Blank, FALSE)
  BY Finishing DEF Answered, LoadInv, TypeOK
<1>3. job'[j].at = "end" /\ job'[j].kind # "load" BY <1>2 DEF Becomes, LastKind
<1>4. alive BY <1>1, UnderWay
<1>5. TypeOK' BY <1>1, <1>2, <1>3, TypeStep DEF LoadInv, TypeOK, Refreshing
<1>6. Quiet' BY <1>1, <1>2, <1>3, <1>4, QuietStep DEF LoadInv
<1>7. PrefsKeepWhatIsSeen' BY <1>1 DEF LoadInv, PrefsKeepWhatIsSeen
<1>8. ASSUME calm PROVE Waiting'
  <2>1. /\ \A k \in Jobs \ {j} : job[k] = Idle
        /\ Progress(j) /\ CacheIs(ui.loaded) /\ (matched => prefs.loaded = ui.loaded)
    BY <1>1, <1>8, Found
  <2>2. Progress(j)' BY <1>1, <1>3, <2>1 DEF Progress, Refreshing
  <2>3. CacheIs(ui.loaded)' /\ (matched' => prefs'.loaded = ui'.loaded)
    BY <1>1, <2>1 DEF CacheIs
  <2> QED BY <1>1, <1>2, <1>3, <1>4, <2>1, <2>2, <2>3, WaitingStep
<1> QED BY <1>1, <1>5, <1>6, <1>7, <1>8 DEF LoadInv

\* The last coroutine that ends leaves the configuration as it is to be.
LEMMA EndsInv == ASSUME LoadInv, NEW j \in Jobs, Ends(j) PROVE LoadInv'
<1>1. /\ job' = [job EXCEPT ![j] = Idle] /\ At(j, "end") /\ alive /\ main = "free"
      /\ UNCHANGED <<calm, alive, prefs, yaml, cache, main, matched>>
      /\ ui'.active = ui.active /\ ui'.loaded = ui.loaded /\ ui'.ipv6 = ui.ipv6
      /\ ui' \in [active : Choices, loaded : Choices, ipv6 : BOOLEAN, busy : BOOLEAN]
  BY DEF Ends, LoadInv, TypeOK
<1>2. Moves(j) /\ job'[j] = Idle BY <1>1, IdleType DEF Moves, LoadInv, TypeOK
<1>3. TypeOK'
  <2>1. job'[j].at \notin Blocking BY <1>2 DEF Idle, Refreshing
  <2>2. main # j BY <1>1
  <2>3. calm' \in BOOLEAN /\ alive' \in BOOLEAN /\ matched' \in BOOLEAN
    BY <1>1 DEF LoadInv, TypeOK
  <2>4. /\ prefs' \in [active : Choices, loaded : Choices, ipv6 : BOOLEAN]
        /\ yaml' \in [how : {"part", "whole"}, url : Choices, ipv6 : BOOLEAN]
        /\ cache' \in Urls \cup {"none", "empty"}
    BY <1>1 DEF LoadInv, TypeOK
  <2> QED BY <1>1, <1>2, <2>1, <2>2, <2>3, <2>4, TypeStep DEF LoadInv
<1>4. Quiet' BY <1>1, <1>2 DEF LoadInv, Quiet, Moves, Idle
<1>5. PrefsKeepWhatIsSeen' BY <1>1 DEF LoadInv, PrefsKeepWhatIsSeen, FromPrefs, Seen
<1>6. ASSUME calm PROVE Waiting'
  <2>1. /\ \A k \in Jobs \ {j} : job[k] = Idle
        /\ Progress(j) /\ CacheIs(ui.loaded) /\ (matched => prefs.loaded = ui.loaded)
    BY <1>1, <1>6, Found
  <2>2. \A k \in Jobs : job'[k] = Idle BY <1>2, <2>1 DEF Moves
  <2>3. OneJob' BY <2>2 DEF OneJob
  <2>4. \A k \in Jobs : Progress(k)' /\ ~At(k, "ok")'
    BY <2>2 DEF Progress, Idle, Refreshing
  <2>5. yaml' = Text("whole", ui'.loaded, ui'.ipv6) BY <1>1, <2>1 DEF Progress
  <2>6. CacheIs(ui.loaded)' /\ (matched' => prefs'.loaded = ui'.loaded)
    BY <1>1, <2>1 DEF CacheIs
  <2> QED BY <1>1, <2>3, <2>4, <2>5, <2>6 DEF Waiting
<1> QED BY <1>1, <1>3, <1>4, <1>5, <1>6 DEF LoadInv

-----------------------------------------------------------------------------
(* The refresh, and what follows it.                                       *)

LEMMA InRefresh ==
  ASSUME LoadInv, NEW j \in Jobs, main = j
  PROVE  alive /\ job[j].at \in Blocking /\ job \in [Jobs -> JobType]
BY UnderWay DEF LoadInv, TypeOK, Refreshing

\* A step within the refresh.
LEMMA RefreshStep ==
  ASSUME LoadInv, NEW j \in Jobs, main = j, job[j].at \in Refreshing \ {"ok"}, Moves(j),
         job'[j].at \in Refreshing,
         job'[j].kind = job[j].kind, job'[j].url = job[j].url, job'[j].prev = job[j].prev,
         job'[j].at \in {"cut", "fill"} => job'[j].read # Blank,
         UNCHANGED <<calm, alive, ui, prefs, yaml, main>>,
         cache' \in Urls \cup {"none", "empty"}, matched' \in BOOLEAN,
         calm /\ Progress(j) /\ CacheIs(ui.loaded) =>
           /\ job'[j].at \in {"fetch", "cut", "fill"} => job'[j].read = job[j].url
           /\ At(j, "fill")' => cache' = "empty"
           /\ At(j, "ok")' => CacheIs(job[j].url)'
           /\ ~At(j, "ok")' => CacheIs(ui.loaded)' /\ (matched' => matched)
  PROVE  LoadInv'
<1>1. alive /\ job[j].at \in Refreshing BY InRefresh
<1>2. TypeOK' BY TypeStep DEF LoadInv, TypeOK
<1>3. ~At(j, "idle")' BY DEF Refreshing
<1>4. Quiet' BY <1>1, <1>3, QuietStep DEF LoadInv
<1>5. PrefsKeepWhatIsSeen' BY DEF LoadInv, PrefsKeepWhatIsSeen
<1>6. ASSUME calm PROVE Waiting'
  <2>1. /\ \A k \in Jobs \ {j} : job[k] = Idle
        /\ Progress(j) /\ CacheIs(ui.loaded) /\ (matched => prefs.loaded = ui.loaded)
    BY <1>1, <1>6, Found DEF Refreshing
  <2>2. Progress(j)' BY <1>1, <1>6, <2>1 DEF Progress, Refreshing, Wanted
  <2> QED BY <1>1, <1>3, <1>6, <2>1, <2>2, WaitingStep
<1> QED BY <1>2, <1>4, <1>5, <1>6 DEF LoadInv

LEMMA LoadsConfigInv == ASSUME LoadInv, NEW j \in Jobs, LoadsConfig(j) PROVE LoadInv'
<1>1. job \in [Jobs -> JobType] /\ yaml.url \in Choices /\ job[j] \in JobType
  BY DEF LoadInv, TypeOK
<1>2. Moves(j) /\ Becomes(j, "fetch", job[j].kind, job[j].url, job[j].prev, yaml.url,
                          job[j].ipv6)
  <2> DEFINE b == [job[j] EXCEPT !.at = "fetch", !.read = yaml.url]
  <2>1. b \in JobType BY <1>1 DEF JobType
  <2>2. /\ b.at = "fetch" /\ b.kind = job[j].kind /\ b.url = job[j].url /\ b.prev = job[j].prev
        /\ b.read = yaml.url /\ b.ipv6 = job[j].ipv6
    BY <1>1 DEF JobType
  <2>3. job' = [job EXCEPT ![j] = b] BY DEF LoadsConfig
  <2> HIDE DEF b
  <2> QED BY <1>1, <2>1, <2>2, <2>3 DEF Moves, Becomes
<1>3. /\ main = j /\ At(j, "read") /\ UNCHANGED <<calm, alive, ui, prefs, yaml, main>>
      /\ UNCHANGED <<cache, matched>>
  BY DEF LoadsConfig
<1>4. cache' \in Urls \cup {"none", "empty"} /\ matched' \in BOOLEAN
  BY <1>3 DEF LoadInv, TypeOK
<1>5. Progress(j) => yaml.url = job[j].url BY <1>3 DEF Progress, Refreshing
<1> QED BY <1>2, <1>3, <1>4, <1>5, RefreshStep DEF Becomes, Refreshing, CacheIs

\* The answers: an error, or that the cache has been refreshed.
LEMMA AnswersInv ==
  ASSUME LoadInv, NEW j \in Jobs, main = j, job[j].at \in Refreshing \ {"ok"},
         NEW place \in {"ok", "err"},
         Answers(j, place),
         cache' \in Urls \cup {"none", "empty"}, matched' \in BOOLEAN,
         calm /\ Progress(j) /\ CacheIs(ui.loaded) =>
           /\ place = "ok" /\ matched' /\ cache' # "empty" => cache' = Cached(job[j].url)
           /\ place = "err" => CacheIs(ui.loaded)' /\ (matched' => matched)
  PROVE  LoadInv'
<1>1. job \in [Jobs -> JobType] BY DEF LoadInv, TypeOK
<1>2. Moves(j) /\ Becomes(j, place, job[j].kind, job[j].url, job[j].prev, Blank, job[j].ipv6)
  BY <1>1, Answering
<1>3. UNCHANGED <<calm, alive, ui, prefs, yaml, main>> BY DEF Answers
<1> QED BY <1>2, <1>3, RefreshStep DEF Becomes, Refreshing, CacheIs

\* In an app whose user waits, a configuration is never found garbled.
LEMMA LoadsGarbledInv == ASSUME LoadInv, NEW j \in Jobs, LoadsGarbled(j) PROVE LoadInv'
<1>1. PICK place \in {"ok", "err"} : Answers(j, place) /\ matched' = (matched /\ place = "err")
  BY DEF LoadsGarbled
<1>2. main = j /\ At(j, "read") /\ yaml.how # "whole" /\ cache' = cache BY DEF LoadsGarbled
<1>3. cache' \in Urls \cup {"none", "empty"} /\ matched' \in BOOLEAN
  BY <1>1, <1>2 DEF LoadInv, TypeOK
<1>4. ~Progress(j) BY <1>2 DEF Progress, Refreshing
<1> QED BY <1>1, <1>2, <1>3, <1>4, AnswersInv DEF Refreshing

LEMMA RemovesCacheInv == ASSUME LoadInv, NEW j \in Jobs, RemovesCache(j) PROVE LoadInv'
<1>1. /\ main = j /\ At(j, "fetch") /\ job[j].read = Blank /\ cache' = "none"
      /\ matched' = TRUE /\ Answers(j, "ok")
  BY DEF RemovesCache
<1>2. Progress(j) => job[j].url = Blank BY <1>1 DEF Progress
<1>3. Progress(j) => cache' = Cached(job[j].url) BY <1>1, <1>2 DEF Cached
<1> QED BY <1>1, <1>3, AnswersInv DEF Refreshing

LEMMA FetchFailsOverInv == ASSUME LoadInv, NEW j \in Jobs, FetchFailsOver(j) PROVE LoadInv'
<1>1. /\ main = j /\ At(j, "fetch") /\ matched' = FALSE /\ cache' = cache /\ Answers(j, "ok")
  BY DEF FetchFailsOver
<1>2. cache' \in Urls \cup {"none", "empty"} BY <1>1 DEF LoadInv, TypeOK
<1> QED BY <1>1, <1>2, AnswersInv DEF Refreshing, CacheIs

LEMMA FetchFailsInv == ASSUME LoadInv, NEW j \in Jobs, FetchFails(j) PROVE LoadInv'
<1>1. /\ main = j /\ At(j, "fetch") /\ Answers(j, "err")
      /\ UNCHANGED <<calm, ui, cache, matched>>
  BY DEF FetchFails, Answers
<1>2. cache' \in Urls \cup {"none", "empty"} /\ matched' \in BOOLEAN
  BY <1>1 DEF LoadInv, TypeOK
<1>3. CacheIs(ui.loaded) => CacheIs(ui.loaded)' BY <1>1 DEF CacheIs
<1> QED BY <1>1, <1>2, <1>3, AnswersInv DEF Refreshing

LEMMA FetchesInv == ASSUME LoadInv, NEW j \in Jobs, Fetches(j) PROVE LoadInv'
<1>1. /\ main = j /\ At(j, "fetch") /\ job[j].read # Blank /\ Sets(j, "cut")
      /\ UNCHANGED <<calm, alive, ui, prefs, yaml, cache, main, matched>>
  BY DEF Fetches
<1>2. Moves(j) /\ Becomes(j, "cut", job[j].kind, job[j].url, job[j].prev, job[j].read,
                          job[j].ipv6)
  BY <1>1, Setting DEF LoadInv, TypeOK
<1>3. cache' \in Urls \cup {"none", "empty"} /\ matched' \in BOOLEAN
  BY <1>1 DEF LoadInv, TypeOK
<1>4. Progress(j) => job[j].read = job[j].url BY <1>1 DEF Progress
<1>5. CacheIs(ui.loaded) => CacheIs(ui.loaded)' BY <1>1 DEF CacheIs
<1> QED BY <1>1, <1>2, <1>3, <1>4, <1>5, RefreshStep DEF Becomes, Refreshing

LEMMA CutsCacheInv == ASSUME LoadInv, NEW j \in Jobs, CutsCache(j) PROVE LoadInv'
<1>1. /\ main = j /\ At(j, "cut") /\ cache' = "empty" /\ Sets(j, "fill")
      /\ UNCHANGED <<calm, alive, ui, prefs, yaml, main, matched>>
  BY DEF CutsCache
<1>2. Moves(j) /\ Becomes(j, "fill", job[j].kind, job[j].url, job[j].prev, job[j].read,
                          job[j].ipv6)
  BY <1>1, Setting DEF LoadInv, TypeOK
<1>3. matched' \in BOOLEAN /\ job[j].read # Blank BY <1>1 DEF LoadInv, TypeOK, Quiet
<1>4. Progress(j) => job[j].read = job[j].url BY <1>1 DEF Progress
<1> QED BY <1>1, <1>2, <1>3, <1>4, RefreshStep DEF Becomes, Refreshing, CacheIs

LEMMA FillsCacheInv == ASSUME LoadInv, NEW j \in Jobs, FillsCache(j) PROVE LoadInv'
<1>1. /\ main = j /\ At(j, "fill") /\ cache' = job[j].read /\ matched' = TRUE
      /\ Answers(j, "ok")
  BY DEF FillsCache
<1>2. job[j].read \in Urls BY <1>1 DEF LoadInv, TypeOK, Quiet, JobType
<1>3. Progress(j) => job[j].read = job[j].url BY <1>1 DEF Progress
<1>4. Progress(j) => cache' = Cached(job[j].url) BY <1>1, <1>2, <1>3 DEF Cached
<1> QED BY <1>1, <1>2, <1>4, AnswersInv DEF Refreshing

LEMMA FillsBlankInv == ASSUME LoadInv, NEW j \in Jobs, FillsBlank(j) PROVE LoadInv'
<1>1. main = j /\ At(j, "fill") /\ Answers(j, "ok") /\ UNCHANGED <<cache, matched>>
  BY DEF FillsBlank
<1>2. cache' \in Urls \cup {"none", "empty"} /\ matched' \in BOOLEAN
  BY <1>1 DEF LoadInv, TypeOK
<1>3. Progress(j) => cache' = "empty" BY <1>1 DEF Progress
<1> QED BY <1>1, <1>2, <1>3, AnswersInv DEF Refreshing

LEMMA CacheFailsInv == ASSUME LoadInv, NEW j \in Jobs, CacheFails(j) PROVE LoadInv'
<1>1. /\ ~calm /\ main = j /\ job[j].at \in {"fetch", "cut", "fill"} /\ Answers(j, "err") /\ UNCHANGED <<cache, matched>>
  BY DEF CacheFails
<1>2. cache' \in Urls \cup {"none", "empty"} /\ matched' \in BOOLEAN
  BY <1>1 DEF LoadInv, TypeOK
<1> QED BY <1>1, <1>2, AnswersInv DEF Refreshing

LEMMA SucceedsInv == ASSUME LoadInv, NEW j \in Jobs, Succeeds(j) PROVE LoadInv'
<1>1. /\ main = j /\ At(j, "ok") /\ main' = "free"
      /\ UNCHANGED <<calm, alive, yaml, cache, matched>>
      /\ ui' = [ui EXCEPT !.loaded = job[j].url]
      /\ prefs' = [active |-> ui'.active, loaded |-> ui'.loaded, ipv6 |-> ui'.ipv6]
  BY DEF Succeeds, Seen
<1>2. job \in [Jobs -> JobType] /\ job[j].url \in Choices BY DEF LoadInv, TypeOK, JobType
<1>3. Moves(j) /\ Becomes(j, "end", LastKind(job[j].kind), Blank, Blank, Blank, FALSE)
  BY <1>2, Finishing DEF Succeeds
<1>4. /\ ui' \in [active : Choices, loaded : Choices, ipv6 : BOOLEAN, busy : BOOLEAN]
      /\ ui'.loaded = job[j].url /\ ui'.ipv6 = ui.ipv6
  BY <1>1, <1>2 DEF LoadInv, TypeOK
<1>5. /\ prefs' \in [active : Choices, loaded : Choices, ipv6 : BOOLEAN]
      /\ prefs'.active = ui'.active /\ prefs'.loaded = ui'.loaded /\ prefs'.ipv6 = ui'.ipv6
  BY <1>1, <1>4
<1>6. alive BY <1>1, InRefresh
<1>7. TypeOK' BY <1>1, <1>3, <1>4, <1>5, TypeStep DEF LoadInv, TypeOK, Becomes, Refreshing
<1>8. Quiet' BY <1>1, <1>3, <1>6, QuietStep DEF LoadInv, Becomes
<1>9. PrefsKeepWhatIsSeen' BY <1>5 DEF PrefsKeepWhatIsSeen, FromPrefs, Seen
<1>10. ASSUME calm PROVE Waiting'
  <2>1. Waiting /\ job[j] # Idle BY <1>1, <1>10 DEF LoadInv, Idle
  <2>2. \A k \in Jobs \ {j} : job[k] = Idle BY <2>1, Alone
  <2>3. Progress(j) /\ CacheIs(job[j].url) BY <1>1, <1>6, <2>1 DEF Waiting
  <2>4. yaml' = Text("whole", ui'.loaded, ui'.ipv6)
    BY <1>1, <1>4, <2>3 DEF Progress, Refreshing
  <2>5. Progress(j)' BY <1>3, <2>4 DEF Progress, Becomes, Refreshing, LastKind
  <2>6. CacheIs(ui.loaded)' BY <1>1, <1>4, <2>3 DEF CacheIs
  <2> QED BY <1>1, <1>3, <1>5, <1>6, <2>2, <2>5, <2>6, WaitingStep DEF Becomes
<1> QED BY <1>1, <1>7, <1>8, <1>9, <1>10 DEF LoadInv

\* After an error the subscription that was loaded before is written again.
LEMMA RestoresInv == ASSUME LoadInv, NEW j \in Jobs, Restores(j) PROVE LoadInv'
<1>1. /\ main = j /\ At(j, "err") /\ main' = "free"
      /\ UNCHANGED <<calm, alive, ui, prefs, yaml, cache, matched>>
  BY DEF Restores
<1>2. job \in [Jobs -> JobType] /\ job[j] \in JobType BY DEF LoadInv, TypeOK
<1>3. Moves(j) /\ Becomes(j, "open", "action", job[j].prev, Blank, job[j].read, job[j].ipv6)
  <2> DEFINE b == [job[j] EXCEPT !.at = "open", !.kind = "action", !.url = job[j].prev,
                                 !.prev = Blank]
  <2>1. b \in JobType BY <1>2 DEF JobType
  <2>2. /\ b.at = "open" /\ b.kind = "action" /\ b.url = job[j].prev /\ b.prev = Blank
        /\ b.read = job[j].read /\ b.ipv6 = job[j].ipv6
    BY <1>2 DEF JobType
  <2>3. job' = [job EXCEPT ![j] = b] BY DEF Restores
  <2> HIDE DEF b
  <2> QED BY <1>2, <2>1, <2>2, <2>3 DEF Moves, Becomes
<1>4. alive BY <1>1, InRefresh
<1>5. TypeOK' BY <1>1, <1>3, TypeStep DEF LoadInv, TypeOK, Becomes, Refreshing
<1>6. Quiet' BY <1>1, <1>3, <1>4, QuietStep DEF LoadInv, Becomes
<1>7. PrefsKeepWhatIsSeen' BY <1>1 DEF LoadInv, PrefsKeepWhatIsSeen
<1>8. ASSUME calm PROVE Waiting'
  <2>1. /\ \A k \in Jobs \ {j} : job[k] = Idle
        /\ Progress(j) /\ CacheIs(ui.loaded) /\ (matched => prefs.loaded = ui.loaded)
    BY <1>1, <1>8, Found
  <2>2. job[j].prev = ui.loaded BY <1>1, <2>1 DEF Progress, Refreshing
  <2>3. Progress(j)' BY <1>1, <1>3, <2>2 DEF Progress, Becomes, Refreshing, Wanted
  <2>4. CacheIs(ui.loaded)' /\ (matched' => prefs'.loaded = ui'.loaded)
    BY <1>1, <2>1 DEF CacheIs
  <2> QED BY <1>1, <1>3, <1>4, <2>1, <2>3, <2>4, WaitingStep DEF Becomes
<1> QED BY <1>1, <1>5, <1>6, <1>7, <1>8 DEF LoadInv

-----------------------------------------------------------------------------
(* What the user does, and the app's process.                              *)

\* When the user touches something after having waited, nothing is under way.
LEMMA Waited ==
  ASSUME LoadInv, Touches, calm
  PROVE  /\ alive /\ NoneUnderWay /\ yaml = Text("whole", ui.loaded, ui.ipv6)
         /\ CacheIs(ui.loaded) /\ (matched => prefs.loaded = ui.loaded)
<1>1. alive /\ NoneUnderWay /\ Waiting BY DEF LoadInv, Touches
<1>2. NoneOk BY <1>1 DEF NoneUnderWay, NoneOk, Idle
<1> QED BY <1>1, <1>2 DEF Waiting

LEMMA ChoosesInv == ASSUME LoadInv, NEW u \in Choices, Chooses(u) PROVE LoadInv'
<1>1. /\ ui' = [ui EXCEPT !.active = u]
      /\ UNCHANGED <<calm, alive, yaml, cache, job, main, matched>>
      /\ prefs' = [active |-> ui'.active, loaded |-> ui'.loaded, ipv6 |-> ui'.ipv6]
  BY DEF Chooses, Seen
<1>2. /\ ui' \in [active : Choices, loaded : Choices, ipv6 : BOOLEAN, busy : BOOLEAN]
      /\ ui'.loaded = ui.loaded /\ ui'.ipv6 = ui.ipv6
  BY <1>1 DEF LoadInv, TypeOK
<1>3. /\ prefs' \in [active : Choices, loaded : Choices, ipv6 : BOOLEAN]
      /\ prefs'.active = ui'.active /\ prefs'.loaded = ui'.loaded /\ prefs'.ipv6 = ui'.ipv6
  BY <1>1, <1>2
<1>4. TypeOK' BY <1>1, <1>2, <1>3 DEF LoadInv, TypeOK
<1>5. Quiet' BY <1>1 DEF LoadInv, Quiet, NoneUnderWay
<1>6. PrefsKeepWhatIsSeen' BY <1>3 DEF PrefsKeepWhatIsSeen, FromPrefs, Seen
<1>7. ASSUME calm PROVE Waiting'
  <2>1. /\ alive /\ NoneUnderWay /\ yaml = Text("whole", ui.loaded, ui.ipv6)
        /\ CacheIs(ui.loaded) /\ (matched => prefs.loaded = ui.loaded)
    BY <1>7, Waited DEF Chooses
  <2>2. \A k \in Jobs : job'[k] = Idle BY <1>1, <2>1 DEF NoneUnderWay
  <2>3. \A k \in Jobs : Progress(k)' /\ ~At(k, "ok")'
    BY <2>2 DEF Progress, Idle, Refreshing
  <2>4. yaml' = Text("whole", ui'.loaded, ui'.ipv6) BY <1>1, <1>2, <2>1
  <2>5. CacheIs(ui.loaded)' /\ prefs'.loaded = ui'.loaded BY <1>1, <1>2, <1>3, <2>1 DEF CacheIs
  <2>6. OneJob' BY <2>2 DEF OneJob
  <2> QED BY <1>1, <2>1, <2>3, <2>4, <2>5, <2>6 DEF Waiting
<1> QED BY <1>1, <1>4, <1>5, <1>6, <1>7 DEF LoadInv

LEMMA SetsOptionInv ==
  ASSUME LoadInv, NEW j \in Jobs, NEW place \in {"open", "wait"}, SetsOption(j, place)
  PROVE  LoadInv'
<1>1. /\ ui' = [ui EXCEPT !.ipv6 = ~@] /\ UNCHANGED <<calm, alive, yaml, cache, main, matched>>
      /\ prefs' = [active |-> ui'.active, loaded |-> ui'.loaded, ipv6 |-> ui'.ipv6]
      /\ alive /\ main = "free" /\ At(j, "idle")
  BY DEF SetsOption, Seen, Touches
<1>2. /\ ui' \in [active : Choices, loaded : Choices, ipv6 : BOOLEAN, busy : BOOLEAN]
      /\ ui'.loaded = ui.loaded
  BY <1>1 DEF LoadInv, TypeOK
<1>3. /\ prefs' \in [active : Choices, loaded : Choices, ipv6 : BOOLEAN]
      /\ prefs'.active = ui'.active /\ prefs'.loaded = ui'.loaded /\ prefs'.ipv6 = ui'.ipv6
  BY <1>1, <1>2
<1>4. /\ Moves(j) /\ job'[j].at = place /\ job'[j].kind = "sync"
      /\ place = "open" => job'[j].url = ui.loaded
  BY Option DEF LoadInv, Becomes
<1>5. TypeOK' BY <1>1, <1>2, <1>3, <1>4, TypeStep DEF LoadInv, TypeOK, Refreshing
<1>6. Quiet' BY <1>1, <1>4, QuietStep DEF LoadInv
<1>7. PrefsKeepWhatIsSeen' BY <1>3 DEF PrefsKeepWhatIsSeen, FromPrefs, Seen
<1>8. ASSUME calm PROVE Waiting'
  <2>1. NoneUnderWay /\ CacheIs(ui.loaded) BY <1>8, Waited DEF SetsOption
  <2>2. \A k \in Jobs \ {j} : job[k] = Idle BY <2>1 DEF NoneUnderWay
  <2>3. Progress(j)' BY <1>2, <1>4 DEF Progress, Refreshing, Wanted
  <2>4. CacheIs(ui.loaded)' BY <1>1, <1>2, <2>1 DEF CacheIs
  <2> QED BY <1>1, <1>3, <1>4, <2>2, <2>3, <2>4, WaitingStep
<1> QED BY <1>1, <1>5, <1>6, <1>7, <1>8 DEF LoadInv

LEMMA LaunchesInv ==
  ASSUME LoadInv, NEW j \in Jobs, NEW kind \in Kinds, NEW place \in {"open", "ask", "end"},
         NEW url \in Choices, Launches(j, kind, place, url),
         kind = "load" => place = "open", kind # "load" /\ place = "open" => url = ui.loaded
  PROVE  LoadInv'
<1>1. /\ UNCHANGED <<calm, alive, prefs, yaml, cache, matched>>
      /\ main' = IF place = "ask" THEN j ELSE main
      /\ ui' = [ui EXCEPT !.busy = TRUE] /\ alive /\ main = "free" /\ At(j, "idle")
  BY DEF Launches, Touches
<1>2. /\ ui' \in [active : Choices, loaded : Choices, ipv6 : BOOLEAN, busy : BOOLEAN]
      /\ ui'.active = ui.active /\ ui'.loaded = ui.loaded /\ ui'.ipv6 = ui.ipv6
  BY <1>1 DEF LoadInv, TypeOK
<1>3. /\ Moves(j) /\ job'[j].at = place /\ job'[j].kind = kind /\ job'[j].url = url
      /\ kind = "load" => job'[j].prev = ui.loaded
  <2>1. Moves(j) /\ Becomes(j, place, kind, url, IF kind = "load" THEN ui.loaded ELSE Blank,
                            Blank, FALSE)
    BY Launching DEF LoadInv
  <2> QED BY <2>1 DEF Becomes
<1>4. TypeOK'
  <2>1. job'[j].at \in Blocking <=> place = "ask" BY <1>3 DEF Refreshing
  <2>2. calm' \in BOOLEAN /\ alive' \in BOOLEAN /\ matched' \in BOOLEAN
    BY <1>1 DEF LoadInv, TypeOK
  <2>3. /\ prefs' \in [active : Choices, loaded : Choices, ipv6 : BOOLEAN]
        /\ yaml' \in [how : {"part", "whole"}, url : Choices, ipv6 : BOOLEAN]
        /\ cache' \in Urls \cup {"none", "empty"} /\ main # j
    BY <1>1 DEF LoadInv, TypeOK
  <2> QED BY <1>1, <1>2, <1>3, <2>1, <2>2, <2>3, TypeStep DEF LoadInv
<1>5. Quiet' BY <1>1, <1>3, QuietStep DEF LoadInv
<1>6. PrefsKeepWhatIsSeen' BY <1>1, <1>2 DEF LoadInv, PrefsKeepWhatIsSeen, FromPrefs, Seen
<1>7. ASSUME calm PROVE Waiting'
  <2>1. /\ NoneUnderWay /\ CacheIs(ui.loaded) /\ (matched => prefs.loaded = ui.loaded)
        /\ yaml = Text("whole", ui.loaded, ui.ipv6)
    BY <1>7, Waited DEF Launches
  <2>2. \A k \in Jobs \ {j} : job[k] = Idle BY <2>1 DEF NoneUnderWay
  <2>3. Progress(j)' BY <1>1, <1>2, <1>3, <2>1 DEF Progress, Refreshing, Wanted
  <2>4. CacheIs(ui.loaded)' BY <1>1, <1>2, <2>1 DEF CacheIs
  <2> QED BY <1>1, <1>2, <1>3, <2>1, <2>2, <2>3, <2>4, WaitingStep
<1> QED BY <1>1, <1>4, <1>5, <1>6, <1>7 DEF LoadInv

\* What the preferences hold is what the next start shows, but for a blank that it takes for
\* the active subscription.
LEMMA StartsInv == ASSUME LoadInv, NEW j \in Jobs, Starts(j) PROVE LoadInv'
<1> DEFINE loaded == IF prefs.loaded = Blank THEN prefs.active ELSE prefs.loaded
<1>1. /\ ~alive /\ alive' = TRUE /\ UNCHANGED <<calm, prefs, yaml, cache, main>>
      /\ job' = [job EXCEPT ![j].at = "wait"]
  BY DEF Starts
<1>2. prefs \in [active : Choices, loaded : Choices, ipv6 : BOOLEAN] BY DEF LoadInv, TypeOK
<1>3. FromPrefs(prefs).active = prefs.active /\ FromPrefs(prefs).ipv6 = prefs.ipv6
      /\ FromPrefs(prefs).loaded = loaded
  BY <1>2 DEF FromPrefs
<1>4. loaded \in Choices BY <1>2
<1>5. /\ ui' = [active |-> prefs.active, loaded |-> loaded, ipv6 |-> prefs.ipv6, busy |-> FALSE]
      /\ matched' = (matched /\ loaded = prefs.loaded)
  BY <1>3 DEF Starts
<1> HIDE DEF loaded
<1>6. /\ ui' \in [active : Choices, loaded : Choices, ipv6 : BOOLEAN, busy : BOOLEAN]
      /\ ui'.active = prefs.active /\ ui'.loaded = loaded /\ ui'.ipv6 = prefs.ipv6
  BY <1>2, <1>4, <1>5
<1>7. \A k \in Jobs : job[k] = Idle BY <1>1 DEF LoadInv, Quiet, NoneUnderWay
<1>8. Moves(j) /\ job'[j].at = "wait" /\ job'[j].kind = "sync"
  BY <1>1, <1>7 DEF LoadInv, TypeOK, Moves, JobType, Idle
<1>9. main = "free" BY <1>1 DEF LoadInv, Quiet
<1>10. matched' \in BOOLEAN BY <1>5
<1>11. TypeOK' BY <1>1, <1>2, <1>6, <1>8, <1>9, <1>10, TypeStep DEF LoadInv, TypeOK, Refreshing
<1>12. Quiet' BY <1>1, <1>8, QuietStep DEF LoadInv
<1>13. PrefsKeepWhatIsSeen'
  <2>1. Seen(ui') = [active |-> prefs.active, loaded |-> loaded, ipv6 |-> prefs.ipv6]
    BY <1>6 DEF Seen
  <2>2. FromPrefs(Seen(ui')).loaded = IF loaded = Blank THEN prefs.active ELSE loaded
    BY <2>1 DEF FromPrefs
  <2>3. FromPrefs(Seen(ui')).loaded = loaded BY <2>2 DEF loaded
  <2> QED BY <1>1, <1>3, <1>6, <2>3 DEF PrefsKeepWhatIsSeen
<1>14. ASSUME calm PROVE Waiting'
  <2>1. CacheIs(prefs.loaded) BY <1>1, <1>14 DEF LoadInv, Waiting
  <2>2. Progress(j)' BY <1>8 DEF Progress, Refreshing
  <2>3. CacheIs(ui.loaded)' /\ (matched' => prefs'.loaded = ui'.loaded)
    BY <1>1, <1>5, <1>6, <2>1 DEF CacheIs
  <2> QED BY <1>1, <1>7, <1>8, <2>2, <2>3, WaitingStep
<1> QED BY <1>1, <1>11, <1>12, <1>13, <1>14 DEF LoadInv

\* An app that dies loses what has been refreshed and not been saved: nothing else.
LEMMA DiesInv == ASSUME LoadInv, Dies PROVE LoadInv'
<1>1. /\ alive /\ Dead /\ UNCHANGED <<calm, ui, prefs, yaml, cache>>
      /\ matched' = (matched /\ NoneOk)
  BY DEF Dies, NoneOk
<1>2. ASSUME calm PROVE CacheIs(prefs.loaded)'
  BY <1>1, <1>2 DEF LoadInv, Waiting, CacheIs
<1> QED BY <1>1, <1>2, DeadInv DEF LoadInv

-----------------------------------------------------------------------------
LEMMA InitInv == Init => LoadInv
<1> SUFFICES ASSUME Init PROVE LoadInv
  OBVIOUS
<1>1. \A j \in Jobs : job[j] = Idle BY DEF Init
<1>2. job \in [Jobs -> JobType] BY IdleType DEF Init
<1>3. \A j \in Jobs : job[j].at \notin {"ask", "read", "fetch", "cut", "fill", "ok", "err"}
  BY <1>1 DEF Idle
<1>4. \A j \in Jobs : job[j].at \in {"ask", "read", "fetch", "cut", "fill", "ok", "err"} <=> main = j
  BY <1>3 DEF Init
<1>5. TypeOK BY <1>2, <1>4 DEF Init, TypeOK, Fresh
<1>6. Quiet BY <1>1 DEF Init, Quiet, NoneUnderWay, Idle
<1>7. PrefsKeepWhatIsSeen BY DEF Init, PrefsKeepWhatIsSeen
<1>8. prefs.loaded = Blank /\ cache = "none" BY DEF Init, Fresh
<1>9. CacheIs(prefs.loaded) BY <1>8 DEF CacheIs, Cached
<1>10. Waiting BY <1>1, <1>9 DEF Init, Waiting, OneJob
<1> QED BY <1>5, <1>6, <1>7, <1>10 DEF LoadInv

LEMMA StepInv == LoadInv /\ [Next]_vars => LoadInv'
<1> SUFFICES ASSUME LoadInv, [Next]_vars PROVE LoadInv'
  OBVIOUS
<1>1. CASE Dies BY <1>1, DiesInv
<1>2. CASE \E u \in Choices : Chooses(u) BY <1>2, ChoosesInv
<1>3. ASSUME NEW j \in Jobs, SetsOption(j, "open") \/ SetsOption(j, "wait") PROVE LoadInv'
  BY <1>3, SetsOptionInv
<1>4. ASSUME NEW j \in Jobs,
             \/ connectService(j) \/ disconnectService(j) \/ loadSubscriptionConfig(j)
             \/ loginToTailnet(j) \/ logoutTailnet(j) \/ setProxyMode(j)
      PROVE  LoadInv'
  <2>1. ui.loaded \in Choices /\ ui.active \in Choices BY DEF LoadInv, TypeOK
  <2> QED BY <1>4, <2>1, LaunchesInv
          DEF connectService, disconnectService, loadSubscriptionConfig, loginToTailnet,
              logoutTailnet, setProxyMode
<1>5. ASSUME NEW j \in Jobs, Refresh(j) PROVE LoadInv'
  BY <1>5, LoadsConfigInv, LoadsGarbledInv, RemovesCacheInv, FetchFailsOverInv, FetchFailsInv,
     FetchesInv, CutsCacheInv, FillsCacheInv, FillsBlankInv, CacheFailsInv DEF Refresh
<1>6. ASSUME NEW j \in Jobs, Coroutine(j) PROVE LoadInv'
  BY <1>5, <1>6, ListedInv, OpensInv, WritesInv, BackInv, AnsweredInv, EndsInv, SucceedsInv,
     RestoresInv
     DEF Coroutine
<1>7. ASSUME NEW j \in Jobs, Answered(j) \/ SyncFails(j) \/ Starts(j) PROVE LoadInv'
  BY <1>7, AnsweredInv, SyncFailsInv, StartsInv
<1>8. CASE UNCHANGED vars
  <2>1. TypeOK' BY <1>8 DEF vars, LoadInv, TypeOK
  <2>2. Quiet' BY <1>8 DEF vars, LoadInv, Quiet, NoneUnderWay
  <2>3. PrefsKeepWhatIsSeen' BY <1>8 DEF vars, LoadInv, PrefsKeepWhatIsSeen
  <2>4. \A j \in Jobs : Progress(j) => Progress(j)' BY <1>8 DEF vars, Progress, Wanted
  <2>5. calm => Waiting'
    BY <1>8, <2>4 DEF vars, LoadInv, Waiting, OneJob, NoneUnderWay, NoneOk, CacheIs
  <2> QED BY <1>8, <2>1, <2>2, <2>3, <2>5 DEF vars, LoadInv
<1> QED BY <1>1, <1>2, <1>3, <1>4, <1>6, <1>7, <1>8 DEF Next

LEMMA AlwaysLoadInv == Spec => []LoadInv
BY InitInv, StepInv, PTL DEF Spec

\* The types of the coroutines, and who blocks the main thread.
THEOREM LoadTyped == Spec => []TypeOK
<1>1. LoadInv => TypeOK BY DEF LoadInv
<1> QED BY <1>1, AlwaysLoadInv, PTL

\* However the coroutines interleave, busy actions among them, and whenever the app dies: what the user sees is what the
\* next start of the app gives (savePreferences).
THEOREM PrefsAreKept == Spec => []PrefsKeepWhatIsSeen
<1>1. LoadInv => PrefsKeepWhatIsSeen BY DEF LoadInv
<1> QED BY <1>1, AlwaysLoadInv, PTL

\* For a user who waits: when nothing is under way the configuration file agrees with the app,
\* also after a load that failed (loadSubscriptionConfig).
THEOREM ConfigFollows == Spec => []ConfigMatchesApp
<1>1. LoadInv => ConfigMatchesApp BY DEF LoadInv, Waiting, ConfigMatchesApp
<1> QED BY <1>1, AlwaysLoadInv, PTL

\* ... and the cached provider is that of the loaded subscription (refreshSubscriptionProvider),
\* but for what "matched" excepts.
THEOREM CacheFollows == Spec => []LoadedIsCached
<1>1. LoadInv => LoadedIsCached
  <2> SUFFICES ASSUME LoadInv, calm, alive, NoneUnderWay, matched, cache # "empty"
               PROVE  cache = Cached(ui.loaded)
    BY DEF LoadedIsCached, Cached
  <2>1. NoneOk BY DEF NoneOk, NoneUnderWay, Idle
  <2> QED BY <2>1 DEF LoadInv, Waiting, CacheIs
<1> QED BY <1>1, AlwaysLoadInv, PTL
=============================================================================
