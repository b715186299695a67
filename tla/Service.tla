------------------------------ MODULE Service --------------------------------
(***************************************************************************)
(* The service's and the indexer's parts together: how a pod knows a       *)
(* bearer (LibraryAuth, whose state is this module's own), and beside it   *)
(* the parts that share no state with it or with one another.  A behavior  *)
(* is of one of them, which part names, from that part's initial states    *)
(* and by its own steps; what each promises is stated of all behaviors.    *)
(***************************************************************************)
EXTENDS LibraryAuth, Sequences

CONSTANTS Nobody, MaxRestarts,
          \* SignIn
          Person, Allowlist, State, Device, Browser, MaxPending, Ttl, NoState, NoPerson, MaxTokens, MaxSignInTime,
          \* Upstream
          Period, Burst, MaxWait, Lag, Lifetimes, Margin, MaxUpstreamTime,
          \* AnswerCache
          ProxyAnswer, NoPayload, MaxAsks,
          \* PortsStore
          Build, TooBig, Uploader,
          \* ArtCache and Warmer
          Warmer, Viewer, MaxOverlap, Game, WarmRun, Refresh, GIVE_UP_AFTER,
          \* LogsStore
          LogSession, LogSize, quota_bytes, max_upload_bytes, MaxLogsClock,
          \* Catalog
          Key, Path, Writer, MaxClock, MaxDisk,
          \* Indexer, and the same of a library of one game
          Base, Extra, GameOf, GameBefore, Full, Matching, SweepLimit, MaxRuns, MaxTurns, MaxFaults, MaxDrops,
          OneGames, OneBase, OneExtra, OneOf, OneBefore, MaxOneRuns, MaxOneTurns,
          \* Hashes
          HashRun, Unhashed, HashInode, MaxWrites,
          \* Connection
          HttpRequest, listener, Cap, Unreadable, MaxRequests,
          \* Download
          Process, Size, Slots, Attempts, MaxBreaks,
          \* Planner
          DumpName, PlatformOf, DatDirs, Target, Overrides, MinSet, MaxFiles

\* The payload has versions, the first among them, of so many units each.
ASSUME DownloadAssumption ==
  /\ 1 \in DOMAIN Size /\ \A v \in DOMAIN Size : Size[v] \in Nat
  /\ Slots \in Nat /\ Attempts \in Nat /\ Nobody \notin Process

\* A pod has so many request threads at a time.
ASSUME ThreadAssumption == IsFiniteSet(Thread)

\* A Content-Length is a number of units, or none that can be read.
ASSUME ConnectionAssumption ==
  /\ \A r \in HttpRequest : r.length \in Nat \cup {Unreadable}
  /\ Unreadable \notin Nat /\ Cap \in Nat

\* Of a library (and of the one of one game) each payload is a game's, and the
\* directory has each once, in some order; no path is empty, or the games tree's.
ASSUME IndexerAssumption ==
  /\ Base \cap Extra = {} /\ "" \notin Base \cup Extra /\ "local" \notin Base \cup Extra
  /\ \A s \in Base \cup Extra : GameOf[s] \in Game
  /\ \A s, u \in Base \cup Extra : <<s, u>> \in GameBefore => <<u, s>> \notin GameBefore
ASSUME OneGameAssumption ==
  /\ OneBase \cap OneExtra = {} /\ "" \notin OneBase \cup OneExtra /\ "local" \notin OneBase \cup OneExtra
  /\ \A s \in OneBase \cup OneExtra : OneOf[s] \in OneGames
  /\ \A s, u \in OneBase \cup OneExtra : <<s, u>> \in OneBefore => <<u, s>> \notin OneBefore

\* Inodes are numbered from one.
ASSUME InodeAssumption == 0 \notin HashInode

\* "burst = max(burst, 1.0)", and a rate that is not 0 (which is no pace at all); the
\* day of REFRESH_MARGIN is longer than a request takes to its call.
ASSUME UpstreamAssumption ==
  /\ Period \in Nat \ {0} /\ Burst \in Nat \ {0} /\ MaxWait \in Nat /\ Lag \in Nat
  /\ Lifetimes \subseteq Nat /\ Margin \in Nat /\ Margin >= MaxWait + Lag
  /\ Nobody \notin Thread /\ MaxUpstreamTime \in Nat \ {0}

\* A session's id starts with its time, and a bundle is a compressed file: never empty.
ASSUME LogsAssumption ==
  /\ IsFiniteSet(LogSession) /\ LogSession \subseteq Nat /\ LogSize \subseteq Nat \ {0}
  /\ quota_bytes \in Nat

\* A name is of one of the regions there are, and what is counted in it is counted;
\* a directory of the rules is of a platform.
ASSUME PlannerAssumption ==
  /\ IsFiniteSet(DumpName) /\ \A d \in DOMAIN DatDirs : DatDirs[d][2] # ""
  /\ \A n \in DumpName : n.region \in {"usa", "world", "eur", "jpn"} /\ n.tags \in Nat /\ n.nums \in Seq([n : Nat, tens : Nat])

\* GIVE_UP_AFTER = 10
ASSUME WarmAssumption == GIVE_UP_AFTER \in Nat \ {0}

VARIABLES part,
          signinNow, states, devices, browsers, minted, signinCalls, signinRestarts, approvals, returns,
          upstreamNow, credit, updated, token, lock, upstreamCalls, slots, needless, outdated,
          final, answersPart, data, answersCalls, answersAsks, answersRestarts, served, together,
          builds, pointer, portsHolder, portsCalls, missed, moved,
          known, artWrites, looks, misled, crossed,
          upstream, art, warmRuns, why, lost,
          logsClock, bundle, record, logsHolder, logsCalls, fits,
          catalogClock, catalogRows, catalogWrites, disk, scan, since, told, late, twice, catalogTurns,
          seeds, linked, manifest, indexerRows, runs, reported, stale, count, indexerTurns, faults, drops,
          bytes, original, link, sidecar, hashRow, hashRuns, hashWrites, amended,
          source, verdict, ops, at,
          wire, client, open, connectionAt, req, answers, taken,
          payload, row, streams, procs, gameLock, staged, installed, breaks

Signin == INSTANCE SignIn WITH
  MaxTime <- MaxSignInTime,
  now <- signinNow, calls <- signinCalls, restarts <- signinRestarts

\* States and codes are random, so that no two of them are one; an entry nobody has
\* approved yet has no user ("user": None).
ASSUME SignInAssumption ==
  /\ \A p \in Person : Signin!UserSlug(p) # NoPerson
  /\ State \cap Device = {} /\ NoState \notin State \cup Device
  /\ MaxPending \in Nat /\ Ttl \in Nat

Upstream == INSTANCE Upstream WITH
  MaxTime <- MaxUpstreamTime,
  now <- upstreamNow, calls <- upstreamCalls

Answers == INSTANCE AnswerCache WITH
  Payload <- ProxyAnswer,
  part <- answersPart, calls <- answersCalls, asks <- answersAsks, restarts <- answersRestarts

Ports == INSTANCE PortsStore WITH
  holder <- portsHolder, calls <- portsCalls

Art == INSTANCE ArtCache WITH
  writes <- artWrites

Warm == INSTANCE Warmer WITH
  Run <- WarmRun,
  runs <- warmRuns

Logs == INSTANCE LogsStore WITH
  Session <- LogSession, Size <- LogSize, Requester <- Thread, MaxClock <- MaxLogsClock,
  clock <- logsClock, holder <- logsHolder, calls <- logsCalls

Catalog == INSTANCE Catalog WITH
  clock <- catalogClock, rows <- catalogRows, writes <- catalogWrites, turns <- catalogTurns

Indexer == INSTANCE Indexer WITH
  Of <- GameOf, Before <- GameBefore,
  rows <- indexerRows, turns <- indexerTurns

OneGame == INSTANCE Indexer WITH
  Game <- OneGames, Base <- OneBase, Extra <- OneExtra, Of <- OneOf, Before <- OneBefore,
  MaxRuns <- MaxOneRuns, MaxTurns <- MaxOneTurns,
  rows <- indexerRows, turns <- indexerTurns

Hashes == INSTANCE Hashes WITH
  Inode <- HashInode, Run <- HashRun,
  payload <- original, row <- hashRow, runs <- hashRuns, writes <- hashWrites

Connection == INSTANCE Connection WITH
  Request <- HttpRequest,
  at <- connectionAt

Download == INSTANCE Download WITH
  disk <- payload, slots <- streams, lock <- gameLock

Planner == INSTANCE Planner WITH Name <- DumpName

signinVars == <<signinNow, states, devices, browsers, minted, signinCalls, signinRestarts, approvals, returns>>
upstreamVars == <<upstreamNow, credit, updated, token, lock, upstreamCalls, slots, needless, outdated>>
answersVars == <<final, answersPart, data, answersCalls, answersAsks, answersRestarts, served, together>>
portsVars == <<builds, pointer, portsHolder, portsCalls, missed, moved>>
artVars == <<known, artWrites, looks, misled, crossed>>
warmVars == <<upstream, art, warmRuns, why, lost>>
logsVars == <<logsClock, bundle, record, logsHolder, logsCalls, fits>>
catalogVars == <<catalogClock, catalogRows, catalogWrites, disk, scan, since, told, late, twice, catalogTurns>>
hashVars == <<bytes, original, link, sidecar, hashRow, hashRuns, hashWrites, amended>>
indexerVars == <<seeds, linked, manifest, indexerRows, runs, reported, stale, count, indexerTurns, faults, drops>>
plannerVars == <<source, verdict, ops, at>>

connectionVars == <<wire, client, open, connectionAt, req, answers, taken>>
downloadVars == <<payload, row, streams, procs, gameLock, staged, installed, breaks>>

\* The state of a part that is not the behavior's.
Off(v) == v = "off"

ServiceInit ==
  /\ Init
  /\ part \in {"auth", "signin", "upstream", "answers", "ports", "art", "logs", "catalog", "indexer", "planner",
               "updates", "connection", "download", "warm",
               "hashes"}
  /\ IF part = "signin" THEN Signin!Init
     ELSE Off(signinNow) /\ Off(states) /\ Off(devices) /\ Off(browsers) /\ Off(minted)
          /\ Off(signinCalls) /\ Off(signinRestarts) /\ Off(approvals) /\ Off(returns)
  /\ IF part = "upstream" THEN Upstream!Init
     ELSE Off(upstreamNow) /\ Off(credit) /\ Off(updated) /\ Off(token) /\ Off(lock)
          /\ Off(upstreamCalls) /\ Off(slots) /\ Off(needless) /\ Off(outdated)
  /\ IF part = "answers" THEN Answers!Init
     ELSE Off(final) /\ Off(answersPart) /\ Off(data) /\ Off(answersCalls) /\ Off(answersAsks)
          /\ Off(answersRestarts) /\ Off(served) /\ Off(together)
  /\ IF part = "ports" THEN Ports!Init
     ELSE Off(builds) /\ Off(pointer) /\ Off(portsHolder) /\ Off(portsCalls) /\ Off(missed)
          /\ Off(moved)
  /\ IF part = "art" THEN Art!Init
     ELSE Off(known) /\ Off(artWrites) /\ Off(looks) /\ Off(misled) /\ Off(crossed)
  /\ IF part = "warm" THEN Warm!Init
     ELSE Off(upstream) /\ Off(art) /\ Off(warmRuns) /\ Off(why) /\ Off(lost)
  /\ IF part = "logs" THEN Logs!Init
     ELSE Off(logsClock) /\ Off(bundle) /\ Off(record) /\ Off(logsHolder) /\ Off(logsCalls)
          /\ Off(fits)
  /\ IF part = "catalog" THEN Catalog!Init
     ELSE Off(catalogClock) /\ Off(catalogRows) /\ Off(catalogWrites) /\ Off(disk)
          /\ Off(scan) /\ Off(since) /\ Off(told) /\ Off(late) /\ Off(twice) /\ Off(catalogTurns)
  /\ IF part = "indexer" THEN Indexer!Init
     ELSE IF part = "updates" THEN OneGame!Init
     ELSE Off(seeds) /\ Off(linked) /\ Off(manifest) /\ Off(indexerRows) /\ Off(runs)
          /\ Off(reported) /\ Off(stale) /\ Off(count) /\ Off(indexerTurns) /\ Off(faults)
          /\ Off(drops)
  /\ IF part = "hashes" THEN Hashes!Init
     ELSE Off(bytes) /\ Off(original) /\ Off(link) /\ Off(sidecar) /\ Off(hashRow) /\ Off(hashRuns)
          /\ Off(hashWrites) /\ Off(amended)
  /\ IF part = "connection" THEN Connection!Init
     ELSE Off(wire) /\ Off(client) /\ Off(open) /\ Off(connectionAt) /\ Off(req) /\ Off(answers) /\ Off(taken)
  /\ IF part = "download" THEN Download!Init
     ELSE Off(payload) /\ Off(row) /\ Off(streams) /\ Off(procs) /\ Off(gameLock) /\ Off(staged)
          /\ Off(installed) /\ Off(breaks)
  /\ IF part = "planner" THEN Planner!Init
     ELSE Off(source) /\ Off(verdict) /\ Off(ops) /\ Off(at)

ServiceNext ==
  /\ part' = part
  /\ IF part = "auth" THEN Next ELSE UNCHANGED vars
  /\ IF part = "signin" THEN Signin!Next ELSE UNCHANGED signinVars
  /\ IF part = "upstream" THEN Upstream!Next ELSE UNCHANGED upstreamVars
  /\ IF part = "answers" THEN Answers!Next ELSE UNCHANGED answersVars
  /\ IF part = "ports" THEN Ports!Next ELSE UNCHANGED portsVars
  /\ IF part = "art" THEN Art!Next ELSE UNCHANGED artVars
  /\ IF part = "warm" THEN Warm!Next ELSE UNCHANGED warmVars
  /\ IF part = "logs" THEN Logs!Next ELSE UNCHANGED logsVars
  /\ IF part = "catalog" THEN Catalog!Next ELSE UNCHANGED catalogVars
  /\ IF part = "indexer" THEN Indexer!Next
     ELSE IF part = "updates" THEN OneGame!Next ELSE UNCHANGED indexerVars
  /\ IF part = "hashes" THEN Hashes!Next ELSE UNCHANGED hashVars
  /\ IF part = "connection" THEN Connection!Next ELSE UNCHANGED connectionVars
  /\ IF part = "download" THEN Download!Next ELSE UNCHANGED downloadVars
  /\ IF part = "planner" THEN Planner!Next ELSE UNCHANGED plannerVars

ServiceVars == <<part, vars, signinVars, upstreamVars, answersVars, portsVars, artVars, warmVars, logsVars,
                 catalogVars, indexerVars, hashVars, plannerVars, connectionVars, downloadVars>>

ServiceSpec == ServiceInit /\ [][ServiceNext]_ServiceVars

\* However polls and callbacks race, one code is one token, a token was granted
\* to whom it names, and no flood fills a map.
SignInIsSound == part = "signin" => Signin!SignInIsSound

\* No upstream is called faster than agreed, or with a token that is out.
ProxyIsKept == part = "upstream" => Upstream!Pace /\ Upstream!TokenServes

\* The pointer to a pushed build never names one that is not there.
PointerStands == part = "ports" => Ports!PointerStands

\* A game's art has one answer, and "miss" is told of none that has a picture; the
\* runs that fill it take no picture away, and miss none they could not ask for; and
\* what the proxy remembered of a question is whole, and its kind is there with it.
OneAnswer == /\ part = "art" => Art!OneAnswer
             /\ part = "warm" => Warm!WarmIsResumed
             /\ part = "answers" => Answers!CacheIsWhole

\* What is listed of a user's logs fits the quota when an upload is answered.
QuotaHolds == part = "logs" => Logs!QuotaHolds

\* A scan reports what was imported once, and as missing what cannot be opened.
ScanIsTrue == part = "catalog" => Catalog!AddedOnce /\ Catalog!MissingIsUnopenable

\* A sweep reports no game whose bytes are there, and an import run that nothing
\* disturbed leaves the catalog as the library is; a row's hash is of its bytes.
IndexIsTrue == /\ part = "indexer" => Indexer!SweepIsTrue /\ Indexer!RunSettles
               /\ part = "updates" => OneGame!SweepIsTrue /\ OneGame!RunSettles
               /\ part = "hashes" => Hashes!HashIsTrue

\* What is planned for a payload is filed right, one dump of each title.
PlanIsSound == part = "planner" => Planner!PlanIsSound

\* What a connection reads next as a request is one, whatever the last was told.
AnswersAreFramed == part = "connection" => Connection!AnswersAreFramed

\* A body that ended short is not stored: violated, a save becomes the head.
CutIsRefused == part = "connection" => Connection!CutIsRefused

\* What is installed is one version of a game's file, whole.
DownloadIsWhole == part = "download" => Download!DownloadIsWhole
=============================================================================
