# GamesOnTheGo: a verification project

TLA+ models of the parts of GamesOnTheGo where state is shared and things can
go wrong between two lines of code, model-checked by TLC on small instances and,
where it matters most, proved with TLAPS for every instance.  Every definition
is translated from the source; `PROJECT.json` names the lines.

## The system

A player's machines each run the `gotg` client (bash), a picker (Python/SDL), a
kill switch and overlay beside the game (Rust), and the emulators themselves in
Nix-built environments.  They talk HTTP to one service (Python, stdlib only),
which keeps everybody's saves, session logs, tokens, artwork, ports and the
catalog; an indexer fills the catalog from a ROM library.

### Inventory

| part | state it keeps | operations | talks to | what is hard | what makes it correct |
|---|---|---|---|---|---|
| **Saves store** `gotg/saves.py`, `service/routes_saves.py` | per user and environment: `gen/` bundles, `history/` records, `current.json` | push (compare-and-set, forced or not), head GET, history, one generation, listing, retention | clients over HTTP; one thread per request | three files replaced one after another under a lock that readers do not take; a stop between any two | the pointer names a bundle that is there; kept generations keep their true record; a GET serves something that was the head; a push is a compare-and-set |
| **Saves sync** `client/lib/saves*.sh`, `cmd-saves.sh`, `remote.sh`, `ui/gotg_ui/syncing.py` | save files, journal, local archives, a lock file, the watcher's signature | check, push, pull, keep here, keep server, restore, sync, watch, reload in session | the store; the running game; the picker; the overlay | the game writes while a pull places; commands beside the watcher; lost answers; a killed sync; errexit off | work is never lost without an archive; no half save becomes a generation; machines converge or somebody is asked |
| **Tokens** `gotg/tokens.py`, `service/app.py`, `routes_admin.py` | SQLite: tokens, invites | mint an invite, claim, issue, verify, revoke | every request; the other pods | verify, touch and the user's lookup are separate transactions; clocks read before the lock | a code is claimed once; a revocation holds; a request is served from its own token's saves |
| **Library pods' bearers** `service/app.py` (`_principal`, `_introspect`) | a cache of answers about tokens | hit, miss, ask, store | the pod with the token store | a cached answer outlives a revocation; answers are stored out of order | an accepted token stood lately |
| **Sign-in** `service/oauth.py`, `routes_oauth.py` | bounded maps of pending states and device codes, in memory | login, callback, device start, poll, approve | the provider; tokens | find and set outside the map's lock; expiry against approval; a restart forgets | one token per device code, for the person who approved it |
| **Connections and routing** `service/app.py`, `routes_*.py` | a kept-alive socket, what is unread on it | parse, route, authenticate, read the body, answer, close | every client | some twenty ways out of a request, before or after its body was read; clients that die | what is read next as a request is one; a stranger learns nothing |
| **Session logs** `gotg/logs.py`, `service/routes_logs.py`, `client/lib/logs.sh` | service: bundles and records per user under a quota; client: session directories, watcher pids | put, list, get, delete; begin, watch, push, prune | each other; the game | a stop between bundle and record; several watchers over one set of directories | the quota holds; the newest survives |
| **Ports store** `gotg/ports.py`, `routes_ports.py` | builds, and a pointer per port | streamed upload, swap, delete, download | admins, clients | an upload beside a download and a delete; stops | the pointer names a whole build |
| **Art cache and its warming** `service/artcache.py`, `routes_art.py`, `client/steam/warm.py`, `artwork.py`, `libretro.py` | pictures and records that there is none | put, miss, forget, look; a warming run | IGDB's and SteamGridDB's proxies, libretro | replace is forget and write, without a lock; runs of hours over upstreams that throttle, stopped and repeated | one answer per game; what was not answered is not a miss |
| **Catalog and files** `gotg/catalog.py`, `routes_catalog.py`, `routes_files.py`, `routes_admin.py` | SQLite catalog; the library's files | upsert, touch, delete, query, scan, serve ranges | indexer, clients | writes that read the clock before the lock; files moved under a row; resumed downloads | a scan loses and repeats nothing; a download is one version |
| **Upstream proxy** `service/token_cache.py`, `ratelimit.py`, `app.py` | an upstream token, a token bucket, stored answers | get, reserve, forward, remember | IGDB, SteamGridDB | clocks read outside the lock; two writers of one `.part` | never faster than the rate; one token minted at a time; what is remembered is whole |
| **Indexer** `gotg/indexer/` | the library tree, a manifest, sidecars, rows | scan, classify, plan, link, publish, sweep | the catalog | a library that changes under a run; runs that overlap, fail and are killed | a run brings the catalog to the library, and never takes away what is there |
| **Downloads** `client/lib/download.sh`, `storage.sh` | partial files, per-game locks, installed files | fetch, resume, verify, install | files routes; the picker | two processes; a partial file of another version | what is installed is whole and verified |
| **Updates, versions** `client/lib/updates.sh`, `versions.sh` | pinned versions, a stamp | check, pin, build | Nix, the picker | a check beside a launch | a game runs what was pinned |
| **Launch, config, pads** `client/lib/cmd-play.sh`, `config.sh`, `env.sh`, `pads*.sh` | configuration files | play, configure, write emulator settings | everything on the machine | two writers of one JSON file | the game starts whatever else fails |
| **Steam and QA** `client/lib/cmd-steam.sh`, `cmd-qa.sh`, `client/steam/shortcuts.py` | shortcuts file | add, remove | Steam | binary file formats | a shortcut round-trips |
| **Picker** `ui/gotg_ui/` | screens, a loader, installs, badges, filters, seats, pictures | browse, prepare, install, restore, update, hand over | the client as subprocesses; danstick; the service | jobs and answers that end in any frame, for a question nobody asks any more | what starts was asked for; what is shown is what is on the disk; who steers may |
| **Kill switch and overlay** `rust/crates/gotg-killswitch`, the wrapper in `client/env/machinery/lib.nix` | chords held, the menu, processes to stop, a session directory | hold, stop, load a save, menu, seat, rebind | the game's processes, the wrapper, danstick | a stop meets a load and a wrapper that starts the game again; processes that stay, leave their tree, or end unasked | a stop leaves nothing running; a save is put back under no game |
| **gotg-pads** `rust/crates/gotg-pads` | none | list the pads | SDL | | |
| **Service pages, command lines** `service/*_page.py`, `cli.py`, `config.py` | none | render, parse | | | |
| **Packaging, deployment** `nix/`, `pkgs/`, `k8s/`, `install.sh` | none at run time | build, deploy | | | |

## What is modelled

| module | models | theorems |
|---|---|---|
| `SavesHead` | what the store promises: a numbered head that moves by compare-and-set, each push answered in one step | |
| `SavesStore` | `gotg/saves.py` and the PUT and GET of `routes_saves.py`, file by file | in `SavesStoreProofs` |
| `SavesSync` | the client's saves on any machines, against the service's head | in `SavesSyncProofs` |
| `Tokens` | `gotg/tokens.py`, and the request of `app.py` and `routes_saves.py` that a token lets in | in `TokensProofs` |
| `LibraryAuth` | how a pod without the token store knows a bearer (`_introspect` and its cache) | in `ServiceProofs` |
| `SignIn` | `service/oauth.py` and `routes_oauth.py`: states, device codes, what they mint | in `ServiceProofs` |
| `Connection` | one kept-alive connection: `service/app.py`'s order of refusals, and which way out of every route closes | in `ServiceProofs` |
| `Upstream`, `AnswerCache` | the proxy's token, its bucket, and the answers it stores | in `ServiceProofs` |
| `PortsStore` | the uploads, deletes and downloads of one port | in `ServiceProofs` |
| `ArtCache`, `Warmer` | what the service knows of a game's picture, and the runs that fill it | in `ServiceProofs` |
| `LogsStore` | one user's session logs under a quota | in `ServiceProofs` |
| `Catalog`, `Download` | rows, the scan of what is missing and what is new; a file from the library's disk to a machine's | of `Catalog` in `ServiceProofs`, of `Download` in `DownloadProofs` |
| `Indexer`, `Hashes`, `Planner` | import runs over a changing library; where a row's hash comes from; what is to be done with one payload | of `Indexer` in `IndexerProofs`, of the others in `ServiceProofs` |
| `Picker` | the picker's frame loop: every screen and event, jobs, checks and lists | in `PickerProofs` |
| `PickerBehind`, `PickerShelf`, `PickerPads`, `PickerSeats`, `PickerHush`, `PickerArt` | the picker's badges and versions; the grid, filters and memory; which pads steer; danstick's seats; grabbed keyboards; pictures | in `PickerProofs` |
| `KillSwitch` | how a running game is stopped, and started again on a picked save | in `KillSwitchProofs` |
| `Service` | the parts of the service and the indexer, and what each promises | `ServiceProofs` |
| `PickerParts` | the picker's loop and the parts beside it, and what each promises | `PickerProofs` |
| `MCSavesStore`, `MCSavesSync`, `MCTokens`, `MCIndexer`, `MCServer`, `MCPicker` | the small instances TLC checks: values for the constants of `SavesStore`, `SavesSync`, `Tokens`, `Indexer`, `Service` and `PickerParts` | |

The parts that `Service` and `PickerParts` put together share no state, so a
behavior of theirs picks one part in its initial state (`part`) and takes that
part's steps only; the others' variables stay `"off"`.  A run explores each part as
a run of its own would, no product of parts is taken, and each property speaks of
one or two parts; a proof has an invariant for each part, of the behaviors that are
of that part.  What
parts do to each other is in the modules themselves: the store's compare-and-set
in `SavesSync`, "what has ended stays ended" of `Tokens` in `LibraryAuth`, the
catalog's one-transaction upsert in `Indexer`, the row that lags the disk in
`Download`, the service's answer in `PickerArt`.

### SavesStore

One environment of one user (environments share nothing but the lock, and the
lock of other environments only delays).  `bundles` is `gen/`, `records` is
`history/`, `pointer` is `current.json`; a file is named by its generation and
digest, as in the code, and `.part` files are invisible until `replace()`, so
each replace is one step.  A push is `Ask` (the request is read), `Decide` (the
lock is taken, the pointer read, and the three rules of `save()` applied in
their order), `WriteBundle`, `WriteRecord`, `WritePointer`, then `ListExcess`
and for each name to drop `DropBundle` and `DropRecord`, `Finish` and `Answer`.
`Fail` is an `OSError` anywhere after the lock was taken: the `with` gives the
lock back, what was written stays.  `Crash` is a restart: threads and lock are
gone, files are not.  A GET of the head takes no lock and reads the pointer for
its label (`ReadLabel`), the pointer again for the path (`ReadPath`), then the
file (`ReadBytes`), which retention may have deleted by then.

`committed` is a history variable: every pointer ever put in place.  Digests are
numbers because names sort by them; a restart is as likely between any two steps
as anywhere.  A whole restart of the machine that loses file contents the
service had replaced is not modelled (the code does not fsync; this would need
a model of the file system).

`SavesStore` implements `SavesHead` under a refinement mapping: the head is the
pointer, a push counts as decided when the pointer is replaced, and one that
changes nothing when the pointer is read.  A failed write after the pointer was
replaced is the abstract `HFail`: the push happened and its answer is an error.

### SavesSync

A save file's content is the number of the write that made it, a bundle is the
content of every file and its own hash (bundling is deterministic), and the
service is the compare-and-set that `SavesStore` implements.  Per machine there
are the save files, the journal (`gen`, `hash`: the base; `pushed`: the last
pushed hash), the archives, the game, the lock, one process per command slot and
the watcher.  The steps of `proc[m][s]` are those of the shell code:

* `TakeLock`, `Look`, `Compare`: `with_lock`, `saves_check_one` and the case of
  `saves_sync_one_locked`;
* `PushBundle`, `PushSend`, `PutArrives` / `PutLost`, `PushReply`:
  `saves_push_try` around `store_save`, the answer lost before or after the
  service acted, or the push arriving after the client gave up
  (`PutArrivesLate`);
* `PullMeta`, `PullCompare`, `Snapshot`, `PullFetch`, `Place` (one file at a
  time), `PullDone`: `saves_pull_one` and `saves_extract`;
* `Choose`, `Snapshot`, `Remove`, `Place`, `Placed`, `Agree`, `RecordAgreed`:
  `saves_restore_one` and `saves_restore_journal`;
* `Ended`: the process is over and the lock with it; a launch goes on to the
  game and its watcher whatever its sync said;
* `Broken`: a file operation fails.  Under `saves_cmd_sync` and the launch
  errexit is off, so a failed archive or extraction is passed over; a command a
  person runs ends there;
* `Kill`: the picker stops its sync at a handoff;
* `GameWrites`, `GameStops`, `GameResumes`, `Tick`: the game, the wrapper's stop
  and restart on a save picked from the overlay, and the watcher;
* `Elsewhere`: some other machine pushes.  The runs have one machine in full and
  this in place of the others; the theorems are of any number in full.

Simplifications, each of which only leaves behaviours out of the model that are
named here: a file list change (adopting files, a manifest that changes) is not
modelled; the journal's read-merge-replace is one step; `saves_check_one`'s own
bundling is one step, as is the watcher's signature (a signature stands for the
content); how long the files must be quiet before a push is not modelled, the
watcher may push after any write; the next play's watcher starts when the last
one is done; the restore's loop over files to remove is one step; a game write
is taken to leave a whole save, also when it writes over a half-placed one;
`setup`, listings and `--push-only` are left out.

### Tokens

The two tables are functions from codes and tokens to rows.  Every write of the
store is one transaction under its lock, so it is one step; what is not one step
is that `claim`, `revoke` and `verify` read the clock first.  So each is asked
for (`AskClaim`, `AskRevoke`, `AskVerify`: the operation and the clock it read)
and lands later, with others in between: `Claim` or `ClaimRefused`, `Revoke`,
and for a request `Verify` (the row is read, without the lock), `Touch` (the last
use is written, by name), `Lookup` (`user_for`, by name again) and `Answer`.
`MintInvite` and `Issue` use the clock only to set an expiry, where a stale clock
is a shorter time to live, and are single steps.

`Claim` inserts without asking the unique index on live names, so that
`OneLivePerName` says the index is never what stops it; `Issue`, whose name ends
in a random part, is refused by the index when the name is taken.  History
variables: `origin` (the claim a token came from, and whether a revocation of
its name had been answered when the claim began, or landed), `answered`, `seen`.

The wall clock only goes forward, names and users are well formed, and the
shared tokens of the environment, which the store never sees, are left out; so
are the migrations, which run before anything else, and a restart, which forgets
only requests in flight.

### The service's other parts

`LibraryAuth`: `cache` is `auth_cache`, `ends` when each token ended at the pod
with the store, `asks` the questions that are out.  A thread hits the cache
(`Hit`) or asks (`Miss`), the other pod answers with the truth of that moment or
an error (`Whoami`), and `Store` puts the answer down over whatever another
thread has put there since, after forgetting everything when there was too much.
`Tick` keeps every question within `Hop`, the request's timeout.

`SignIn`: taking an entry from a map is one step under its lock; an approval
finds an entry and writes on it later, a poll reads it and takes it later, and
each mints later still, while entries expire, are swept (`Pending`), overflow the
bound and are forgotten by a restart.  The provider is who it names: a login, an
e-mail and a subject, of which the first two may be missing.  `UserSlug` is
`user_slug` with its fallbacks, of which what becomes the slug and what is hashed
differ, and with a hash of five digits that two people may share.

`Connection`: requests on one socket, with the body each declares.  `Parse`,
`Route`, `Authenticate`, `ReadBody` and what a route does (`Climbs`, `Store`,
`Stream`, `put`, `Serve`) follow the code's order of early returns; every answer
says whether it closes.  The client may `Vanish` at any moment, and what it sent
can still be read.  Only bodies declared by a length are modelled.

`Upstream`: a request gets the token (`Reuse` or `Exchange` under the lock), reads
the clock (`ReadClock`), reserves (`Reserve`, with a clock that may be `Lag` old)
and calls when its slot is due.  The bucket counts in ticks of a slot's cost, so
that it stays in integers.  `AnswerCache`: two files per answer, written through
`.part` names that all writers share; the model has inodes, because a second open
of the same `.part` truncates the first writer's file.

`PortsStore`: an upload streams without the lock, and under it gets its name,
then the pointer, then the others go; a delete removes the pointer first; a
download takes no lock and looks three times.  `LogsStore`: bundle, record, then
the oldest until the rest fit.  `ArtCache`: forget each of four names, write
beside, rename; a look probes them one by one.  `Warmer`: a run reads once what
is known (`Begin`), asks for one game at a time (`Resolve`), and writes later
(`Store`); two runs overlap and either stops anywhere.

`Catalog`: a write reads its second, then waits for the lock (`Arrive`, then
`Upsert` or `Touch`); a scan takes its cut, stats each file, and ends.
`Download`: `Replace` and `Import` move the disk and the row apart; a process
takes the game's lock, copies or fetches, resumes with `If-Range`, verifies and
renames; streams break and processes are killed.

### The indexer

`Indexer`: a run reads all rows (`Begin`), enumerates what seeds (`Plan`), and for
each payload links (`Link`) and publishes (`Publish`); then the games tree
(`Torrents`), the touch of what was unchanged and the sweep, each of which the
code skips on its conditions.  Payloads come and go under it, calls fail, runs
are killed and overlap.  `Hashes`: of one file, whether the hash is the row's, the
sidecar's or computed, while the payload is downloaded anew, pruned or rewritten
in place.  `Planner`: `scan`, `classify` and `plan` as operators over payloads of
several files; a name is what the parser gets out of it (slug, region, revision's
numbers, marks of other distributions), and parsing itself is not modelled.  An id
is the slug's words with the revision's after them, so that two names may have one
(`Foo (USA) (v1.2)` and `Foo v1.2 (USA)`).  A call to the catalog that fails may have
been acted on all the same: `Publishes` and `Touches` have the answer lost as well
as the request.

### The picker

`Picker` is `run()` in `app.py`: `ui` holds its locals, `frame` whether it hears
events, or is past the loop.  Events (`OnPrepare`, `OnSavesCheck`, `OnSaves`,
`OnStorage`, `OnMenu`, `OnPanel`, `OnTyping`, `OnGrid`, `Quit`) go to the screen
that owns the input, in the order of `screen_of`; `EndOfFrame` is the rest of the frame:
installs that ended, the check's answer, the list's, the loader's end, in that
order; `Leave` is the way out.  `plan_pick`, `plan_saves_answer` and
`on_prepare_done` are those of `plans.py`.  What a subprocess says is any of its
answers at any frame.

`PickerBehind` adds the one worker that asks which games are here, with questions
pending while installs, uninstalls, updates and syncs end; `PickerShelf` the
library narrowed five ways, the cursor, the page and the file that remembers
them; `PickerPads` SDL's queue and danstick's clones by instance number;
`PickerSeats` the socket to a daemon that dies; `PickerHush` the grabs by a node's
name; `PickerArt` two loaders, a decoder and the frame over one cache.

### The kill switch

`KillSwitch` is the launch as processes: what the switch guards (danstick's exec),
the wrapper `gotg-play`, the games it starts one after the other, and what they
start, which leaves the tree when its game goes.  `Start` to `Picks` are the
wrapper's lines; a SIGTERM is trapped only while it waits.  `StopScope` and
`StopTree`, `AskTree`, `Gently`, `LeftToIt` and `Killed` are `Game::stop` in a game
scope and outside one; `LoadReads` and `LoadNames` are `load_save`, whose thread
(`LoadAsks`, `LoadEnds`) stops the game alone.  Graces have no length, games end
when they like, and the sandbox between danstick's exec and the wrapper takes with
it what it takes.  A kernel that has `cgroup.kill` ends a scope in one step
(`Killed`); of one that has not, the pids are read (`Lists`) and then killed
(`ByHand`), with what is started in between.  Asking a tree is one step; no pid is
given again.

## What is checked

Each run's configuration names its bounds.  All of them disable the deadlock
check because the bounds (and a player who does nothing) let the system stop.

| run | shows | bounds, and why they are enough |
|---|---|---|
| `store` | all of the store's properties, below | two pushing threads and one reader, two digests, retention of 2, three pushes, one fault: three pushes are one more than retention keeps, so files are deleted while the reader holds their name; two digests are enough for a body equal to and different from the head, and for an orphan of the same generation on either side of the new one |
| `sync_machine` | one machine's safety | every command, one of them by hand, the reload in session, two writes (here or elsewhere), three generations, one fault of any kind, two files so that a save can be half placed, one archive so that archives are lost |
| `sync_settles` | what the watcher leaves and what a conflict is, and liveness, under `FairSpec` | syncs and launches of one machine, two writes (here or elsewhere), three generations, a lost answer and a killed sync |
| `tokens` | all of the token store's properties | two threads, two codes, two tokens, two names and users, five calls, three seconds: two claims of one code or of two codes of a name, with a revocation or a request between their clock and their landing; invites of one second and a throttle of two, so that both boundaries are met |
| `server` | the service's and the indexer's parts | two request threads everywhere (three for a port: an upload, a delete, a download).  A pod's cache: two tokens, times of one tick, a cache that forgets at the second answer.  Sign-in: two states and a device code in maps of one, five people: one whose login is another's name sanitized, two without a login whose e-mails begin alike, one nobody allows; one restart.  The bucket: two slots, clocks one tick behind.  Stored answers: two payloads, four requests, one restart.  A port: three builds, one over the cap.  Art: two writers and a look; two warming runs, one that looks again, over two games.  Logs: three sessions of one and two units under three.  Catalog: an entry, two paths, three seconds.  Indexer: two games and an update, then one game with two updates; a scheduled and a `--match` run, three runs, three turns of the library, one fault, one dropped torrent.  Hashes: three runs, two inodes, three writes.  Planner: thirteen names, two of which have one id, payloads of up to three files.  A connection: two requests of some thirty kinds, bodies up to the cap and over.  A download: two processes, three versions of different lengths (one shorter than the partial file), two breaks |
| `picker` | the picker's parts | two games, one with a variant that has saves of its own; one question behind at a time and two jobs; five games of two platforms and regions in grids of two by two and lists of three; one instance number for every pad; two players and two deaths of the daemon; six devices, two names; two loaders and two launches; two games one after the other and two loads, in a scope or not, the guarded pid leading its group or not, the kernel with `cgroup.kill` or without |
| `sync_offline`, `sync_lost_reply`, `sync_unarchived`, `cut_upload`, `warm_miss`, `games_root` | disagreements (below) | the smallest that show them |

The store's properties: `HeadIsStored` (the pointer names a bundle that is
there), `HistoryIsTrue` (a kept generation that was current has its own record),
`ServedWasHead` (an unlocked GET sends a real head, not older than its label),
`ImplementsHead`, `PushIsAnswered` (no way out keeps the lock); and while
nothing fails `KeptAreThere`, `GoneOnlyWhenOverrun` (a GET loses its file only to
a whole retention's worth of pushes) and `RetentionBounds` (said of pointers that
can still be read: the millionth generation, `LastGen + 1` in the model, has seven
digits, is not shaped like one for `_prune`, and stays beside the last `Keep`).

The sync's: `JournalIsTrue` (the base's number and hash are one real generation,
through every command and fault), `GenerationsAreWhole` (while no file operation
fails and nobody runs a command beside the syncs), `SyncPlacesOnlyOverSynced` (a
sync pulls only over files the service has), `RestoreStandsOnline` (the head
that was there is not pulled over a save somebody put back, while the service
answers), `WatcherLeavesNothing` (after the watcher's last look the service
has what was played, or the two have parted), `ConflictIsRealAlone` (unless an
answer was lost, a sync killed or a person's command run, a conflict is reported
only if somebody else pushed), `EventuallySettled` and `EventuallyTogether`.

The token store's: `OneLivePerName` (a rotation never meets the index),
`ClaimedOnce` (however many claims race, a code makes one token),
`SpentOnSomething` (a code is spent on a token or closed by a revocation of its
own name), `RevokedFirst` (a claim that begins after a revocation was answered
mints nothing from an invite that revocation met), `SeenLately` (once the
touches have landed, a row's last use is less than the throttle's interval
behind the truth) and `NamespaceIsOwn` (a request whose token still stands when
its user is looked up is served from that token's saves).

`GenerationsAreWhole` is stated for syncs only, because it fails beyond that, as
dropping its guard shows: with `MaxBroken = 1`, a launch's sync passes over a file
it could not extract and the watcher pushes the half save; with a push and a restore
by hand (`MaxAsked = 2`), the restore takes no lock and the watcher bundles files of
two saves.  That what a command writes over is in an archive or a generation
(`WorkIsKept`) does not hold of the code, which is the run `sync_unarchived`.

The service's and the indexer's, in `server`:

* `AcceptedLately`: a bearer that is let in stood no longer ago than the cache's
  time and one question's, in whatever order answers were stored.
* `SignInIsSound`: one token per state and per device code, for somebody who was
  told that they had approved it; whatever user a token has is the name of somebody
  on the allowlist whom the provider sent back; no flood fills a map.  That two
  people are never one user is not in it (`UserIsOnePerson`, below).
* `ProxyIsKept`: in no stretch of time are more calls due than a full bucket and
  the rate; one exchange of the token serves all who wait, and no call is made
  with a token whose time ran out while its request slept; a stored body has a
  kind, and is whole as long as no two requests stored the same answer at once.
* `PointerStands`, `QuotaHolds`, `OneAnswer` (with `WarmIsResumed`: a warming run
  takes no picture away, asks on to the end, stops after too many failures, and
  takes no unanswered search for a miss).
* `ScanIsTrue`: a scan reports each import once and as missing exactly what a
  download could not open.  A row whose write was still waiting when its second
  was over is excepted; without that, `Catalog!ScansLoseNothing`, which is what
  the scan's docstring says, does not hold.
* `IndexIsTrue`: a sweep never reports a game whose bytes were there all through
  the run; a run that nothing disturbed leaves the catalog as the library is; and
  a row's hash is of the bytes whose size and time it has.  A request that failed
  may have been acted on: the run counts an error and sweeps nothing.  The hash excepts
  a payload rewritten in place under its link: the sidecar is trusted because the
  link is still the payload's inode, so the old hash is published with the new
  size and time, and is the ETag that resumed downloads then go by.
* `PlanIsSound`: nothing has a place without a platform and an id, not even what is
  deferred to a person; an update never becomes a game; a set keeps one dump of each
  title that has a retail one and none of another, and the one it keeps is beaten by
  none on region, on revision where revisions are plain numbers, or, of one revision,
  on marks of another distribution.  It does not say that two titles have two
  places: ids meet, and then so do files.  Nor that the highest revision is kept when
  revisions have several numbers (`HighestKept`, below).
* `AnswersAreFramed`: whichever way a request went out, what the connection reads
  next as a request is one, and a stranger past the open pages hears 401 only.
* `DownloadIsWhole`: what is installed is one version whole, however the payload
  was replaced and the transfer resumed; no stream keeps its slot.

The picker's:

* `PlayIsAskedFor`: what is handed to exec is a game and a verb somebody picked
  and did not back out of; no answer of a check, loader or adopted install
  starts anything else.
* `KeptBeforePlayed`: a game whose saves conflict starts only after one was kept.
* `BehindCatchesUp`: once no question is pending, the tiles say what the disk says
  of every game whose last job the loop saw end well.
* `ShelfStands`: the cursor is on a game of the page whatever narrowed it, and a
  picker closed at any frame opens as it was left.
* `StepsStand`: a direction moves to a neighbour or over one page's edge; the
  picker restarts into another only with no install going.
* `DriversAreTrue`: only clones steer, what repeats is held, who is shown seated
  is who the daemon has seated, and of keyboards only controllers' are held.  A
  controller's keyboard that came under a name still held for one that is gone is not
  held until the name is let go (`hush.py:169`), and the property excepts it: it says
  that what is held then is nobody's (`Stale`).
* `PicturesAreWhole`: nothing half written reads as cached, and a tile drawn sixty
  times a second is one request.
* `GamesEndWhole`: a stop of a launch in its scope, not told to leave it and not
  killed by hand for want of `cgroup.kill`, ends with no process of it left, though a pick was waiting and the wrapper started the game
  again under it (`StopIsWhole`); and a pick is put back only when no game runs,
  though the stop's SIGTERM cut the wrapper's wait short (`PutBackAtRest`).

### Disagreements between the code and what it says

* `sync_offline`: a restore made offline leaves the journal alone. If the save
  put back is the one the journal is based on, the next sync sees nothing
  changed here and pulls the head over it, which the comment says it does not.
* `sync_lost_reply`: a push that was served and whose answer was lost leaves the
  base where it was. When the game writes again the machine's own generation is
  reported as a conflict.
* `sync_unarchived`: a launch that waited its thirty seconds for another sync's lock
  starts the game after that sync has archived and before it places; what the game
  saves in between is written over and is nowhere else.
* `cut_upload`: a client that dies while it uploads a save leaves a body that
  ended short, and the service stores it as the head; the ports route, which
  reads its own body, refuses the same.
* `warm_miss`: a search that found a game and whose picture's own request then
  failed counts as an answer, and the run writes the record that nobody has a
  picture, which no later run asks again.
* `games_root`: a game whose payload was pruned, and whose file in the games tree
  is to be listed instead, is refused by the catalog (a path that differs) in
  every run, and the error it counts holds every sweep back.

Six more properties are stated and do not hold, without a run of their own:
`SavesStore!OneIsCurrent` (`history()` marks the head by its number, so an orphan
of an interrupted push can be "current" beside it), `Tokens!LastSeenIsOwn` (the
touch is by name and moves a retired row's last use too),
`Tokens!RevocationIsFinal` (a claim that read its clock in the invite's last
second and lands after a revocation mints a live token of the revoked name),
`Catalog!ScansLoseNothing`, above, `SignIn!UserIsOnePerson` and
`Planner!HighestKept`.  `UserIsOnePerson` is what `user_slug` says of itself, that "two
different people cannot land in one person's saves by sanitizing alike"
(`oauth.py:84`): two people without a login (only the OIDC provider gives none,
`oauth.py:226`) at two hosts on the allowlist, `ann@here` and `ann@there`, are both
`ann` (`oauth.py:87`), and of names that were altered five hexadecimal digits tell
(`oauth.py:91`).  `HighestKept` is `select_1g1r`'s "then the highest revision"
(`slugify.py`): a revision's digits are run together, so v1.2 is above v2.

### Fairness

`SavesStore!FairSpec`: every request thread the service started is scheduled
(weak fairness per thread); nothing makes a client ask and nothing makes a
restart happen.  The steps under the lock need no more, since the lock's holder
is always able to go on.  `SavesSync!FairSpec`: a process that runs goes on, the
picker's sync comes round every ten minutes (`syncing.py`), the watcher looks
every ten seconds, and the wrapper restarts a game it stopped for a save.
The other modules state safety only and no fairness: nothing in them waits for
another but on a lock whose holder can always go on, and what a subprocess or an
upstream does in the end nothing in the code promises.
Nothing is assumed of games, people, other machines or faults; faults are
bounded, so `[]<>` says what happens when they have stopped.

## What is proved

`SavesStoreProofs`, for every number of threads and readers, every set of
digests, every retention, and any number of pushes, restarts and failed writes:
`TypeCorrect`, `HeadAlwaysStored`, `HistoryAlwaysTrue`, `ServedAlwaysWasHead`,
`RetentionKept` (`RetentionIsKept`) and `Implementation` (`Spec => ImplementsHead`).  The assumption is
`StoreAssumption`: digests are positive numbers, retention is positive, and the
lock's free value is not a thread.

None of the invariants is inductive alone.  `HeadIsStored` needs that the
thread about to replace the pointer has its bundle in place and that the names
retention is about to drop do not include the pointer's; that needs that nobody
else wrote in between, so `LockInv` says that exactly the thread between reading
the pointer and leaving holds the lock, and `StepInv` what that thread knows of
the disk at each step.  `HistoryIsTrue` needs that a push's record cannot have
the name of a generation that was ever current, which follows from
`CommittedInv`: everything ever current is at or below the pointer, and a push
writes one above it.  `ServedWasHead` needs what a reader's label and file were
when read (`GetInv`).  `IInv` is the conjunction; `NextInv` has a lemma for each
action.  The refinement maps each step to an abstract step or a stutter, using
`IInv` for the thread that writes.

`RetentionKept` counts files, so beside `IInv` it needs which files there are.
`Line`: the heads that ever were are one for each generation up to the pointer's;
`Named`: while nothing fails there is no orphan, every bundle is such a head's or
the one being written; `Trimmed` and `Dropping`: outside retention nothing older than
the last `Keep` is there, and within it what is older is still to be dropped and
nothing else is.  `ExcessIsOld` and `OldIsExcess` are the arithmetic of `_prune`, that
"all but the newest `Keep` names" and "all at or below `pointer.gen - Keep`" are one
set: as names of different generations the newer ones inject into an interval, and
as the last `Keep` are all there the interval injects into them.

`TokensProofs`, for every number of threads, codes, tokens and names, any times
to live and any throttle of at least a second: `TypeCorrect`, `OneTokenEach`
(`OneLivePerName` and `ClaimedOnce`), `NoCodeBurnt`, `RevocationHolds`,
`OwnNamespace` and `LastUseIsTold`.  The assumption is `TokensAssumption`.  The
inductive invariant adds what the properties rest on: no call's clock is ahead of
the wall clock (`ClockInv`); a token's origin is a spent code (`OriginInv`); an
invite that a revocation met is closed or had expired (`AnsweredInv`), so that a
claim begun later is refused and stays so (`LateInv`: what a clock refuses no
later step makes claimable); a request's token is a row of the request's name
(`CallInv`); and a last use the row does not tell is the clock of a touch on its
way (`SeenInv`).  Two lemmas carry most steps: `RowsStand` and `InvitesStand`,
what no step of the store undoes.

`ServiceProofs`.  Of `LibraryAuth`, for every number of threads and tokens and every
length of the two cache times and of a question: `RevocationLands` (`AcceptedLately`),
`RefusalPasses` (`RefusedBriefly`: a token that stands is refused only after an
error of the other pod, and not for long) and `TypeCorrect`, from
`AuthAssumption`.  `AcceptedLately` speaks of what was said last; to be inductive it
is followed back through the cache (`CacheFollows`: an entry counts no longer than
its time and a question's from the end of its token), the answers on their way
(`AnswersFollow`: a "yes" was true after its question was asked, a "no" is for good
or newer than the question) and the questions (`AsksAreShort`).  That late answers
may overwrite newer ones needs no case of its own: each bounds itself.
`RevocationAlwaysLands` says the same of the service's behaviors, and so do
`FileAlwaysWhole` and `IndexStands` of what `DownloadProofs` and `IndexerProofs`
prove of their modules.

* `PointerAlwaysStands` (`PointerStands`) and `ChangesExclude`, for all builds and
  threads.  The invariant says that the lock's holder is the one thread between naming
  and sweeping (`PortsLockIsHeld`), what that thread has done (`ChangesFollow`), and
  that a reader no change overtook has read what the pointer still says
  (`ReadersFollow`).

* `OneAnswerStands` (`OneAnswer`), for any warmers, viewers, games, runs and storing
  threads, from `ThreadAssumption` (threads are finitely many, so that the store
  has a free file for each) and `WarmAssumption` (a run gives up after one
  failure at the least).  Three invariants.  `ArtInv`: a picture that stood throughout
  a look stands (`LooksFollow`), and while no two writes crossed there is one writer,
  the kinds it has gone past are gone and one name is known (`WritesFollow`).
  `WarmInv`: what a run will ask for is none of what stood when it began, nothing of a
  run that was stopped is lost, and no "miss" is written over a silence.  `AnswersInv`:
  the kind is named before the body, and while no two stores have been at work at
  once each name and part file has a file of its own and what is read is whole.
* `NextIsARequest` (`AnswersAreFramed`), for any length of any request's body and any
  number of requests that a client sends on, from `ConnectionAssumption`.  The
  invariant `ConnectionInv` divides what is on the wire: so many units more belong to
  the request in hand (`Due`), then comes the next one's head, and so on to the end,
  where what is missing is what the client still owes (`Framed`, `Covers`); and of what
  was answered, in the order of the requests, a stranger's is a refusal.

* `SignInStands` (`SignInIsSound`), for any people, states, codes, browsers, threads
  and restarts, from `SignInAssumption`: nobody's name is the mark of an entry that has
  none, states and codes are random and so apart, and the times and the bound are
  numbers.  Nothing is assumed of names: they may be missing, alike, or one another's
  slug and hash.  The invariant `SigninInv`: what left a map is gone from it for good
  (`Spent`), one request at most holds it (`OneHolds`), and nothing was minted of it
  before (`Unminted`), so that a second token of one code (`OneMinted`) has nobody to
  mint it; and whoever a request, a device or a token names is the name of somebody
  allowed whom the provider sent back for some state (`NamedUsers`, `TokenSound`).  An
  approval written late, on a code already taken, changes none of that.

* `PaceStands` (`ProxyIsKept`), for any rate, burst, wait, lifetimes and threads, from
  `UpstreamAssumption`: a slot costs something and the bucket holds one, lifetimes are
  numbers, and the token's margin covers the longest wait and the clocks' lag (a day
  against seconds, `token_cache.py:23`); the upstream may still give a token for less
  than the margin, of which nothing is claimed.  The argument is the bucket's debt, its
  clock less its credit.  Each slot that is taken adds a period to it, whichever clock
  its thread had read, and a slot is due no earlier than the debt then says and no
  later than that and what a full bucket and the lag forgive; so that the slots due in
  one stretch of time were taken in one stretch of debt (`Paced`), a period apart.
* `QuotaStands` (`QuotaHolds`), for any finitely many sessions, sizes, quota and
  threads, from `LogsAssumption` (a bundle is not empty; a session's rank among those
  of one second is its id).  Once an upload has chosen what to drop, what it leaves fits
  (`VictimsFit`): the oldest that is not dropped was passed over because the rest fitted
  without those before it.  `LogsInv` carries that through the removals, file by file
  (`UploadFollows`), and a stop between two files leaves no less room than they did
  (`StoreFits`).
* `PlanStands` (`PlanIsSound`), for any finitely many names and any rules, from
  `PlannerAssumption` (a dump's region is one of the four, its revision a sequence of
  numbers, a directory the rules name has a platform).  A better dump is better by
  a number (region, revision, marks), so that some dump is beaten by none
  (`BestExists`), which is what CHOOSE needs to name one; of plain numbers the key is
  the number; and a title's dumps share a slug, others' do not (`GroupsApart`), so
  that what is filed of a title is what was kept of it (`FiledIs`, `SetPlanIs`).
  Nothing is assumed of ids, which may meet.
* `ScanStands` (`ScanIsTrue`), for any keys, paths, writers and times.  The invariant
  `ScanInv`: whatever stands below the end of the last window, or of the scan's that is
  under way (`Asked`), was told of, but for the rows committed after their stamp's
  second; nothing above it was; and no write that waits has a stamp from the future.
* `IndexStands` (`IndexIsTrue`), from `IndexerAssumption` and `OneGameAssumption`, which
  are `IndexerProofs`' `Library` of the two libraries, and `InodeAssumption` (0 is no
  inode).  Of the hashes `HashInv`: a version of the bytes that is the payload's no
  longer never is again, so that a row's or a run's hash can only be wrong of a
  version that has gone (`HashSound`), but for the payloads rewritten under their link;
  a link is of one inode for good, and its sidecar of its bytes (`OfTheLink`).

`IndexerProofs`: `RunsStand` (`SweepIsTrue` and `RunSettles`), for any library whose
payloads are each one game's and listed once, in some order (`Library`), any number of
runs of either kind, kills, arrivals, refused and lost requests.  A sweep is true
because of what holds at every step of a clean run of a game that had its bytes when
the run began and since (`Confirms`): the run has it still to come to, as the payload
its link was made from, or has confirmed it, by a write of its own or anybody's that
it counts, or by finding it unchanged, which the touch then turns into a confirmation.
That needs the link of what is about to be published to be the payload's (`InHand`),
which is why no link is ever clobbered.  A run that nothing disturbed is alone, so it
remembers the catalog as it is (`IsAlone`), but for a write of its own that was lost or whose
answer was, after which it sweeps nothing; and whatever it is through with is in its
game's row, with the updates before it and none that is gone (`Settles`): the order, games
before what attaches to them, is what the proof of the updates rests on.

`DownloadProofs`, for any processes, sizes, tries, breaks, kills and replaced
payloads: `FilesAreWhole` (`DownloadIsWhole`), from `Sized` (there is a
first version, versions have sizes, bounds are numbers, the free lock is nobody's),
which the theorem states.  The invariant: the
lock's holder alone is at work, what it staged is one whole version from its
verification to its rename, and the slots count the streams.

`SavesSyncProofs`, for any machines, files, commands, slots and bounds, from
`SyncAssumption` (the lock's names are no slots, and "other", the hand that pushes
from elsewhere, is no machine): `TypeCorrect`, `OneSyncAtATime`, `JournalAlwaysTrue`,
`PlacesOverSynced`, `RestoreStandsFor`, `ConflictsAreReal`, `GenerationsWhole`,
`WatcherSettles`, and, for the configuration the passing runs have, `ApartHolds` and
`OneCommandIsSafe`.  The proof is one invariant on another; each is
preserved by lemmas for the quiet steps, the moves of a command, what ends it, the
faults, and what happens beside it (games, other machines).

* `Fits` and `Grows`: what a command holds of a head is a generation the service has
  had, and a service forgets none.  That gives `JournalIsTrue`, which is not inductive
  because a command reads the head, does much, and writes the journal last.
* `ShapeOK`: which fields of a command mean something at which of its steps.
* `SyncOK`: a sync that found nothing changed here, and is not yet past its first
  file, has under it what some generation holds.  `PlacesOverSynced` is its reading
  at that file.
* `SavesOK`: nothing that is kept, chosen, pushed or put back is empty, so that a
  pull onto nothing is told from a pull over a save.
* `ChoiceOK`: the base of a machine whose save somebody put back is at or past the
  head it was put back over, but between the placing and the journal's write; what
  a command knows of the service is no older; and what a sync pulls is newer.
* `MineOK`: a generation of this machine's own past its base is one that a push
  under way is hearing of.  It needs neither of the hypotheses below.
* `WholeOK`: generations only grow, file by file, and are whole; what is here is no
  older than the base, and whole unless the service has moved past that base, so that
  a push of the half names a parent that is no longer the head.
* `WatchOK`: what the watcher took as pushed is settled, and files only grow from
  there; so is what its last look leaves, if its push came to an end.

The hypotheses are the limits named above, under the runs.  `Apart`: on
a machine one command is at work, and none that moves save files beside a running
game.  `ApartHolds` derives it of `Spec` from `OneCommand`, one slot and no such
command in `OpsOn`; the two passing runs are so, and `OneCommandIsSafe` is the four
properties with that in place of it.  It is a real limit: a launch that gives up on
the lock, as in `sync_unarchived`, is a second command.  `broken = 0`: a sync passes
over an extraction that failed, so `WatcherSettles` is about file operations that
work.  `Undisturbed`: a lost answer makes a conflict with oneself, which is
`sync_lost_reply`, so `ConflictsAreReal` is about histories without lost answers,
killed syncs and pushes by hand.

`PickerProofs`.  Of the loop, for any games and variants: `TypeCorrect`, `StartsAsked`,
`KeptFirst` and `OneWriterAlways`, which hold of the picker's behaviors by `LoopRuns`.
The invariant: of a check, a choice and a loader
at most one is there (`Alone`); what waits was asked for and not backed out of
(`WaitsAsked`); what is chosen was asked for and is settled (`ChosenAsked`); an
install is its game's, and there is none under a self update (`JobsOwn`).
Of the parts beside it, each with an invariant of its own:

* `GridCatchesUp` (`BehindCatchesUp`), for any number of jobs, syncs and questions.
  `BehindInv` says it of a game that is settled before all is quiet: no job of its own
  is going (`Untouched`); an answer that is in, and what is shown where none is
  awaited, is the disk's (`Told`), so that only a question asked since is still open;
  and each version that is remembered of it is the disk's (`Recalled`).  The polls of a
  frame are taken one after another, each keeping `Good`.  `RecentPairs` is what the
  least-recently-used list keeps.
* `PicturesStand` (`PicturesAreWhole`), for any games, workers, kills and launches.
  `ArtInv`: a game is in the queue once and with no worker that has it, or with one
  worker and not in the queue; what a worker is about to name is whole; what is asked
  for, cached or decoded is known as such (`Drawn`, `Decoding`).
* `DriversStand` (`DriversAreTrue`), for any pads, queues, players, deaths of the daemon,
  devices and event names.  `PadsInv`: an event in the queue that says a direction is
  held is true, or another behind it takes it back (`Announced`); so is what is held
  for repeating (`HeldSo`); and unless any pad may drive, all that the queue says of an
  id is of one kind of pad, since an id is used again only when its removal has been
  read (`OneKind`).  `SeatsInv`: what is said last on the wire is what the daemon has
  seated, and nothing follows the end of a wire.  `HushInv`: while the list that was
  read is the kernel's, a name is held just when a controller's keyboard has it; and a
  device that is held under a name has no other (`HeldApart`), so that a descriptor
  that has outlived its device holds nobody else's.  It uses `DeviceAssumption`: of the devices
  that the kernel lists, the ones a shared id or, off Bluetooth, a shared port ties to
  a joystick are of one controller, and a controller's keyboards, other than Valve's,
  are so tied.  Without it a phone that shared a pad's id would be grabbed as the
  code stands, so the property is of machines where ids tell devices apart.
* `ShelfAlwaysStands` (`ShelfStands`) and `StepsAlwaysStand` (`StepsStand`, with the
  loop's `OneWriterStep`), for any library, typed word, keyboard and answers about what is
  here.  `ShelfInv`: every filter is set to what is offered, and a choice in the panel is
  among it; of the games that the filters leave, if there are any, the page that is shown
  has one and the tile is one of its (`Stands`), which `StandsIs` turns from quotients to
  a place before the end of the list; and what the loop believes the disk has, read back,
  is the shelf on screen, and is what the disk has while no save failed (`FileFine`).  The
  file is read back through setters that refuse what they do not know, so that only a
  shelf whose filters are all offered comes back as it was (`ApplyKept`).
  `ListMoves` is the list's step and `ViewStands` the change of shape, which finds the
  game by its place among those left; `FilterKeepsOrder` says which those are and in what
  order.  It uses `ShelfAssumption`: the shapes have tiles (`set_shape` takes at least
  one), the list one to a line (`layout.py` `SHELF_COLUMNS`), the keyboard's last row the
  four named keys (`keyboard.py` `ROWS`).
* `GamesEnd` (`GamesEndWhole`): `KillSwitchProofs`' two theorems, of the picker's
  behaviors.

`KillSwitchProofs`, for any number of games and loads: `StopsWhole` and
`PutsBackAtRest`.  The invariant says that with the wrapper alive the one game is
the last it started, and only until its wait is over (`GamesFollow`), and that a
stop that has ended is not begun again (`StopFollows`).  `StopsWhole` says nothing of
a kill by hand, which misses what was started after its list was read.

Every safety property of the passing runs is a theorem.  Model-checked only: all
liveness and ENABLED, which are outside the prover's reach.  The library's
induction theorems take an operator, which no prover here can instantiate.  Where a proof
needs an induction over data (a sum over sessions, a revision's digits, the best of a
set), `LeastNat`, `EveryNat` and `EveryFinite` say the same of a set, from the least
element of a well-founded relation (`WFMin`), and `SumRest` takes a fold apart with them.

## Not modelled, and why

* **Updates and versions, launcher, configuration and pads of the client**: each
  command reads files, writes one and execs; what matters of a launch (its sync,
  its watcher, what it does on failure) is in `SavesSync`, what the picker makes of
  an update check in `PickerBehind`.  One race is known and left: `json_merge_file`
  (`client/lib/common.sh:389`) reads, merges and replaces without a lock, so that
  of two writers of the journal in one moment one is forgotten; `SavesSync` takes
  it as one step.
* **Session logs on the client**: directories and pids of processes; a pid used
  again would need a model of the kernel's numbering to say anything.
* **Steam and QA commands, gotg-pads, pages, command lines, configuration**: file
  formats, rendering and parsing, with no state of their own.
* **The rest of the kill switch and overlay**: the chords' timing, a counter per
  pad with tests of its own; the menu, seating and rebinding, which are lines to
  danstick; drawing.  To `SavesSync` a stop is `GameStops`.
* **Nix, deployment, install scripts**: descriptions and one-shot scripts.
* **Drawing, layout, pace and display of the picker**: pure functions of a frame.
* **Of modelled parts**: bodies sent in chunks and CORS headers (`Connection`); the
  search's query (`Catalog`); the rewriting of proxied requests (`Upstream`); how a
  title is matched (`Warmer`); how a name is parsed (`Planner`); the download queue
  and recipes (`Download`); the migrations of older schemas (`Tokens`); durability
  of a file's content over a power cut (`SavesStore`: the code does not fsync).

Numbers kept out of the models' reach: a generation is written with six digits and
read back by a pattern of exactly six (`gotg/saves.py:240`), so the millionth push
would be the last one listed; the compare-and-set is on a hash, so a head that went
A, B, A takes a push that descends from the first A (`saves.py:236`), which is as the
protocol means it, since the save is the same.

Known of the picker and not stated as a property: the chip may say "updating" for an
hour after its job ended; an adopted install starts the variant it was begun with
(`plans.py:91`); a failed uninstall never refreshes the badges; a list of installed
games that fails is an empty one (`installed.py`); a grab refused once by name is not
tried again (`hush.py`).

Known of the kill switch and not stated: outside a scope the guarded pid gets its
SIGTERM before the tree is read (`main.rs:339`), so that if it goes at once the
tree is itself and the game is never asked; a game that a pick starts again under a
stop has no grace of its own, and outside a scope may outlive it; and a pick named
between the wrapper's `cat` and its next start is removed with the one before.

## What is left

1. The overlay's menu and what it asks of danstick, from the Rust source, beside
   `PickerSeats`.
