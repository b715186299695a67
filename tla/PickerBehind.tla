---------------------------- MODULE PickerBehind ----------------------------
(***************************************************************************)
(* What the picker learns behind the grid (gotg_ui/badges.py, updates.py,  *)
(* installed.py, versions.py, recent.py, syncing.py, and the frame's tail  *)
(* in app.py): which games are here is asked of the client on one worker,  *)
(* while installs, an uninstall in the loader and `update --check` change  *)
(* the answer.  The client's disk, and what it says of updates, are its    *)
(* own; what the picker shows of them is modelled.                         *)
(***************************************************************************)
EXTENDS Naturals, FiniteSets, Sequences, SequencesExt

CONSTANTS Game,
          Remembered,  \* Recent's capacity
          MaxJobs,     \* bound on the jobs started
          MaxSyncs     \* bound on the syncs the cadence starts

VARIABLES behind,  \* what run() and its Asker, Installs, Check and Sync hold
          disk     \* [Game -> the installed version], 0 for none

vars == <<behind, disk>>

NoJob == [verb |-> "none", game |-> "none", exit |-> "running"]
NoAnswer == [st |-> "none", here |-> {}, said |-> FALSE, waiting |-> {}]

Quiet == [pending |-> [NoAnswer EXCEPT !.st = "asked"], ahead |-> 0,
          shown |-> {}, outdated |-> {}, started |-> FALSE,
          check |-> "none", sync |-> "none", syncs |-> 0,
          installs |-> [g \in Game |-> NoJob], loader |-> NoJob, jobs |-> 0,
          versions |-> <<>>, open |-> TRUE,
          \* history: the games whose last job ended under the loop's eyes; the
          \* last answer shown was a failure's
          settled |-> Game, blank |-> FALSE]

\* installed_games() answers nothing when the client fails to.
installed_games == {[here |-> {g \in Game : disk[g] > 0}, blank |-> FALSE], [here |-> {}, blank |-> TRUE]}

\* The grid opens on one answer, and asks again behind it.
Init == /\ disk \in [Game -> {0, 1}]
        /\ \E answer \in installed_games : behind = [Quiet EXCEPT !.shown = answer.here]

(* badges.py: one worker, and the latest question is the one that counts *)

refreshOnce(b) ==
  IF b.pending.st \in {"asked", "seen"} THEN b
  ELSE [b EXCEPT !.pending = [NoAnswer EXCEPT !.st = "asked"]]

refresh(b) ==
  [b EXCEPT !.ahead = IF b.pending.st \in {"asked", "seen"} THEN @ + 1 ELSE @,
            !.pending = [NoAnswer EXCEPT !.st = "asked"]]

Drain == /\ behind.ahead > 0
         /\ behind' = [behind EXCEPT !.ahead = @ - 1] /\ UNCHANGED disk

AskInstalled ==
  /\ behind.ahead = 0 /\ behind.pending.st = "asked"
  /\ \E answer \in installed_games :
       behind' = [behind EXCEPT !.pending.st = "seen", !.pending.here = answer.here, !.blank = answer.blank]
  /\ UNCHANGED disk

\* updates.ask: None from a client that fails or is too old; the games it
\* names may no longer be here.
AskUpdates ==
  /\ behind.pending.st = "seen"
  /\ \E said \in BOOLEAN, games \in SUBSET Game :
       behind' = [behind EXCEPT !.pending.st = "answered", !.pending.said = said,
                                !.pending.waiting = IF said THEN games ELSE {}]
  /\ UNCHANGED disk

land(b) ==
  LET answer == b.pending
      starts == ~b.started /\ answer.said
  IN IF answer.st # "answered" THEN b
     ELSE [b EXCEPT !.pending = NoAnswer, !.started = @ \/ starts,
                    !.shown = answer.here, !.outdated = answer.waiting \cap answer.here,
                    !.check = IF starts THEN "running" ELSE @]

(* jobs: installs.py, and the loader *)

Begins(b, g) == [b EXCEPT !.jobs = @ + 1, !.settled = @ \ {g}]

Install(g, verb) ==
  /\ behind.open /\ behind.loader = NoJob /\ behind.jobs < MaxJobs
  /\ behind.installs[g] = NoJob /\ (verb = "update" => g \in behind.outdated)
  /\ behind' = [Begins(behind, g) EXCEPT !.installs[g] = [NoJob EXCEPT !.verb = verb, !.game = g]]
  /\ UNCHANGED disk

\* The loader takes the grid's place: an uninstall, a game that is not ready,
\* an install that Play adopts, the picker's own update.
Load(g, verb) ==
  /\ behind.open /\ behind.loader = NoJob /\ behind.jobs < MaxJobs
  /\ CASE verb = "uninstall" -> g \in behind.shown
       [] verb = "adopt" -> behind.installs[g] # NoJob
       [] verb = "play" -> behind.installs[g] = NoJob
       [] verb = "self" -> \A h \in Game : behind.installs[h] = NoJob
  /\ behind' = [Begins(behind, g) EXCEPT
                  !.loader = IF verb = "adopt" THEN [behind.installs[g] EXCEPT !.verb = "play"]
                             ELSE [NoJob EXCEPT !.verb = verb, !.game = g],
                  !.installs[g] = IF verb = "adopt" THEN NoJob ELSE @,
                  !.settled = IF verb = "self" THEN behind.settled ELSE @]
  /\ UNCHANGED disk

\* A job that is cancelled, or fails, leaves what it had done.
Cancel ==
  /\ behind.open
  /\ \/ behind.loader # NoJob /\ behind' = [behind EXCEPT !.loader = NoJob]
     \/ \E g \in Game : behind.installs[g] # NoJob /\ behind' = [behind EXCEPT !.installs[g] = NoJob]
  /\ UNCHANGED disk

Done(job) ==
  [g \in Game |-> IF g # job.game \/ job.verb = "self" THEN disk[g]
                  ELSE CASE job.verb = "uninstall" -> 0 [] job.verb = "update" -> 2 [] OTHER -> IF disk[g] = 0 THEN 1 ELSE disk[g]]

Ends(job, exit) == exit # "running" /\ disk' \in {Done(job)} \cup {x \in {disk} : exit = "failed"}

JobEnds ==
  \E exit \in {"ok", "failed"} :
    \/ /\ behind.loader # NoJob /\ behind.loader.exit = "running"
       /\ Ends(behind.loader, exit)
       /\ behind' = [behind EXCEPT !.loader.exit = exit]
    \/ \E g \in Game :
         /\ behind.installs[g] # NoJob /\ behind.installs[g].exit = "running"
         /\ Ends(behind.installs[g], exit)
         /\ behind' = [behind EXCEPT !.installs[g].exit = exit]

(* versions.py: what the client said of a game's versions, remembered *)

RecentlyUsed(b, g, version) ==
  LET at == {i \in DOMAIN b.versions : b.versions[i][1] = g}
      kept == IF at = {} THEN b.versions ELSE RemoveAt(b.versions, CHOOSE i \in at : TRUE)
  IN SubSeq(Append(kept, <<g, version>>), 1 + (IF Len(kept) < Remembered THEN 0 ELSE 1), Len(kept) + 1)

\* A client that does not answer is not remembered.
versions_for(g) ==
  /\ behind.open /\ behind.loader = NoJob
  /\ \E pair \in {<<g, disk[g]>>} \cup {behind.versions[i] : i \in DOMAIN behind.versions} :
       /\ pair[1] = g
       /\ pair \in ToSet(behind.versions) \/ \A i \in DOMAIN behind.versions : behind.versions[i][1] # g
       /\ behind' = [behind EXCEPT !.versions = RecentlyUsed(behind, g, pair[2])]
  /\ UNCHANGED disk

forget_versions(b) == [b EXCEPT !.versions = <<>>]

(* the tail of a frame, in its order *)

Settled(b, g) == [b EXCEPT !.settled = IF b.loader.game = g \/ b.installs[g] # NoJob THEN @ ELSE @ \cup {g}]

poll_installs(b) ==
  LET ended == {g \in Game : b.installs[g].exit # "running"}
      well == {g \in ended : b.installs[g].exit = "ok"}
      polled == [b EXCEPT !.installs = [g \in Game |-> IF g \in ended THEN NoJob ELSE @[g]],
                          !.settled = @ \cup {g \in well : b.loader.game # g}]
  IN IF well = {} THEN polled ELSE forget_versions(refresh(polled))

poll_check(b) == IF b.check = "ended" THEN refresh([b EXCEPT !.check = "none"]) ELSE b

poll_sync(b) ==
  IF b.sync = "ended" THEN {[b EXCEPT !.sync = "none"]}
  ELSE {b} \cup {x \in {[b EXCEPT !.sync = "running", !.syncs = @ + 1]} : b.sync = "none" /\ b.syncs < MaxSyncs}

\* A loader that failed stays on screen; one that was for a play starts the
\* game, or comes back to the grid from the choice of a save.
poll_loader(b) ==
  LET clear == [b EXCEPT !.loader = NoJob]
  IN IF b.loader.exit # "ok" THEN {b}
     ELSE CASE b.loader.verb = "uninstall" -> {forget_versions(refresh(Settled(clear, b.loader.game)))}
            [] b.loader.verb = "self" -> {refresh(clear), [clear EXCEPT !.open = FALSE]}
            [] b.loader.verb = "play" -> {clear, [clear EXCEPT !.open = FALSE]}

Frame ==
  /\ behind.open /\ UNCHANGED disk
  /\ \E b \in poll_sync(poll_check(poll_installs(behind))) : behind' \in poll_loader(land(b))

CheckEnds == behind.check = "running" /\ behind' = [behind EXCEPT !.check = "ended"] /\ UNCHANGED disk

SyncEnds == behind.sync = "running" /\ behind' = [behind EXCEPT !.sync = "ended"] /\ UNCHANGED disk

\* The way out: the check is killed; a sync is waited for, for a while, when a
\* game is to start, and killed; the asker's queue is dropped.
Leave ==
  /\ ~behind.open /\ behind.pending.st # "none"
  /\ behind' = [behind EXCEPT !.check = "none", !.sync = "none", !.pending = NoAnswer, !.ahead = 0]
  /\ UNCHANGED disk

Next == \/ Drain \/ AskInstalled \/ AskUpdates \/ JobEnds \/ Cancel \/ Frame \/ CheckEnds \/ SyncEnds \/ Leave
        \/ \E g \in Game : \/ \E verb \in {"install", "update"} : Install(g, verb)
                           \/ \E verb \in {"uninstall", "adopt", "play", "self"} : Load(g, verb)
                           \/ versions_for(g)

Spec == Init /\ [][Next]_vars

\* Once no question is pending, the tiles say what the disk says of every game
\* whose last install or uninstall the loop saw end well, and what is
\* remembered of its versions is what the client would answer now: no answer
\* read before the end is shown or kept after it (badges.py Asker, app.py:910).
BehindCatchesUp ==
  behind.open => \A g \in behind.settled :
    /\ behind.pending.st = "none" /\ ~behind.blank => (g \in behind.shown <=> disk[g] > 0)
    /\ \A i \in DOMAIN behind.versions : behind.versions[i][1] = g => behind.versions[i][2] = disk[g]
=============================================================================
