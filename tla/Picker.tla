------------------------------- MODULE Picker -------------------------------
(***************************************************************************)
(* The picker's loop (gotg_ui/app.py run, with plans, screens, menu,       *)
(* prepare, installs, saves_choice, saves_list, storage, chip, restart).   *)
(* A frame hears any number of events, each by the screen that owns the    *)
(* input, and then looks at what its workers and subprocesses have         *)
(* finished; the loop ends after the frame that cleared running.  What a   *)
(* subprocess or a worker answered is read where the code polls it.  A     *)
(* version is chosen and carried as a variant is, and is left out.  The    *)
(* badges' questions, which may land in any frame, are PickerBehind; the   *)
(* shelf under the menu is PickerShelf.                                    *)
(***************************************************************************)
EXTENDS Naturals, FiniteSets

CONSTANTS Game,
          Variants,  \* a game's variants, the game itself among them
          Plain,     \* the variant that is the game itself
          OwnSaves,  \* the <<game, variant>> pairs with saves of their own
          Packaged   \* whether this picker runs from a root of its own (GOTG_UI_SELF)

VARIABLES ui,     \* the locals of run(), and of the objects it holds
          frame   \* where the loop stands

vars == <<ui, frame>>

NoWant == [game |-> "none", verb |-> "none", variant |-> Plain]
NoJob == [what |-> "none", game |-> "none", variant |-> Plain, exit |-> "running"]
NoMenu == [game |-> "none", variant |-> Plain, installed |-> FALSE, installing |-> FALSE,
           outdated |-> FALSE, expanded |-> FALSE]
NoSaves == [game |-> "none", variant |-> Plain, listing |-> "pending", confirming |-> FALSE]

Want(g, verb, v) == [game |-> g, verb |-> verb, variant |-> v]
Preparer(what, g, v) == [NoJob EXCEPT !.what = what, !.game = g, !.variant = v]

Quiet == [running |-> TRUE, chosen |-> NoWant, restart |-> FALSE,
          prep |-> NoJob, failed |-> FALSE, after |-> "none", restoring |-> NoWant,
          installs |-> [g \in Game |-> NoJob],
          checking |-> FALSE, starting |-> NoWant, choice |-> NoWant,
          saves |-> NoSaves, listing |-> FALSE,
          menu |-> NoMenu, panel |-> "closed", typing |-> FALSE, storage |-> "closed",
          chip |-> "quiet",  \* or "updating": of the words it can say, the one that is read
          \* history: what was picked and not backed out of; a conflict that no
          \* keep has settled
          asked |-> {}, torn |-> FALSE]

Init == ui = Quiet /\ frame = "events"

screen_of(u) ==
  IF u.prep # NoJob THEN "prepare"
  ELSE IF u.checking \/ u.choice # NoWant THEN "saves-check"
  ELSE IF u.saves # NoSaves THEN "saves"
  ELSE IF u.storage # "closed" THEN "storage"
  ELSE IF u.menu # NoMenu THEN "menu"
  ELSE IF u.typing THEN "typing"
  ELSE IF u.panel # "closed" THEN "panel" ELSE "grid"

On(screen) == frame = "events" /\ screen_of(ui) = screen /\ UNCHANGED frame

Busy(u) == u.prep # NoJob \/ \E g \in Game : u.installs[g] # NoJob

\* What was asked for and not taken back once the loop has decided something.
Decided(u) == u.asked \cap {u.chosen}

(* plans.py: what a pick, the chip and a root to restart into mean *)

Begin(u, want) ==
  IF want.verb = "play" THEN [u EXCEPT !.starting = want, !.checking = TRUE, !.torn = FALSE]
  ELSE [u EXCEPT !.chosen = want, !.running = FALSE]

plan_pick(u, g, verb, ready) ==
  CASE verb \in {"saves", "storage", "install", "update", "cancel-install"} -> verb
    [] verb \in {"steam-add", "uninstall"} -> "loader"
    [] verb = "play" /\ u.installs[g] # NoJob -> "adopt"
    [] verb \in {"play", "configure"} /\ (verb # "play" \/ u.installs[g] = NoJob) ->
         IF ready THEN "start" ELSE "prepare"

Pick(u, g, verb, v, ready) ==
  LET plan == plan_pick(u, g, verb, ready)
      p == [u EXCEPT !.asked = Decided(u) \cup (IF verb \in {"play", "configure"} THEN {Want(g, verb, v)} ELSE {})]
      run(what) == IF p.installs[g] # NoJob THEN p
                   ELSE [p EXCEPT !.installs[g] = Preparer(what, g, IF what = "install" THEN v ELSE Plain)]
  IN CASE plan = "saves" -> [p EXCEPT !.saves = [NoSaves EXCEPT !.game = g, !.variant = v], !.listing = TRUE]
       [] plan = "storage" -> [p EXCEPT !.storage = "rows"]
       [] plan \in {"install", "update"} -> run(plan)
       [] plan = "cancel-install" -> [p EXCEPT !.installs[g] = NoJob]
       [] plan = "loader" ->
            [p EXCEPT !.prep = Preparer(verb, g, IF verb = "steam-add" THEN v ELSE Plain),
                      !.after = IF verb = "uninstall" THEN verb ELSE "none"]
       [] plan = "adopt" -> [p EXCEPT !.prep = p.installs[g], !.installs[g] = NoJob, !.after = verb]
       [] plan = "start" -> Begin([p EXCEPT !.after = verb], Want(g, verb, v))
       [] plan = "prepare" -> [p EXCEPT !.prep = Preparer("install", g, v), !.after = verb]

plan_restart(u, root, usable) ==
  IF ~Packaged \/ root = "mine" \/ ~usable THEN [u EXCEPT !.chip = "quiet"]
  ELSE [u EXCEPT !.restart = TRUE, !.running = FALSE]

\* What the update check last said of the picker itself.
Reports == {"none", "available"} \cup {x \in {"restart"} : Packaged}

plan_self_update(u, report, usable) ==
  IF u.chip = "updating" \/ report = "none" THEN u
  ELSE IF Busy(u) THEN [u EXCEPT !.chip = "quiet"]
  ELSE IF report = "restart" THEN plan_restart(u, "new", usable)
  ELSE [u EXCEPT !.prep = Preparer("self", "none", Plain), !.after = "self-update",
                 !.failed = FALSE, !.chip = "updating"]

(* the screens *)

OnPrepare == On("prepare") /\ ui' = [ui EXCEPT !.prep = NoJob, !.failed = FALSE, !.asked = Decided(ui)]

BackOfChoice(u) == [u EXCEPT !.choice = NoWant, !.asked = Decided(u)]

BackOut(u) == [u EXCEPT !.checking = FALSE, !.choice = NoWant, !.starting = NoWant, !.asked = Decided(u)]

Keep(u) == [u EXCEPT !.prep = Preparer("keep", u.choice.game, u.choice.variant),
                     !.after = "kept", !.choice = NoWant]

OnSavesCheck ==
  /\ On("saves-check")
  /\ \/ ui' = BackOut(ui)
     \/ ui.choice # NoWant /\ ui' = Keep(ui)

Restore(u) ==
  LET want == Want(u.saves.game, "play", u.saves.variant)
  IN [u EXCEPT !.restoring = want, !.prep = Preparer("restore", want.game, want.variant),
               !.after = "restored", !.saves = NoSaves, !.listing = FALSE,
               !.asked = Decided(u) \cup {want}]

OnSaves ==
  /\ On("saves")
  /\ \/ ui.saves.confirming /\ ui' = [ui EXCEPT !.saves.confirming = FALSE]
     \/ ~ui.saves.confirming /\ ui' = [ui EXCEPT !.saves = NoSaves, !.listing = FALSE]
     \/ ui.saves.listing = "some" /\ ~ui.saves.confirming /\ ui' = [ui EXCEPT !.saves.confirming = TRUE]
     \/ ui.saves.listing = "some" /\ ui.saves.confirming /\ ui' = Restore(ui)

\* make_default, remove and add are the client's, and come back as rows.
OnStorage ==
  /\ On("storage")
  /\ \/ ui.storage = "typing" /\ ui' = [ui EXCEPT !.storage = "rows"]
     \/ ui.storage = "rows" /\ \E s \in {"rows", "typing", "closed"} : ui' = [ui EXCEPT !.storage = s]

\* here, waiting: what the last answer that landed said of this game.
menu_for(u, g, here, waiting) ==
  [NoMenu EXCEPT !.game = g, !.installed = here, !.installing = u.installs[g] # NoJob,
                 !.outdated = here /\ waiting]

Verbs(m) ==
  {"play", "configure", "storage", "steam-add"} \cup
  (IF m.installed
   THEN {"uninstall"} \cup {v \in {"update"} : m.outdated /\ ~m.installing}
                      \cup {v \in {"saves"} : <<m.game, m.variant>> \in OwnSaves}
   ELSE {IF m.installing THEN "cancel-install" ELSE "install"})

\* is_ready asks the client for a game whose environment may be built.
OnMenu ==
  /\ On("menu")
  /\ \/ ui' = [ui EXCEPT !.menu = IF @.expanded THEN [@ EXCEPT !.expanded = FALSE] ELSE NoMenu]
     \/ ~ui.menu.expanded /\ Variants[ui.menu.game] # {Plain} /\ ui' = [ui EXCEPT !.menu.expanded = TRUE]
     \/ /\ ui.menu.expanded
        /\ \E v \in Variants[ui.menu.game] : ui' = [ui EXCEPT !.menu.variant = v, !.menu.expanded = FALSE]
     \/ /\ ~ui.menu.expanded
        /\ \E verb \in Verbs(ui.menu), ready \in BOOLEAN :
             ui' = Pick([ui EXCEPT !.menu = NoMenu], ui.menu.game, verb, ui.menu.variant, ready)

OnPanel ==
  /\ On("panel")
  /\ \/ ui.panel = "list" /\ ui' = [ui EXCEPT !.panel = "open"]
     \/ ui' = [ui EXCEPT !.panel = "closed"]
     \/ ui.panel = "open" /\ ui' = [ui EXCEPT !.panel = "list"]
     \/ ui.panel = "open" /\ ui' = [ui EXCEPT !.typing = TRUE]
     \/ ui.panel = "open" /\ \E said \in Reports, usable \in BOOLEAN :
                                 ui' = plan_self_update([ui EXCEPT !.panel = "closed"], said, usable)

OnTyping == On("typing") /\ ui' = [ui EXCEPT !.typing = FALSE]

OnGrid ==
  /\ On("grid")
  /\ \/ \E g \in Game, here, waiting \in BOOLEAN : ui' = [ui EXCEPT !.menu = menu_for(ui, g, here, waiting)]
     \/ ui' = [ui EXCEPT !.running = FALSE]
     \/ ui' = [ui EXCEPT !.typing = TRUE]
     \/ ui' = [ui EXCEPT !.panel = "open"]
     \/ ui' = [ui EXCEPT !.storage = "rows"]
     \/ \E said \in Reports, usable \in BOOLEAN : ui' = plan_self_update(ui, said, usable)

\* QUIT is heard on every screen; a loader that has not ended is killed.
Quit ==
  /\ frame = "events" /\ UNCHANGED frame
  /\ \E exit \in {"ok", "failed"} :
       ui' = [ui EXCEPT !.running = FALSE,
                        !.prep = IF @ = NoJob THEN @ ELSE [@ EXCEPT !.exit = exit]]

ChipLapses == frame = "events" /\ UNCHANGED frame /\ ui.chip = "updating" /\ ui' = [ui EXCEPT !.chip = "quiet"]

(* the rest of a frame, in its order *)

Polled(u, done) == [u EXCEPT !.installs = [g \in Game |-> IF g \in done THEN NoJob ELSE @[g]]]

LaunchOver(u, found) ==
  [u EXCEPT !.checking = FALSE, !.torn = found = "conflict", !.chosen = u.starting, !.running = FALSE]

plan_saves_answer(u, found) ==
  IF u.starting = NoWant THEN [u EXCEPT !.checking = FALSE]
  ELSE IF found = "conflict"
       THEN [u EXCEPT !.checking = FALSE, !.torn = TRUE, !.choice = u.starting]
       ELSE [u EXCEPT !.checking = FALSE, !.chosen = u.starting, !.running = FALSE]

Listed(u, found) ==
  [u EXCEPT !.listing = FALSE,
            !.saves = IF @ = NoSaves THEN @ ELSE [@ EXCEPT !.listing = found, !.confirming = FALSE]]

on_prepare_done(u, ok, root, usable) ==
  LET c == [u EXCEPT !.prep = NoJob]
  IN CASE ~ok -> [u EXCEPT !.failed = TRUE, !.chip = IF u.after = "self-update" THEN "quiet" ELSE @]
       [] ok /\ u.after \in {"none", "uninstall"} -> c
       [] ok /\ u.after = "self-update" ->
            IF root = "none" THEN [c EXCEPT !.after = "none", !.chip = "quiet"]
            ELSE plan_restart([c EXCEPT !.after = "none"], root, usable)
       [] ok /\ u.after = "restored" -> Begin([c EXCEPT !.restoring = NoWant], u.restoring)
       [] ok /\ u.after = "kept" -> [c EXCEPT !.torn = FALSE, !.chosen = u.starting, !.running = FALSE]
       [] ok /\ u.after \in {"play", "configure"} -> Begin(c, Want(u.prep.game, u.after, u.prep.variant))

Prepared(u) ==
  IF u.prep = NoJob \/ u.failed THEN {u}
  ELSE {on_prepare_done(u, e = "ok", root, usable) :
          e \in {"ok", "failed"} \cap (IF u.prep.exit = "running" THEN {"ok", "failed"} ELSE {u.prep.exit}),
          root \in {"none", "mine", "new"}, usable \in BOOLEAN}
       \cup (IF u.prep.exit = "running" THEN {u} ELSE {})

Answered(u) ==
  IF u.checking THEN {u} \cup {plan_saves_answer(u, found) : found \in {"none", "agree", "conflict"}} ELSE {u}

Loaded(u) == IF u.listing THEN {u} \cup {Listed(u, found) : found \in {"failed", "empty", "some"}} ELSE {u}

EndOfFrame ==
  /\ frame = "events"
  /\ \E done \in SUBSET {g \in Game : ui.installs[g] # NoJob} :
       \E answered \in Answered(Polled(ui, done)) :
         \E loaded \in Loaded(answered) : ui' \in Prepared(loaded)
  /\ frame' = IF ui'.running THEN "events" ELSE "leaving"

\* The loop is over: what run() stops on its way out, and what it returns.
Result(u) == IF u.restart THEN "restart" ELSE u.chosen

Leave ==
  /\ frame = "leaving" /\ frame' = "gone"
  /\ ui' = [ui EXCEPT !.prep = IF ui.chosen = NoWant \/ @.game # ui.chosen.game THEN NoJob ELSE @]

Next == \/ OnPrepare \/ OnSavesCheck \/ OnSaves \/ OnStorage \/ OnMenu \/ OnPanel \/ OnTyping \/ OnGrid
        \/ Quit \/ ChipLapses \/ EndOfFrame \/ Leave

Spec == Init /\ [][Next]_vars

Launched == frame = "gone" /\ ~ui.restart /\ ui.chosen # NoWant

\* What the picker hands to exec is a game and a verb somebody picked (or the
\* save they restored) and did not back out of: no answer of a check, a loader
\* or an adopted install starts anything else (app.py run, plans.py).
PlayIsAskedFor == Launched => \E w \in ui.asked : w.game = ui.chosen.game /\ w.verb = ui.chosen.verb

\* A game whose two saves conflict starts only after one of them was kept: a
\* failed keep, a second question or a late answer starts nothing
\* (plans.py plan_saves_answer, on_prepare_done).
KeptBeforePlayed == Launched /\ ui.chosen.verb = "play" => ~ui.torn

\* The library has one writer: an update of the picker itself begins, and the
\* picker restarts into another, only while nothing is installed behind the
\* grid (plans.py:122-125).
OneWriter ==
  (ui'.prep.what = "self" /\ ui.prep.what # "self") \/ (ui'.restart /\ ~ui.restart)
    => \A g \in Game : ui'.installs[g] = NoJob
=============================================================================
