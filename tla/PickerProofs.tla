----------------------------- MODULE PickerProofs ------------------------------
(***************************************************************************)
(* What the picker promises, for every value of the constants.  First the  *)
(* loop: what it starts was asked for, and a conflict is settled first,    *)
(* for any number of events and jobs; the invariant says of each place     *)
(* where a start may be waiting (a check, a choice, a loader) that it was  *)
(* asked for, and that only one is taken.  Then the parts beside it, each  *)
(* with an invariant of its own, and at the end what they promise of the   *)
(* picker's behaviors.                                                     *)
(***************************************************************************)
EXTENDS PickerParts, Sequences, FiniteSetTheorems, SequenceTheorems, TLAPS

Variant == {Plain} \cup (UNION {Variants[g] : g \in Game})

Start == [game : Game, verb : {"play", "configure"}, variant : Variant]
Wants == {NoWant} \cup Start

Jobs == {NoJob} \cup
  [what : {"install", "update", "steam-add", "uninstall", "keep", "restore", "self"},
   game : Game \cup {"none"}, variant : Variant, exit : {"running", "ok", "failed"}]

Menus == {NoMenu} \cup
  [game : Game, variant : Variant, installed : BOOLEAN, installing : BOOLEAN,
   outdated : BOOLEAN, expanded : BOOLEAN]

SavesLists == {NoSaves} \cup
  [game : Game, variant : Variant, listing : {"pending", "failed", "empty", "some"}, confirming : BOOLEAN]

Ui == [running : BOOLEAN, chosen : Wants, restart : BOOLEAN,
       prep : Jobs, failed : BOOLEAN,
       after : {"none", "uninstall", "self-update", "restored", "kept", "play", "configure"},
       restoring : Wants, installs : [Game -> Jobs],
       checking : BOOLEAN, starting : Wants, choice : Wants,
       saves : SavesLists, listing : BOOLEAN,
       menu : Menus, panel : {"closed", "list", "open"}, typing : BOOLEAN,
       storage : {"closed", "rows", "typing"}, chip : {"quiet", "updating"},
       asked : SUBSET Wants, torn : BOOLEAN]

Asked(u, g, verb) == \E a \in u.asked : a.game = g /\ a.verb = verb

\* The check, the choice and the loader: one of them at a time.
Alone(u) == /\ u.prep # NoJob => ~u.checking /\ u.choice = NoWant
            /\ u.checking => u.choice = NoWant

\* What each of them will start has been asked for.
WaitsAsked(u) ==
  /\ u.checking \/ u.choice # NoWant \/ (u.prep # NoJob /\ u.after = "kept")
       => u.starting.verb = "play" /\ Asked(u, u.starting.game, "play")
  /\ u.prep # NoJob /\ u.after \in {"play", "configure"} => Asked(u, u.prep.game, u.after)
  /\ u.prep # NoJob /\ u.after = "restored"
       => u.restoring.verb = "play" /\ Asked(u, u.restoring.game, "play")

\* The jobs behind the grid: each its game's, and none under a self update.
JobsOwn(u) ==
  /\ \A g \in Game : u.installs[g] # NoJob =>
       u.installs[g].game = g /\ u.installs[g].what \in {"install", "update"}
  /\ u.prep # NoJob /\ (u.after = "self-update" \/ u.prep.what = "self")
       => u.after = "self-update" /\ \A g \in Game : u.installs[g] = NoJob

\* What is chosen was asked for, and a play that is chosen is of settled saves.
ChosenAsked(u) ==
  /\ u.chosen # NoWant => Asked(u, u.chosen.game, u.chosen.verb)
  /\ u.checking \/ u.chosen.verb = "play" => ~u.torn

Sound(u) == u \in Ui /\ Alone(u) /\ WaitsAsked(u) /\ JobsOwn(u) /\ ChosenAsked(u)

\* While events are heard, only a configuration can have been chosen.
Open(u) == u.chosen # NoWant => u.chosen \in u.asked /\ u.chosen.verb # "play"

IInv == /\ Sound(ui) /\ frame \in {"events", "leaving", "gone"}
        /\ frame = "events" => Open(ui)

\* The picker begins to restart only with nothing installing.
RestartsAlone == ui'.restart /\ ~ui.restart => \A g \in Game : ui'.installs[g] = NoJob

\* After an event.
Heard == Sound(ui') /\ Open(ui') /\ frame' = "events" /\ RestartsAlone

-----------------------------------------------------------------------------
(* What the parts of the state can be, and steps aside from all of it *)

LEMMA PlainIsVariant == Plain \in Variant
  BY DEF Variant

LEMMA NoWantIsNone == NoWant \in Wants /\ \A w \in Start : w # NoWant /\ w.verb \in {"play", "configure"}
  BY DEF NoWant, Wants, Start

\* A step that changes nothing of what waits, runs or was asked.
LEMMA Aside ==
  ASSUME NEW u \in Ui, Sound(u), NEW v \in Ui,
         v.chosen = u.chosen, v.prep = u.prep, v.after = u.after, v.restoring = u.restoring,
         v.installs = u.installs, v.checking = u.checking, v.starting = u.starting,
         v.choice = u.choice, v.asked = u.asked, v.torn = u.torn
  PROVE  Sound(v) /\ (Open(u) => Open(v))
  BY DEF Sound, Alone, WaitsAsked, JobsOwn, ChosenAsked, Asked, Open

\* Nothing waits and nothing runs in front: what was asked may be forgotten,
\* but for what is chosen.
LEMMA Idle ==
  ASSUME NEW u \in Ui, Sound(u), Open(u), NEW v \in Ui,
         v.prep = NoJob, ~v.checking, v.choice = NoWant,
         v.chosen = u.chosen, v.torn = u.torn, u.asked \cap {u.chosen} \subseteq v.asked,
         \A g \in Game : v.installs[g] \in {NoJob, u.installs[g]}
  PROVE  Sound(v) /\ Open(v)
<1>1. Alone(v) /\ WaitsAsked(v)
  BY DEF Alone, WaitsAsked
<1>2. JobsOwn(v)
  BY DEF Sound, JobsOwn
<1>3. Open(v)
  BY DEF Open
<1>4. ChosenAsked(v)
  BY <1>3 DEF Sound, ChosenAsked, Open, Asked
<1> QED BY <1>1, <1>2, <1>3, <1>4 DEF Sound

LEMMA BeginType ==
  ASSUME NEW u \in Ui, NEW want \in Start
  PROVE  Begin(u, want) \in Ui
  BY DEF Ui, Begin, Start, Wants

\* A start that was asked for may begin when nothing else is taken.
LEMMA BeginSound ==
  ASSUME NEW u \in Ui, Sound(u), NEW want \in Start,
         u.prep = NoJob, u.choice = NoWant, ~u.checking, Asked(u, want.game, want.verb)
  PROVE  /\ Sound(Begin(u, want))
         /\ Open(u) /\ want \in u.asked => Open(Begin(u, want))
         /\ Open(u) => Open(Begin(u, want)) \/ ~Begin(u, want).running
         /\ ~u.running => ~Begin(u, want).running
         /\ Begin(u, want).installs = u.installs /\ Begin(u, want).prep = NoJob
         /\ Begin(u, want).restart = u.restart
<1>0. Begin(u, want) \in Ui
  BY BeginType
<1>1. CASE want.verb = "play"
  <2>1. Sound(Begin(u, want))
    BY <1>0, <1>1 DEF Sound, Ui, Begin, Start, Wants, Alone, WaitsAsked, JobsOwn, ChosenAsked, Asked, NoWant
  <2>2. Open(u) => Open(Begin(u, want))
    BY <1>1 DEF Ui, Begin, Open
  <2> QED BY <2>1, <2>2, <1>1 DEF Ui, Begin
<1>2. CASE want.verb = "configure"
  <2>1. Sound(Begin(u, want))
    BY <1>0, <1>2 DEF Sound, Ui, Begin, Start, Wants, Alone, WaitsAsked, JobsOwn, ChosenAsked, Asked, NoWant
  <2>2. Begin(u, want).chosen = want /\ Begin(u, want).asked = u.asked /\ ~Begin(u, want).running
    BY <1>2 DEF Ui, Begin
  <2>3. Open(u) /\ want \in u.asked => Open(Begin(u, want))
    BY <2>2, <1>2 DEF Open
  <2> QED BY <2>1, <2>2, <2>3, <1>2 DEF Ui, Begin
<1> QED BY <1>1, <1>2 DEF Start

-----------------------------------------------------------------------------
(* The screens whose events change nothing that waits *)

LEMMA InitIInv == Init => IInv
<1> SUFFICES ASSUME Init PROVE IInv
  OBVIOUS
<1>1. ui \in Ui
  BY DEF Init, Quiet, Ui, Wants, Jobs, Menus, SavesLists
<1>2. ui.prep = NoJob /\ ~ui.checking /\ ui.choice = NoWant /\ ui.chosen = NoWant /\ ~ui.torn
      /\ \A g \in Game : ui.installs[g] = NoJob
  BY DEF Init, Quiet
<1> QED BY <1>1, <1>2 DEF Init, IInv, Sound, Alone, WaitsAsked, JobsOwn, ChosenAsked, Open

\* What an event finds when its screen owns the input.
LEMMA OnScreen ==
  ASSUME IInv, NEW s, On(s)
  PROVE  /\ ui \in Ui /\ Sound(ui) /\ Open(ui) /\ frame = "events" /\ frame' = frame
         /\ s # "prepare" => ui.prep = NoJob
         /\ s \notin {"prepare", "saves-check"} => ~ui.checking /\ ui.choice = NoWant
         /\ s = "prepare" => ui.prep # NoJob /\ ~ui.checking /\ ui.choice = NoWant
         /\ s = "saves" => ui.saves # NoSaves
         /\ s = "menu" => ui.menu # NoMenu
  BY DEF IInv, On, screen_of, Sound, Alone

LEMMA TypingStep ==
  ASSUME IInv, OnTyping
  PROVE  Heard
<1>1. ui \in Ui /\ Sound(ui) /\ Open(ui) /\ frame' = "events"
  BY OnScreen DEF OnTyping
<1>2. ui' = [ui EXCEPT !.typing = FALSE]
  BY DEF OnTyping
<1>3. ui' \in Ui
  BY <1>1, <1>2 DEF Ui
<1> QED BY <1>1, <1>2, <1>3, Aside DEF Ui, Heard, RestartsAlone

LEMMA StorageStep ==
  ASSUME IInv, OnStorage
  PROVE  Heard
<1>1. ui \in Ui /\ Sound(ui) /\ Open(ui) /\ frame' = "events"
  BY OnScreen DEF OnStorage
<1>2. PICK s \in {"rows", "typing", "closed"} : ui' = [ui EXCEPT !.storage = s]
  BY DEF OnStorage
<1>3. ui' \in Ui
  BY <1>1, <1>2 DEF Ui
<1> QED BY <1>1, <1>2, <1>3, Aside DEF Ui, Heard, RestartsAlone

LEMMA ChipStep ==
  ASSUME IInv, ChipLapses
  PROVE  Heard
<1>1. ui \in Ui /\ Sound(ui) /\ Open(ui) /\ frame' = "events" /\ ui' = [ui EXCEPT !.chip = "quiet"]
  BY DEF ChipLapses, IInv, Sound
<1>2. ui' \in Ui
  BY <1>1 DEF Ui
<1> QED BY <1>1, <1>2, Aside DEF Ui, Heard, RestartsAlone

LEMMA QuitStep ==
  ASSUME IInv, Quit
  PROVE  Heard
<1>1. ui \in Ui /\ Sound(ui) /\ Open(ui) /\ frame' = "events"
  BY DEF Quit, IInv, Sound
<1>2. PICK exit \in {"ok", "failed"} :
        ui' = [ui EXCEPT !.running = FALSE,
                         !.prep = IF @ = NoJob THEN @ ELSE [@ EXCEPT !.exit = exit]]
  BY DEF Quit
<1>3. ui.prep # NoJob => /\ [ui.prep EXCEPT !.exit = exit] \in Jobs \ {NoJob}
                         /\ [ui.prep EXCEPT !.exit = exit].game = ui.prep.game
                         /\ [ui.prep EXCEPT !.exit = exit].what = ui.prep.what
  BY <1>1 DEF Ui, Jobs, NoJob
<1>4. ui' \in Ui
  BY <1>1, <1>2, <1>3 DEF Ui
<1>5. /\ ui'.prep = NoJob <=> ui.prep = NoJob
      /\ ui.prep # NoJob => ui'.prep.game = ui.prep.game /\ ui'.prep.what = ui.prep.what
      /\ ui'.chosen = ui.chosen /\ ui'.after = ui.after /\ ui'.restoring = ui.restoring
      /\ ui'.installs = ui.installs /\ ui'.checking = ui.checking /\ ui'.starting = ui.starting
      /\ ui'.choice = ui.choice /\ ui'.asked = ui.asked /\ ui'.torn = ui.torn /\ ui'.restart = ui.restart
  BY <1>1, <1>2, <1>3 DEF Ui
<1> QED BY <1>1, <1>4, <1>5 DEF Heard, RestartsAlone, Sound, Alone, WaitsAsked, JobsOwn, ChosenAsked, Asked, Open

LEMMA PrepareStep ==
  ASSUME IInv, OnPrepare
  PROVE  Heard
<1>1. ui \in Ui /\ Sound(ui) /\ Open(ui) /\ frame' = "events" /\ ~ui.checking /\ ui.choice = NoWant
  BY OnScreen DEF OnPrepare
<1>2. ui' = [ui EXCEPT !.prep = NoJob, !.failed = FALSE, !.asked = ui.asked \cap {ui.chosen}]
  BY DEF OnPrepare, Decided
<1>3. ui' \in Ui
  BY <1>1, <1>2 DEF Ui, Jobs
<1> QED BY <1>1, <1>2, <1>3, Idle DEF Ui, Heard, RestartsAlone

-----------------------------------------------------------------------------
(* The screens of a game's saves *)

LEMMA SavesCheckStep ==
  ASSUME IInv, OnSavesCheck
  PROVE  Heard
<1>1. ui \in Ui /\ Sound(ui) /\ Open(ui) /\ frame' = "events" /\ ui.prep = NoJob
  BY OnScreen DEF OnSavesCheck
<1>2. CASE ui' = BackOut(ui)
  <2>1. ui' \in Ui
    BY <1>1, <1>2 DEF BackOut, Decided, Ui, Wants
  <2> QED BY <1>1, <1>2, <2>1, Idle DEF BackOut, Decided, Ui, Heard, RestartsAlone
<1>3. CASE ui.choice # NoWant /\ ui' = Keep(ui)
  <2> DEFINE job == Preparer("keep", ui.choice.game, ui.choice.variant)
  <2>1. ui.choice \in Start /\ ~ui.checking
    BY <1>1, <1>3 DEF Ui, Wants, Sound, Alone
  <2>2. job \in Jobs /\ job # NoJob /\ job.what = "keep"
    BY <2>1 DEF Preparer, NoJob, Jobs, Start
  <2>3. ui' = [ui EXCEPT !.prep = job, !.after = "kept", !.choice = NoWant]
    BY <1>3 DEF Keep
  <2> HIDE DEF job
  <2>4. ui' \in Ui
    BY <1>1, <2>2, <2>3 DEF Ui, Wants
  <2>5. /\ ui'.prep = job /\ ui'.after = "kept" /\ ui'.choice = NoWant /\ ~ui'.checking
        /\ ui'.chosen = ui.chosen /\ ui'.asked = ui.asked /\ ui'.torn = ui.torn /\ ui'.starting = ui.starting
        /\ ui'.installs = ui.installs /\ ui'.restart = ui.restart
    BY <1>1, <2>1, <2>3 DEF Ui
  <2>6. Alone(ui') /\ WaitsAsked(ui')
    BY <1>1, <1>3, <2>5 DEF Sound, Alone, WaitsAsked, Asked
  <2>7. JobsOwn(ui') /\ ChosenAsked(ui') /\ Open(ui')
    BY <1>1, <2>2, <2>5 DEF Sound, JobsOwn, ChosenAsked, Open, Asked
  <2> QED BY <1>1, <2>4, <2>5, <2>6, <2>7 DEF Heard, RestartsAlone, Sound
<1> QED BY <1>2, <1>3 DEF OnSavesCheck

LEMMA RestoreSound ==
  ASSUME NEW u \in Ui, Sound(u), Open(u), u.saves # NoSaves, u.prep = NoJob, ~u.checking, u.choice = NoWant
  PROVE  Sound(Restore(u)) /\ Open(Restore(u)) /\ Restore(u).restart = u.restart
<1> DEFINE want == Want(u.saves.game, "play", u.saves.variant)
           job == Preparer("restore", want.game, want.variant)
           v == Restore(u)
<1>1. want \in Start /\ want.verb = "play"
  BY DEF Ui, SavesLists, Want, Start
<1>2. job \in Jobs /\ job # NoJob /\ job.what = "restore"
  BY <1>1 DEF Preparer, NoJob, Jobs, Start
<1>3. v = [u EXCEPT !.restoring = want, !.prep = job, !.after = "restored", !.saves = NoSaves,
                    !.listing = FALSE, !.asked = (u.asked \cap {u.chosen}) \cup {want}]
  BY DEF Restore, Decided
<1> HIDE DEF want, job, v
<1>4. v \in Ui
  <2>1. (u.asked \cap {u.chosen}) \cup {want} \in SUBSET Wants
    BY <1>1 DEF Ui, Wants
  <2>2. want \in Wants /\ NoSaves \in SavesLists
    BY <1>1 DEF Wants, SavesLists
  <2> QED BY <1>2, <1>3, <2>1, <2>2 DEF Ui
<1>5. /\ v.prep = job /\ v.after = "restored" /\ v.restoring = want /\ v.choice = NoWant /\ ~v.checking
      /\ v.chosen = u.chosen /\ v.asked = (u.asked \cap {u.chosen}) \cup {want} /\ v.torn = u.torn
      /\ v.installs = u.installs /\ v.restart = u.restart
  BY <1>3 DEF Ui
<1>6. Alone(v) /\ WaitsAsked(v)
  BY <1>1, <1>5 DEF Alone, WaitsAsked, Asked
<1>7. JobsOwn(v)
  BY <1>2, <1>5 DEF Sound, JobsOwn
<1>8. Open(v)
  BY <1>5 DEF Open
<1>9. ChosenAsked(v)
  BY <1>5, <1>8 DEF Sound, ChosenAsked, Open, Asked
<1> QED BY <1>4, <1>5, <1>6, <1>7, <1>8, <1>9 DEF Sound, v

LEMMA SavesStep ==
  ASSUME IInv, OnSaves
  PROVE  Heard
<1>1. ui \in Ui /\ Sound(ui) /\ Open(ui) /\ frame' = "events" /\ ui.saves # NoSaves
      /\ ui.prep = NoJob /\ ~ui.checking /\ ui.choice = NoWant
  BY OnScreen DEF OnSaves
<1>2. CASE \E c \in BOOLEAN : ui' = [ui EXCEPT !.saves.confirming = c]
  <2>1. PICK c \in BOOLEAN : ui' = [ui EXCEPT !.saves = [ui.saves EXCEPT !.confirming = c]]
    BY <1>2 DEF Ui
  <2>2. [ui.saves EXCEPT !.confirming = c] \in SavesLists
    BY <1>1 DEF Ui, SavesLists
  <2>3. ui' \in Ui
    BY <1>1, <2>1, <2>2 DEF Ui
  <2> QED BY <1>1, <2>1, <2>3, Aside DEF Ui, Heard, RestartsAlone
<1>3. CASE ui' = [ui EXCEPT !.saves = NoSaves, !.listing = FALSE]
  <2>1. ui' \in Ui
    BY <1>1, <1>3 DEF Ui, SavesLists
  <2> QED BY <1>1, <1>3, <2>1, Aside DEF Ui, Heard, RestartsAlone
<1>4. CASE ui' = Restore(ui)
  BY <1>1, <1>4, RestoreSound DEF Heard, RestartsAlone
<1> QED BY <1>2, <1>3, <1>4 DEF OnSaves

-----------------------------------------------------------------------------
(* The update of the picker itself, from the panel and the grid *)

LEMMA RestartSound ==
  ASSUME NEW u \in Ui, Sound(u), NEW root, NEW usable \in BOOLEAN
  PROVE  /\ Sound(plan_restart(u, root, usable))
         /\ Open(u) => Open(plan_restart(u, root, usable))
         /\ ~u.running => ~plan_restart(u, root, usable).running
         /\ plan_restart(u, root, usable).installs = u.installs
<1>1. CASE plan_restart(u, root, usable) = [u EXCEPT !.chip = "quiet"]
  <2>1. [u EXCEPT !.chip = "quiet"] \in Ui
    BY DEF Ui
  <2> QED BY <1>1, <2>1, Aside DEF Ui
<1>2. CASE plan_restart(u, root, usable) = [u EXCEPT !.restart = TRUE, !.running = FALSE]
  <2> DEFINE v == plan_restart(u, root, usable)
  <2>1. v \in Ui
    BY <1>2 DEF Ui
  <2>2. /\ v.chosen = u.chosen /\ v.prep = u.prep /\ v.after = u.after /\ v.restoring = u.restoring
        /\ v.installs = u.installs /\ v.checking = u.checking /\ v.starting = u.starting
        /\ v.choice = u.choice /\ v.asked = u.asked /\ v.torn = u.torn /\ ~v.running
    BY <1>2 DEF Ui
  <2> HIDE DEF v
  <2>3. Sound(v) /\ (Open(u) => Open(v))
    BY <2>1, <2>2, Aside
  <2> QED BY <2>2, <2>3 DEF v
<1> QED BY <1>1, <1>2 DEF plan_restart

LEMMA SelfUpdateSound ==
  ASSUME NEW u \in Ui, Sound(u), Open(u), u.prep = NoJob, ~u.checking, u.choice = NoWant,
         NEW report, NEW usable \in BOOLEAN
  PROVE  LET v == plan_self_update(u, report, usable)
         IN Sound(v) /\ Open(v) /\ (v.restart /\ ~u.restart => \A g \in Game : v.installs[g] = NoJob)
<1> DEFINE v == plan_self_update(u, report, usable)
<1>1. CASE v = u
  BY <1>1
<1>2. CASE v = [u EXCEPT !.chip = "quiet"]
  <2>1. v \in Ui
    BY <1>2 DEF Ui
  <2> QED BY <1>2, <2>1, Aside DEF Ui
<1>3. CASE ~Busy(u) /\ v = plan_restart(u, "new", usable)
  BY <1>3, RestartSound DEF Busy
<1>4. CASE /\ ~Busy(u)
           /\ v = [u EXCEPT !.prep = Preparer("self", "none", Plain), !.after = "self-update",
                            !.failed = FALSE, !.chip = "updating"]
  <2> DEFINE job == Preparer("self", "none", Plain)
  <2>1. job \in Jobs /\ job # NoJob /\ job.what = "self"
    BY PlainIsVariant DEF Preparer, NoJob, Jobs
  <2>2. v = [u EXCEPT !.prep = job, !.after = "self-update", !.failed = FALSE, !.chip = "updating"]
    BY <1>4
  <2>3. \A g \in Game : u.installs[g] = NoJob
    BY <1>4 DEF Busy
  <2> HIDE DEF job, v
  <2>4. v \in Ui
    BY <2>1, <2>2 DEF Ui
  <2>5. /\ v.prep = job /\ v.after = "self-update" /\ v.choice = NoWant /\ ~v.checking
        /\ v.chosen = u.chosen /\ v.asked = u.asked /\ v.torn = u.torn
        /\ v.installs = u.installs /\ v.restart = u.restart
    BY <2>2 DEF Ui
  <2>6. Alone(v) /\ WaitsAsked(v) /\ JobsOwn(v)
    BY <2>3, <2>5 DEF Alone, WaitsAsked, JobsOwn
  <2>7. ChosenAsked(v) /\ Open(v)
    BY <2>5 DEF Sound, ChosenAsked, Open, Asked
  <2> QED BY <2>4, <2>5, <2>6, <2>7 DEF Sound, v
<1> QED BY <1>1, <1>2, <1>3, <1>4 DEF plan_self_update

LEMMA PanelStep ==
  ASSUME IInv, OnPanel
  PROVE  Heard
<1>1. ui \in Ui /\ Sound(ui) /\ Open(ui) /\ frame' = "events"
      /\ ui.prep = NoJob /\ ~ui.checking /\ ui.choice = NoWant
  BY OnScreen DEF OnPanel
<1>2. CASE \E p \in {"open", "closed", "list"} : ui' = [ui EXCEPT !.panel = p]
  <2>1. ui' \in Ui
    BY <1>1, <1>2 DEF Ui
  <2> QED BY <1>1, <1>2, <2>1, Aside DEF Ui, Heard, RestartsAlone
<1>3. CASE ui' = [ui EXCEPT !.typing = TRUE]
  <2>1. ui' \in Ui
    BY <1>1, <1>3 DEF Ui
  <2> QED BY <1>1, <1>3, <2>1, Aside DEF Ui, Heard, RestartsAlone
<1>4. CASE \E said \in Reports, usable \in BOOLEAN :
             ui' = plan_self_update([ui EXCEPT !.panel = "closed"], said, usable)
  <2> DEFINE u == [ui EXCEPT !.panel = "closed"]
  <2>1. u \in Ui /\ u.restart = ui.restart /\ u.prep = NoJob /\ ~u.checking /\ u.choice = NoWant
    BY <1>1 DEF Ui
  <2>2. Sound(u) /\ Open(u)
    BY <1>1, <2>1, Aside DEF Ui
  <2>3. PICK said \in Reports, usable \in BOOLEAN : ui' = plan_self_update(u, said, usable)
    BY <1>4
  <2> HIDE DEF u
  <2> QED BY <1>1, <2>1, <2>2, <2>3, SelfUpdateSound DEF Heard, RestartsAlone
<1> QED BY <1>2, <1>3, <1>4 DEF OnPanel

LEMMA GridStep ==
  ASSUME IInv, OnGrid
  PROVE  Heard
<1>1. ui \in Ui /\ Sound(ui) /\ Open(ui) /\ frame' = "events"
      /\ ui.prep = NoJob /\ ~ui.checking /\ ui.choice = NoWant
  BY OnScreen DEF OnGrid
<1>2. CASE \E g \in Game, here, waiting \in BOOLEAN : ui' = [ui EXCEPT !.menu = menu_for(ui, g, here, waiting)]
  <2>1. PICK g \in Game, here, waiting \in BOOLEAN : ui' = [ui EXCEPT !.menu = menu_for(ui, g, here, waiting)]
    BY <1>2
  <2>2. menu_for(ui, g, here, waiting) \in Menus
    BY PlainIsVariant DEF menu_for, NoMenu, Menus
  <2>3. ui' \in Ui
    BY <1>1, <2>1, <2>2 DEF Ui
  <2> QED BY <1>1, <2>1, <2>3, Aside DEF Ui, Heard, RestartsAlone
<1>3. CASE ui' = [ui EXCEPT !.running = FALSE]
  <2>1. ui' \in Ui
    BY <1>1, <1>3 DEF Ui
  <2> QED BY <1>1, <1>3, <2>1, Aside DEF Ui, Heard, RestartsAlone
<1>5. CASE ui' = [ui EXCEPT !.typing = TRUE]
  <2>1. ui' \in Ui
    BY <1>1, <1>5 DEF Ui
  <2> QED BY <1>1, <1>5, <2>1, Aside DEF Ui, Heard, RestartsAlone
<1>6. CASE ui' = [ui EXCEPT !.panel = "open"]
  <2>1. ui' \in Ui
    BY <1>1, <1>6 DEF Ui
  <2> QED BY <1>1, <1>6, <2>1, Aside DEF Ui, Heard, RestartsAlone
<1>7. CASE ui' = [ui EXCEPT !.storage = "rows"]
  <2>1. ui' \in Ui
    BY <1>1, <1>7 DEF Ui
  <2> QED BY <1>1, <1>7, <2>1, Aside DEF Ui, Heard, RestartsAlone
<1>4. CASE \E said \in Reports, usable \in BOOLEAN : ui' = plan_self_update(ui, said, usable)
  BY <1>1, <1>4, SelfUpdateSound DEF Heard, RestartsAlone
<1> QED BY <1>2, <1>3, <1>4, <1>5, <1>6, <1>7 DEF OnGrid

-----------------------------------------------------------------------------
(* A pick from the menu *)

Picks == {"play", "configure", "storage", "steam-add", "uninstall", "update", "saves", "cancel-install", "install"}

\* What is asked by a pick replaces what was.
LEMMA PickAsks ==
  ASSUME NEW u \in Ui, Sound(u), Open(u), u.prep = NoJob, ~u.checking, u.choice = NoWant,
         NEW new \in SUBSET Start
  PROVE  LET p == [u EXCEPT !.asked = Decided(u) \cup new]
         IN /\ p \in Ui /\ Sound(p) /\ Open(p) /\ p.asked = Decided(u) \cup new
            /\ p.prep = NoJob /\ ~p.checking /\ p.choice = NoWant
            /\ p.restart = u.restart /\ p.installs = u.installs
<1> DEFINE p == [u EXCEPT !.asked = Decided(u) \cup new]
<1>1. Decided(u) \cup new \in SUBSET Wants
  BY DEF Ui, Wants, Decided
<1>2. p \in Ui
  BY <1>1 DEF Ui
<1>3. /\ p.asked = Decided(u) \cup new /\ p.prep = NoJob /\ ~p.checking /\ p.choice = NoWant
      /\ p.restart = u.restart /\ p.installs = u.installs /\ p.chosen = u.chosen /\ p.torn = u.torn
  BY DEF Ui
<1> HIDE DEF p
<1>4. Sound(p) /\ Open(p)
  BY <1>2, <1>3, Idle DEF Decided
<1> QED BY <1>2, <1>3, <1>4 DEF p

\* A loader takes the front: what it will start was asked for.
LEMMA LoaderSound ==
  ASSUME NEW p \in Ui, Sound(p), Open(p), ~p.checking, p.choice = NoWant,
         NEW v \in Ui, v.prep # NoJob, v.prep.what # "self",
         v.after \in {"none", "uninstall"} \/ (v.after \in {"play", "configure"} /\ Asked(p, v.prep.game, v.after)),
         v.choice = NoWant, ~v.checking, v.chosen = p.chosen, v.asked = p.asked, v.torn = p.torn,
         \A g \in Game : v.installs[g] \in {NoJob, p.installs[g]}
  PROVE  Sound(v) /\ Open(v)
<1>1. Alone(v) /\ WaitsAsked(v)
  BY DEF Alone, WaitsAsked, Asked
<1>2. JobsOwn(v)
  BY DEF Sound, JobsOwn
<1>3. ChosenAsked(v) /\ Open(v)
  BY DEF Sound, ChosenAsked, Open, Asked
<1> QED BY <1>1, <1>2, <1>3 DEF Sound

\* An install begins behind the grid, or is cancelled.
LEMMA InstallSound ==
  ASSUME NEW p \in Ui, Sound(p), Open(p), p.prep = NoJob, ~p.checking, p.choice = NoWant,
         NEW g \in Game, NEW job \in Jobs,
         job = NoJob \/ (job.game = g /\ job.what \in {"install", "update"})
  PROVE  LET v == [p EXCEPT !.installs[g] = job]
         IN Sound(v) /\ Open(v) /\ v.restart = p.restart
<1> DEFINE v == [p EXCEPT !.installs[g] = job]
<1>1. v = [p EXCEPT !.installs = [p.installs EXCEPT ![g] = job]] /\ p.installs \in [Game -> Jobs]
  BY DEF Ui
<1>2. v \in Ui
  BY <1>1 DEF Ui
<1>3. /\ v.prep = NoJob /\ ~v.checking /\ v.choice = NoWant /\ v.restart = p.restart
      /\ v.chosen = p.chosen /\ v.asked = p.asked /\ v.torn = p.torn
      /\ v.installs = [p.installs EXCEPT ![g] = job]
  BY <1>1 DEF Ui
<1> HIDE DEF v
<1>4. Alone(v) /\ WaitsAsked(v)
  BY <1>3 DEF Alone, WaitsAsked
<1>5. JobsOwn(v)
  BY <1>1, <1>3 DEF Sound, JobsOwn
<1>6. ChosenAsked(v) /\ Open(v)
  BY <1>3 DEF Sound, ChosenAsked, Open, Asked
<1> QED BY <1>2, <1>3, <1>4, <1>5, <1>6 DEF Sound, v

LEMMA PickSound ==
  ASSUME NEW u \in Ui, Sound(u), Open(u), u.prep = NoJob, ~u.checking, u.choice = NoWant,
         NEW g \in Game, NEW verb \in Picks, NEW variant \in Variant, NEW prepared \in BOOLEAN
  PROVE  LET v == Pick(u, g, verb, variant, prepared)
         IN Sound(v) /\ Open(v) /\ v.restart = u.restart
<1> DEFINE want == Want(g, verb, variant)
           new == IF verb \in {"play", "configure"} THEN {want} ELSE {}
           p == [u EXCEPT !.asked = Decided(u) \cup new]
           v == Pick(u, g, verb, variant, prepared)
           plan == plan_pick(u, g, verb, prepared)
<1>1. verb \in {"play", "configure"} => want \in Start /\ want.game = g /\ want.verb = verb
  BY DEF Want, Start
<1>2. new \in SUBSET Start
  BY <1>1
<1>3. /\ p \in Ui /\ Sound(p) /\ Open(p) /\ p.asked = Decided(u) \cup new
      /\ p.prep = NoJob /\ ~p.checking /\ p.choice = NoWant
      /\ p.restart = u.restart /\ p.installs = u.installs
  BY <1>2, PickAsks
<1>4. verb \in {"play", "configure"} => want \in p.asked /\ Asked(p, g, verb)
  BY <1>1, <1>3 DEF Asked
<1>5. \A what \in {"install", "update", "steam-add", "uninstall"}, w \in Variant :
        /\ Preparer(what, g, w) \in Jobs /\ Preparer(what, g, w) # NoJob
        /\ Preparer(what, g, w).game = g /\ Preparer(what, g, w).what = what
  BY DEF Preparer, NoJob, Jobs
<1>6. CASE verb = "saves"
  <2>1. v = [p EXCEPT !.saves = [NoSaves EXCEPT !.game = g, !.variant = variant], !.listing = TRUE]
    BY <1>6 DEF Pick, plan_pick
  <2>2. [NoSaves EXCEPT !.game = g, !.variant = variant] \in SavesLists
    BY DEF NoSaves, SavesLists
  <2> HIDE DEF p, v
  <2>3. v \in Ui
    BY <1>3, <2>1, <2>2 DEF Ui
  <2>4. /\ v.chosen = p.chosen /\ v.prep = p.prep /\ v.after = p.after /\ v.restoring = p.restoring
        /\ v.installs = p.installs /\ v.checking = p.checking /\ v.starting = p.starting
        /\ v.choice = p.choice /\ v.asked = p.asked /\ v.torn = p.torn /\ v.restart = p.restart
    BY <1>3, <2>1 DEF Ui
  <2> QED BY <1>3, <2>3, <2>4, Aside DEF v
<1>7. CASE verb = "storage"
  <2>1. v = [p EXCEPT !.storage = "rows"]
    BY <1>7 DEF Pick, plan_pick
  <2> HIDE DEF p, v
  <2>2. v \in Ui
    BY <1>3, <2>1 DEF Ui
  <2> QED BY <1>3, <2>1, <2>2, Aside DEF Ui, v
<1>8. CASE verb \in {"install", "update"}
  <2> DEFINE job == Preparer(verb, g, IF verb = "install" THEN variant ELSE Plain)
  <2>1. v = IF p.installs[g] # NoJob THEN p ELSE [p EXCEPT !.installs[g] = job]
    BY <1>8 DEF Pick, plan_pick
  <2>2. job \in Jobs /\ job.game = g /\ job.what \in {"install", "update"}
    BY <1>5, <1>8, PlainIsVariant
  <2> HIDE DEF p, v, job
  <2> QED BY <1>3, <2>1, <2>2, InstallSound DEF v
<1>9. CASE verb = "cancel-install"
  <2>1. v = [p EXCEPT !.installs[g] = NoJob]
    BY <1>9 DEF Pick, plan_pick
  <2>2. NoJob \in Jobs
    BY DEF Jobs
  <2> HIDE DEF p, v
  <2> QED BY <1>3, <2>1, <2>2, InstallSound DEF v
<1>10. CASE verb \in {"steam-add", "uninstall"}
  <2> DEFINE job == Preparer(verb, g, IF verb = "steam-add" THEN variant ELSE Plain)
             after == IF verb = "uninstall" THEN verb ELSE "none"
  <2>1. v = [p EXCEPT !.prep = job, !.after = after]
    BY <1>10 DEF Pick, plan_pick
  <2>2. job \in Jobs /\ job # NoJob /\ job.what # "self" /\ after \in {"none", "uninstall"}
    BY <1>5, <1>10, PlainIsVariant
  <2> HIDE DEF p, v, job, after
  <2>3. v \in Ui
    BY <1>3, <2>1, <2>2 DEF Ui
  <2>4. /\ v.prep = job /\ v.after = after /\ v.choice = NoWant /\ ~v.checking /\ v.chosen = p.chosen
        /\ v.asked = p.asked /\ v.torn = p.torn /\ v.installs = p.installs /\ v.restart = p.restart
    BY <1>3, <2>1 DEF Ui
  <2> QED BY <1>3, <2>2, <2>3, <2>4, LoaderSound DEF v
<1>11. CASE verb = "play" /\ u.installs[g] # NoJob
  <2>1. v = [p EXCEPT !.prep = p.installs[g], !.installs[g] = NoJob, !.after = "play"]
    BY <1>11 DEF Pick, plan_pick
  <2>2. /\ p.installs[g] \in Jobs /\ p.installs[g] # NoJob /\ p.installs[g].game = g
        /\ p.installs[g].what # "self"
    BY <1>3, <1>11 DEF Ui, Sound, JobsOwn
  <2> HIDE DEF p, v
  <2>3. v = [p EXCEPT !.prep = p.installs[g], !.installs = [p.installs EXCEPT ![g] = NoJob], !.after = "play"]
    BY <1>3, <2>1 DEF Ui
  <2>4. [p.installs EXCEPT ![g] = NoJob] \in [Game -> Jobs]
    BY <1>3 DEF Ui, Jobs
  <2>5. v \in Ui
    BY <1>3, <2>2, <2>3, <2>4 DEF Ui
  <2>6. /\ v.prep = p.installs[g] /\ v.after = "play" /\ v.choice = NoWant /\ ~v.checking /\ v.chosen = p.chosen
        /\ v.asked = p.asked /\ v.torn = p.torn /\ v.installs = [p.installs EXCEPT ![g] = NoJob]
        /\ v.restart = p.restart
    BY <1>3, <2>3 DEF Ui
  <2>7. \A h \in Game : v.installs[h] \in {NoJob, p.installs[h]}
    BY <1>3, <2>6 DEF Ui
  <2> QED BY <1>3, <1>4, <1>11, <2>2, <2>5, <2>6, <2>7, LoaderSound DEF v
<1>12. CASE verb \in {"play", "configure"} /\ plan = "start"
  <2> DEFINE q == [p EXCEPT !.after = verb]
  <2>1. v = Begin(q, want)
    BY <1>12 DEF Pick
  <2> HIDE DEF p, v, want
  <2>2. q \in Ui
    BY <1>3, <1>12 DEF Ui
  <2>3. /\ q.prep = NoJob /\ ~q.checking /\ q.choice = NoWant /\ q.restart = p.restart
        /\ q.asked = p.asked /\ q.chosen = p.chosen /\ q.torn = p.torn /\ q.installs = p.installs
    BY <1>3 DEF Ui
  <2>4. Sound(q) /\ Open(q)
    BY <1>3, <2>2, <2>3, Idle
  <2>5. want \in q.asked /\ Asked(q, want.game, want.verb) /\ want \in Start
    BY <1>1, <1>4, <1>12, <2>3 DEF Asked
  <2> HIDE DEF q
  <2> QED BY <1>3, <2>1, <2>2, <2>3, <2>4, <2>5, BeginSound DEF v
<1>13. CASE verb \in {"play", "configure"} /\ plan = "prepare"
  <2> DEFINE job == Preparer("install", g, variant)
  <2>1. v = [p EXCEPT !.prep = job, !.after = verb]
    BY <1>13 DEF Pick
  <2>2. job \in Jobs /\ job # NoJob /\ job.what # "self" /\ job.game = g
    BY <1>5
  <2> HIDE DEF p, v, job
  <2>3. v \in Ui
    BY <1>3, <1>13, <2>1, <2>2 DEF Ui
  <2>4. /\ v.prep = job /\ v.after = verb /\ v.choice = NoWant /\ ~v.checking /\ v.chosen = p.chosen
        /\ v.asked = p.asked /\ v.torn = p.torn /\ v.installs = p.installs /\ v.restart = p.restart
    BY <1>3, <2>1 DEF Ui
  <2> QED BY <1>3, <1>4, <1>13, <2>2, <2>3, <2>4, LoaderSound DEF v
<1>14. verb \in {"play", "configure"} => (verb = "play" /\ u.installs[g] # NoJob) \/ plan = "start" \/ plan = "prepare"
  BY DEF plan_pick
<1> QED BY <1>6, <1>7, <1>8, <1>9, <1>10, <1>11, <1>12, <1>13, <1>14 DEF Picks

LEMMA MenuStep ==
  ASSUME IInv, OnMenu
  PROVE  Heard
<1>1. ui \in Ui /\ Sound(ui) /\ Open(ui) /\ frame' = "events" /\ ui.menu # NoMenu
      /\ ui.prep = NoJob /\ ~ui.checking /\ ui.choice = NoWant
  <2>1. On("menu")
    BY DEF OnMenu
  <2>2. /\ frame = "events" /\ frame' = frame /\ ui.prep = NoJob /\ ~ui.checking /\ ui.choice = NoWant
        /\ ui.menu # NoMenu
    BY <2>1 DEF On, screen_of
  <2> QED BY <2>2 DEF IInv, Sound
<1>2. ui.menu.game \in Game /\ ui.menu.variant \in Variant
  BY <1>1 DEF Ui, Menus
<1>3. CASE \E m \in Menus : ui' = [ui EXCEPT !.menu = m]
  <2>1. ui' \in Ui
    BY <1>1, <1>3 DEF Ui
  <2> QED BY <1>1, <1>3, <2>1, Aside DEF Ui, Heard, RestartsAlone
<1>4. CASE ui' = [ui EXCEPT !.menu = IF @.expanded THEN [@ EXCEPT !.expanded = FALSE] ELSE NoMenu]
  <2>1. (IF ui.menu.expanded THEN [ui.menu EXCEPT !.expanded = FALSE] ELSE NoMenu) \in Menus
    BY <1>1 DEF Ui, Menus
  <2> QED BY <1>3, <1>4, <2>1
<1>5. CASE ui' = [ui EXCEPT !.menu.expanded = TRUE]
  <2>1. [ui.menu EXCEPT !.expanded = TRUE] \in Menus
    BY <1>1 DEF Ui, Menus
  <2>2. ui' = [ui EXCEPT !.menu = [ui.menu EXCEPT !.expanded = TRUE]]
    BY <1>1, <1>5 DEF Ui
  <2> QED BY <1>3, <2>1, <2>2
<1>6. CASE \E w \in Variants[ui.menu.game] : ui' = [ui EXCEPT !.menu.variant = w, !.menu.expanded = FALSE]
  <2>1. PICK w \in Variants[ui.menu.game] : ui' = [ui EXCEPT !.menu.variant = w, !.menu.expanded = FALSE]
    BY <1>6
  <2>2. w \in Variant
    BY <1>2, <2>1 DEF Variant
  <2>3. [ui.menu EXCEPT !.variant = w, !.expanded = FALSE] \in Menus
    BY <1>1, <2>2 DEF Ui, Menus
  <2>4. ui' = [ui EXCEPT !.menu = [ui.menu EXCEPT !.variant = w, !.expanded = FALSE]]
    BY <1>1, <2>1 DEF Ui
  <2> QED BY <1>3, <2>3, <2>4
<1>7. CASE \E verb \in Verbs(ui.menu), prepared \in BOOLEAN :
             ui' = Pick([ui EXCEPT !.menu = NoMenu], ui.menu.game, verb, ui.menu.variant, prepared)
  <2> DEFINE u == [ui EXCEPT !.menu = NoMenu]
  <2>1. u \in Ui /\ u.restart = ui.restart /\ u.prep = NoJob /\ ~u.checking /\ u.choice = NoWant
    BY <1>1 DEF Ui, Menus
  <2>2. Sound(u) /\ Open(u)
    BY <1>1, <2>1, Aside DEF Ui
  <2>3. PICK verb \in Verbs(ui.menu), prepared \in BOOLEAN :
          ui' = Pick(u, ui.menu.game, verb, ui.menu.variant, prepared)
    BY <1>7
  <2>4. verb \in Picks
    BY <2>3 DEF Verbs, Picks
  <2> HIDE DEF u
  <2> QED BY <1>1, <1>2, <2>1, <2>2, <2>3, <2>4, PickSound DEF Heard, RestartsAlone
<1> QED BY <1>4, <1>5, <1>6, <1>7 DEF OnMenu

-----------------------------------------------------------------------------
(* The rest of a frame *)

\* No longer hearing events, or with nothing but a configuration chosen.
Settled(u) == Open(u) \/ ~u.running

LEMMA PolledSound ==
  ASSUME NEW u \in Ui, Sound(u), Open(u), NEW done
  PROVE  /\ Polled(u, done) \in Ui /\ Sound(Polled(u, done)) /\ Open(Polled(u, done))
         /\ Polled(u, done).restart = u.restart /\ Polled(u, done).prep = u.prep
<1> DEFINE v == Polled(u, done)
<1>1. v = [u EXCEPT !.installs = [g \in Game |-> IF g \in done THEN NoJob ELSE u.installs[g]]]
  BY DEF Polled
<1>2. [g \in Game |-> IF g \in done THEN NoJob ELSE u.installs[g]] \in [Game -> Jobs]
  BY DEF Ui, Jobs
<1> HIDE DEF v
<1>3. v \in Ui
  BY <1>1, <1>2 DEF Ui
<1>4. /\ v.chosen = u.chosen /\ v.prep = u.prep /\ v.after = u.after /\ v.restoring = u.restoring
      /\ v.checking = u.checking /\ v.starting = u.starting /\ v.choice = u.choice
      /\ v.asked = u.asked /\ v.torn = u.torn /\ v.restart = u.restart
      /\ v.installs = [g \in Game |-> IF g \in done THEN NoJob ELSE u.installs[g]]
  BY <1>1 DEF Ui
<1>5. Alone(v) /\ WaitsAsked(v)
  BY <1>4 DEF Sound, Alone, WaitsAsked, Asked
<1>6. JobsOwn(v)
  BY <1>4 DEF Sound, JobsOwn
<1>7. ChosenAsked(v) /\ Open(v)
  BY <1>4 DEF Sound, ChosenAsked, Open, Asked
<1> QED BY <1>3, <1>4, <1>5, <1>6, <1>7 DEF Sound, v

\* The check's answer starts what it was asked about, or asks which save to
\* keep; it never comes while a loader runs.
LEMMA AnsweredSound ==
  ASSUME NEW u \in Ui, Sound(u), Open(u), NEW a \in Answered(u)
  PROVE  /\ a \in Ui /\ Sound(a) /\ Settled(a) /\ a.restart = u.restart
         /\ u.prep # NoJob => a = u
         /\ a.prep = u.prep
<1>1. CASE a = u
  BY <1>1 DEF Settled
<1>2. CASE u.checking /\ \E found \in {"none", "agree", "conflict"} : a = plan_saves_answer(u, found)
  <2>1. PICK found \in {"none", "agree", "conflict"} : a = plan_saves_answer(u, found)
    BY <1>2
  <2>2. u.prep = NoJob /\ u.choice = NoWant /\ ~u.torn /\ Asked(u, u.starting.game, "play")
        /\ u.starting.verb = "play"
    BY <1>2 DEF Sound, Alone, WaitsAsked, ChosenAsked
  <2>3. u.starting # NoWant
    BY <2>2 DEF NoWant
  <2>4. CASE a = [u EXCEPT !.checking = FALSE, !.torn = TRUE, !.choice = u.starting]
    <3>1. a \in Ui
      BY <2>4 DEF Ui
    <3>2. /\ a.chosen = u.chosen /\ a.prep = NoJob /\ a.installs = u.installs /\ ~a.checking
          /\ a.starting = u.starting /\ a.choice = u.starting /\ a.asked = u.asked /\ a.restart = u.restart
      BY <2>2, <2>4 DEF Ui
    <3>3. Alone(a) /\ WaitsAsked(a) /\ JobsOwn(a)
      BY <2>2, <3>2 DEF Sound, Alone, WaitsAsked, JobsOwn, Asked
    <3>4. Open(a)
      BY <3>2 DEF Open
    <3>5. ChosenAsked(a)
      BY <3>2, <3>4 DEF Sound, ChosenAsked, Asked, Open, NoWant
    <3> QED BY <2>2, <3>1, <3>2, <3>3, <3>4, <3>5 DEF Sound, Settled
  <2>5. CASE a = [u EXCEPT !.checking = FALSE, !.chosen = u.starting, !.running = FALSE]
    <3>1. a \in Ui
      BY <2>5 DEF Ui
    <3>2. /\ a.chosen = u.starting /\ a.prep = NoJob /\ a.installs = u.installs /\ ~a.checking
          /\ a.choice = NoWant /\ a.asked = u.asked /\ a.restart = u.restart /\ ~a.running /\ a.torn = u.torn
      BY <2>2, <2>5 DEF Ui
    <3>3. Alone(a) /\ WaitsAsked(a) /\ JobsOwn(a)
      BY <3>2 DEF Sound, Alone, WaitsAsked, JobsOwn
    <3>4. ChosenAsked(a)
      BY <2>2, <3>2 DEF ChosenAsked, Asked
    <3> QED BY <2>2, <3>1, <3>2, <3>3, <3>4 DEF Sound, Settled
  <2> QED BY <2>1, <2>3, <2>4, <2>5 DEF plan_saves_answer
<1> QED BY <1>1, <1>2 DEF Answered

LEMMA LoadedSound ==
  ASSUME NEW u \in Ui, Sound(u), NEW r \in Loaded(u)
  PROVE  /\ r \in Ui /\ Sound(r) /\ (Open(u) => Open(r)) /\ (Settled(u) => Settled(r))
         /\ r.restart = u.restart /\ r.prep = u.prep
<1>1. CASE r = u
  BY <1>1
<1>2. CASE \E found \in {"failed", "empty", "some"} : r = Listed(u, found)
  <2>1. PICK found \in {"failed", "empty", "some"} : r = Listed(u, found)
    BY <1>2
  <2> DEFINE rows == IF u.saves = NoSaves THEN u.saves
                     ELSE [u.saves EXCEPT !.listing = found, !.confirming = FALSE]
  <2>2. r = [u EXCEPT !.listing = FALSE, !.saves = rows]
    BY <2>1 DEF Listed
  <2>3. rows \in SavesLists
    BY DEF Ui, SavesLists
  <2> HIDE DEF rows
  <2>4. r \in Ui
    BY <2>2, <2>3 DEF Ui
  <2>5. /\ r.chosen = u.chosen /\ r.prep = u.prep /\ r.after = u.after /\ r.restoring = u.restoring
        /\ r.installs = u.installs /\ r.checking = u.checking /\ r.starting = u.starting
        /\ r.choice = u.choice /\ r.asked = u.asked /\ r.torn = u.torn /\ r.restart = u.restart
        /\ r.running = u.running
    BY <2>2 DEF Ui
  <2>6. Sound(r) /\ (Open(u) => Open(r))
    BY <2>4, <2>5, Aside
  <2> QED BY <2>4, <2>5, <2>6 DEF Settled
<1> QED BY <1>1, <1>2 DEF Loaded

\* A loader that ended starts only what it was prepared for.
LEMMA DoneSound ==
  ASSUME NEW u \in Ui, Sound(u), Open(u), u.prep # NoJob,
         NEW ok \in BOOLEAN, NEW root, NEW usable \in BOOLEAN
  PROVE  LET r == on_prepare_done(u, ok, root, usable)
         IN /\ Sound(r) /\ Settled(r)
            /\ r.restart /\ ~u.restart => \A g \in Game : r.installs[g] = NoJob
<1> DEFINE c == [u EXCEPT !.prep = NoJob]
           r == on_prepare_done(u, ok, root, usable)
<1>1. /\ c \in Ui /\ c.prep = NoJob /\ ~c.checking /\ c.choice = NoWant /\ c.chosen = u.chosen
      /\ c.torn = u.torn /\ c.asked = u.asked /\ c.installs = u.installs /\ c.restart = u.restart
  BY DEF Ui, Jobs, Sound, Alone
<1> HIDE DEF c
<1>2. Sound(c) /\ Open(c)
  BY <1>1, Idle
<1>3. CASE ~ok
  <2>1. PICK chip \in {"quiet", u.chip} : r = [u EXCEPT !.failed = TRUE, !.chip = chip]
    BY <1>3 DEF on_prepare_done
  <2> HIDE DEF r
  <2>2. r \in Ui
    BY <2>1 DEF Ui
  <2>3. /\ r.chosen = u.chosen /\ r.prep = u.prep /\ r.after = u.after /\ r.restoring = u.restoring
        /\ r.installs = u.installs /\ r.checking = u.checking /\ r.starting = u.starting
        /\ r.choice = u.choice /\ r.asked = u.asked /\ r.torn = u.torn /\ r.restart = u.restart
    BY <2>1 DEF Ui
  <2>4. Sound(r) /\ Open(r)
    BY <2>2, <2>3, Aside
  <2> QED BY <2>3, <2>4 DEF Settled, r
<1>4. CASE ok /\ u.after \in {"none", "uninstall"}
  <2>1. r = c
    BY <1>4 DEF on_prepare_done, c
  <2> QED BY <1>1, <1>2, <2>1 DEF Settled
<1>5. CASE ok /\ u.after = "self-update"
  <2> DEFINE d == [c EXCEPT !.after = "none"]
             q == [c EXCEPT !.after = "none", !.chip = "quiet"]
  <2>1. \A g \in Game : u.installs[g] = NoJob
    BY <1>5 DEF Sound, JobsOwn
  <2>2. /\ d \in Ui /\ d.prep = NoJob /\ ~d.checking /\ d.choice = NoWant /\ d.chosen = c.chosen
        /\ d.torn = c.torn /\ d.asked = c.asked /\ d.installs = c.installs /\ d.restart = c.restart
    BY <1>1 DEF Ui
  <2>3. /\ q \in Ui /\ q.prep = NoJob /\ ~q.checking /\ q.choice = NoWant /\ q.chosen = c.chosen
        /\ q.torn = c.torn /\ q.asked = c.asked /\ q.installs = c.installs /\ q.restart = c.restart
    BY <1>1 DEF Ui
  <2>4. r = q \/ r = plan_restart(d, root, usable)
    BY <1>5 DEF on_prepare_done, c
  <2> HIDE DEF d, q, r
  <2>5. Sound(d) /\ Open(d) /\ Sound(q) /\ Open(q)
    BY <1>1, <1>2, <2>2, <2>3, Idle
  <2>6. Sound(r) /\ Open(r) /\ r.installs = u.installs
    BY <1>1, <2>2, <2>3, <2>4, <2>5, RestartSound
  <2> QED BY <2>1, <2>6 DEF Settled, r
<1>6. CASE ok /\ u.after = "restored"
  <2> DEFINE d == [c EXCEPT !.restoring = NoWant]
  <2>1. u.restoring \in Start /\ u.restoring.verb = "play" /\ Asked(u, u.restoring.game, u.restoring.verb)
    BY <1>6 DEF Sound, WaitsAsked, Ui, Wants, NoWant
  <2>2. /\ d \in Ui /\ d.prep = NoJob /\ ~d.checking /\ d.choice = NoWant /\ d.chosen = c.chosen
        /\ d.torn = c.torn /\ d.asked = c.asked /\ d.installs = c.installs /\ d.restart = c.restart
    BY <1>1 DEF Ui, Wants
  <2>3. r = Begin(d, u.restoring)
    BY <1>6 DEF on_prepare_done, c
  <2> HIDE DEF d, r
  <2>4. Sound(d) /\ Open(d) /\ Asked(d, u.restoring.game, u.restoring.verb)
    BY <1>1, <1>2, <2>1, <2>2, Idle DEF Asked
  <2>5. Sound(r) /\ (Open(r) \/ ~r.running) /\ r.restart = d.restart
    BY <2>1, <2>2, <2>3, <2>4, BeginSound
  <2> QED BY <1>1, <2>2, <2>5 DEF Settled, r
<1>7. CASE ok /\ u.after = "kept"
  <2>1. r = [c EXCEPT !.torn = FALSE, !.chosen = u.starting, !.running = FALSE]
    BY <1>7 DEF on_prepare_done, c
  <2>2. Asked(u, u.starting.game, u.starting.verb)
    BY <1>7 DEF Sound, WaitsAsked
  <2> HIDE DEF r
  <2>3. r \in Ui
    BY <1>1, <2>1 DEF Ui
  <2>4. /\ r.prep = NoJob /\ ~r.checking /\ r.choice = NoWant /\ r.chosen = u.starting /\ ~r.torn
        /\ r.asked = u.asked /\ r.installs = u.installs /\ r.restart = u.restart /\ ~r.running
    BY <1>1, <2>1 DEF Ui
  <2>5. Alone(r) /\ WaitsAsked(r) /\ JobsOwn(r) /\ ChosenAsked(r)
    BY <2>2, <2>4 DEF Sound, Alone, WaitsAsked, JobsOwn, ChosenAsked, Asked
  <2> QED BY <2>3, <2>4, <2>5 DEF Sound, Settled, r
<1>8. CASE ok /\ u.after \in {"play", "configure"}
  <2> DEFINE want == Want(u.prep.game, u.after, u.prep.variant)
  <2>1. PICK a \in u.asked : a.game = u.prep.game /\ a.verb = u.after
    BY <1>8 DEF Sound, WaitsAsked, Asked
  <2>2. a \in Start
    BY <1>8, <2>1 DEF Ui, Wants, NoWant
  <2>3. want \in Start /\ want.game = a.game /\ want.verb = a.verb
    BY <1>8, <2>1, <2>2 DEF Ui, Jobs, NoJob, Want, Start
  <2>4. r = Begin(c, want)
    BY <1>8 DEF on_prepare_done, c
  <2>5. Asked(c, want.game, want.verb)
    BY <1>1, <2>1, <2>3 DEF Asked
  <2> HIDE DEF r, want
  <2>6. Sound(r) /\ (Open(r) \/ ~r.running) /\ r.restart = c.restart
    BY <1>1, <1>2, <2>3, <2>4, <2>5, BeginSound
  <2> QED BY <1>1, <2>6 DEF Settled, r
<1> QED BY <1>3, <1>4, <1>5, <1>6, <1>7, <1>8 DEF Ui

LEMMA PreparedSound ==
  ASSUME NEW u \in Ui, Sound(u), Settled(u), u.prep # NoJob => Open(u), NEW r \in Prepared(u)
  PROVE  /\ Sound(r) /\ Settled(r)
         /\ r.restart /\ ~u.restart => \A g \in Game : r.installs[g] = NoJob
<1>1. CASE r = u
  BY <1>1
<1>2. CASE /\ u.prep # NoJob
           /\ \E ok \in BOOLEAN, root \in {"none", "mine", "new"}, usable \in BOOLEAN :
                r = on_prepare_done(u, ok, root, usable)
  BY <1>2, DoneSound
<1>3. r = u \/ /\ u.prep # NoJob
               /\ \E ok \in BOOLEAN, root \in {"none", "mine", "new"}, usable \in BOOLEAN :
                    r = on_prepare_done(u, ok, root, usable)
  <2>1. CASE u.prep = NoJob \/ u.failed
    BY <2>1 DEF Prepared
  <2>2. CASE \E e \in {"ok", "failed"}, root \in {"none", "mine", "new"}, usable \in BOOLEAN :
               r = on_prepare_done(u, e = "ok", root, usable) /\ u.prep # NoJob
    <3>1. PICK e \in {"ok", "failed"}, root \in {"none", "mine", "new"}, usable \in BOOLEAN :
            r = on_prepare_done(u, e = "ok", root, usable) /\ u.prep # NoJob
      BY <2>2
    <3>2. (e = "ok") \in BOOLEAN
      OBVIOUS
    <3> QED BY <3>1, <3>2
  <2> QED BY <2>1, <2>2 DEF Prepared
<1> QED BY <1>1, <1>2, <1>3

LEMMA EndOfFrameStep ==
  ASSUME IInv, EndOfFrame
  PROVE  /\ Sound(ui') /\ RestartsAlone /\ frame' \in {"events", "leaving"}
         /\ frame' = "events" => Open(ui')
<1>1. ui \in Ui /\ Sound(ui) /\ Open(ui)
  BY DEF EndOfFrame, IInv, Sound
<1>2. PICK done \in SUBSET {g \in Game : ui.installs[g] # NoJob} :
        \E answered \in Answered(Polled(ui, done)) :
          \E loaded \in Loaded(answered) : ui' \in Prepared(loaded)
  BY DEF EndOfFrame
<1>3. PICK answered \in Answered(Polled(ui, done)) :
        \E loaded \in Loaded(answered) : ui' \in Prepared(loaded)
  BY <1>2
<1>4. PICK loaded \in Loaded(answered) : ui' \in Prepared(loaded)
  BY <1>3
<1> DEFINE p == Polled(ui, done)
<1>5. p \in Ui /\ Sound(p) /\ Open(p) /\ p.restart = ui.restart
  BY <1>1, PolledSound
<1>6. answered \in Answered(p)
  BY <1>3
<1> HIDE DEF p
<1>7. /\ answered \in Ui /\ Sound(answered) /\ Settled(answered) /\ answered.restart = ui.restart
      /\ answered.prep # NoJob => Open(answered)
  BY <1>5, <1>6, AnsweredSound
<1>8. /\ loaded \in Ui /\ Sound(loaded) /\ Settled(loaded) /\ loaded.restart = ui.restart
      /\ loaded.prep # NoJob => Open(loaded)
  BY <1>4, <1>7, LoadedSound
<1>9. Sound(ui') /\ Settled(ui') /\ (ui'.restart /\ ~ui.restart => \A g \in Game : ui'.installs[g] = NoJob)
  BY <1>4, <1>8, PreparedSound
<1>10. frame' = IF ui'.running THEN "events" ELSE "leaving"
  BY DEF EndOfFrame
<1> QED BY <1>9, <1>10 DEF Settled, RestartsAlone

LEMMA LeaveStep ==
  ASSUME IInv, Leave
  PROVE  Sound(ui') /\ RestartsAlone /\ frame' = "gone"
<1>1. ui \in Ui /\ Sound(ui) /\ frame' = "gone"
  BY DEF Leave, IInv, Sound
<1>2. PICK prep \in {NoJob, ui.prep} : ui' = [ui EXCEPT !.prep = prep]
  BY DEF Leave
<1>3. ui' \in Ui
  BY <1>1, <1>2 DEF Ui, Jobs
<1>4. /\ ui'.chosen = ui.chosen /\ ui'.prep = prep /\ ui'.after = ui.after /\ ui'.restoring = ui.restoring
      /\ ui'.installs = ui.installs /\ ui'.checking = ui.checking /\ ui'.starting = ui.starting
      /\ ui'.choice = ui.choice /\ ui'.asked = ui.asked /\ ui'.torn = ui.torn /\ ui'.restart = ui.restart
  BY <1>1, <1>2 DEF Ui
<1>5. Alone(ui') /\ WaitsAsked(ui') /\ JobsOwn(ui') /\ ChosenAsked(ui')
  BY <1>1, <1>4 DEF Sound, Alone, WaitsAsked, JobsOwn, ChosenAsked, Asked
<1> QED BY <1>1, <1>3, <1>4, <1>5 DEF Sound, RestartsAlone

-----------------------------------------------------------------------------
(* The theorems *)

LEMMA StepSound ==
  ASSUME IInv, [Next]_vars
  PROVE  IInv' /\ (Next => RestartsAlone)
<1>1. CASE Heard
  BY <1>1 DEF Heard, IInv, Sound, Alone, WaitsAsked, JobsOwn, ChosenAsked, Open, Asked
<1>2. CASE OnPrepare
  BY <1>1, <1>2, PrepareStep DEF Heard
<1>3. CASE OnSavesCheck
  BY <1>1, <1>3, SavesCheckStep DEF Heard
<1>4. CASE OnSaves
  BY <1>1, <1>4, SavesStep DEF Heard
<1>5. CASE OnStorage
  BY <1>1, <1>5, StorageStep DEF Heard
<1>6. CASE OnMenu
  BY <1>1, <1>6, MenuStep DEF Heard
<1>7. CASE OnPanel
  BY <1>1, <1>7, PanelStep DEF Heard
<1>8. CASE OnTyping
  BY <1>1, <1>8, TypingStep DEF Heard
<1>9. CASE OnGrid
  BY <1>1, <1>9, GridStep DEF Heard
<1>10. CASE Quit
  BY <1>1, <1>10, QuitStep DEF Heard
<1>11. CASE ChipLapses
  BY <1>1, <1>11, ChipStep DEF Heard
<1>12. CASE EndOfFrame
  BY <1>12, EndOfFrameStep DEF IInv, Sound, Alone, WaitsAsked, JobsOwn, ChosenAsked, Open, Asked
<1>13. CASE Leave
  BY <1>13, LeaveStep DEF IInv, Sound, Alone, WaitsAsked, JobsOwn, ChosenAsked, Open, Asked
<1>14. CASE UNCHANGED vars
  <2>1. IInv'
    BY <1>14 DEF vars, IInv, Sound, Alone, WaitsAsked, JobsOwn, ChosenAsked, Open, Asked
  <2> QED BY <1>14, <2>1 DEF vars, RestartsAlone
<1> QED BY <1>2, <1>3, <1>4, <1>5, <1>6, <1>7, <1>8, <1>9, <1>10, <1>11, <1>12, <1>13, <1>14 DEF Next

LEMMA IInvHolds == Spec => []IInv
<1>1. IInv /\ [Next]_vars => IInv'
  BY StepSound
<1> QED BY InitIInv, <1>1, PTL DEF Spec

\* Type correctness of everything run() keeps, in every frame and in any of
\* its screens (app.py run).
THEOREM TypeCorrect == Spec => [](ui \in Ui)
<1>1. IInv => ui \in Ui
  BY DEF IInv, Sound
<1> QED BY <1>1, IInvHolds, PTL

\* Whatever the loaders, the check of the saves and the installs answer, and in
\* whatever frame, the picker starts a game and a verb that were picked and not
\* backed out of (plans.py plan_pick, plan_saves_answer, on_prepare_done).
THEOREM StartsAsked == Spec => []PlayIsAskedFor
<1>1. IInv => PlayIsAskedFor
  BY DEF IInv, Sound, ChosenAsked, Asked, PlayIsAskedFor, Launched
<1> QED BY <1>1, IInvHolds, PTL

\* No play is handed to exec while a conflict of its two saves is unsettled
\* (plans.py plan_saves_answer, on_prepare_done).
THEOREM KeptFirst == Spec => []KeptBeforePlayed
<1>1. IInv => KeptBeforePlayed
  BY DEF IInv, Sound, ChosenAsked, KeptBeforePlayed, Launched
<1> QED BY <1>1, IInvHolds, PTL

LEMMA OneWriterStep ==
  ASSUME IInv, Next
  PROVE  OneWriter
<1>1. IInv' /\ RestartsAlone
  BY StepSound
<1>2. ui'.prep.what = "self" => \A g \in Game : ui'.installs[g] = NoJob
  BY <1>1 DEF IInv, Sound, JobsOwn, NoJob
<1> QED BY <1>1, <1>2 DEF OneWriter, RestartsAlone

\* The picker neither begins to update itself nor restarts into another root
\* while an install runs behind the grid (plans.py plan_self_update).
THEOREM OneWriterAlways == Spec => [][OneWriter]_vars
<1>1. IInv /\ [Next]_vars => [OneWriter]_vars
  BY OneWriterStep
<1> QED BY <1>1, IInvHolds, PTL DEF Spec

-----------------------------------------------------------------------------

(***************************************************************************)
(* The grabs.  While the list that was read is as the kernel's, so is what *)
(* comes of it; and what a picker that left held is let go.                *)
(***************************************************************************)

Node == {Hush!Nothing} \cup [is : Device, serial : Nat \ {0}]

HushTyped ==
  /\ nodes \in [EventName -> Node]
  /\ list = Hush!NoList \/ list \in [EventName -> Node]
  /\ hush \in [held : [EventName -> Nat], refused : SUBSET EventName]

\* A serial is of one name, and is not held under another.
HeldApart ==
  \A e, f \in EventName :
    nodes[f] # Hush!Nothing =>
      /\ nodes[f].serial = hush.held[e] => f = e
      /\ nodes[e] # Hush!Nothing /\ nodes[e].serial = nodes[f].serial => f = e

HushInv ==
  /\ HushTyped /\ HeldApart
  /\ ~running => \A e \in EventName : hush.held[e] = 0
  /\ settled /\ list # Hush!NoList => list = nodes
  /\ settled /\ list = Hush!NoList /\ running =>
       \A e \in EventName : /\ hush.held[e] # 0 => e \in Hush!a_controllers(nodes)
                            /\ e \in Hush!a_controllers(nodes) => hush.held[e] # 0 \/ e \in hush.refused

LEMMA HushStarts ==
  ASSUME Hush!Init
  PROVE  HushInv
  BY DEF Hush!Init, HushInv, HushTyped, HeldApart, Node

LEMMA ListedNode ==
  ASSUME NEW l \in [EventName -> Node], NEW e \in Hush!Listed(l)
  PROVE  e \in EventName /\ l[e].is \in Device /\ l[e].serial \in Nat \ {0}
  BY DEF Hush!Listed, Node

LEMMA ReadStep ==
  ASSUME HushInv, Hush!Read
  PROVE  HushInv'
<1>1. nodes = Hush!NoList => EventName = {}
  <2>1. DOMAIN Hush!NoList = {}
    BY EmptySeq DEF Hush!NoList
  <2> QED BY <2>1 DEF HushInv, HushTyped
<1> QED BY <1>1 DEF HushInv, HushTyped, HeldApart, Hush!Read

LEMMA RefreshStep ==
  ASSUME HushInv, Hush!refresh
  PROVE  HushInv'
<1> DEFINE wanted == Hush!a_controllers(list)
           tried == {e \in wanted : hush.held[e] = 0 /\ e \notin hush.refused}
           got == {e \in tried : nodes[e] # Hush!Nothing /\ nodes[e].serial \notin steam}
<1>1. /\ running /\ list # Hush!NoList /\ list' = Hush!NoList
      /\ hush' = [held |-> [e \in EventName |-> IF e \notin wanted THEN 0
                                                ELSE IF e \in got THEN nodes[e].serial ELSE hush.held[e]],
                  refused |-> hush.refused \cup (tried \ got)]
      /\ UNCHANGED <<nodes, steam, running, settled>>
  BY DEF Hush!refresh
<1>2. /\ nodes \in [EventName -> Node] /\ list \in [EventName -> Node]
      /\ hush \in [held : [EventName -> Nat], refused : SUBSET EventName]
  BY <1>1 DEF HushInv, HushTyped
<1>3. wanted \subseteq EventName
  BY <1>2 DEF Hush!a_controllers, Hush!Keyboards, Hush!Listed
<1>4. \A e \in got : e \in EventName /\ nodes[e].serial \in Nat \ {0}
  <2> TAKE e \in got
  <2>1. e \in Hush!Listed(nodes)
    BY <1>3 DEF Hush!Listed
  <2> QED BY <1>2, <2>1, ListedNode
<1> HIDE DEF wanted
<1>5. hush' \in [held : [EventName -> Nat], refused : SUBSET EventName]
  BY <1>1, <1>2, <1>3, <1>4
<1>6. settled => wanted = Hush!a_controllers(nodes)
  BY <1>1 DEF HushInv, wanted
<1>7. \A e \in EventName : /\ hush'.held[e] # 0 => e \in wanted
                           /\ e \in wanted => hush'.held[e] # 0 \/ e \in hush'.refused
  BY <1>1, <1>2, <1>4
<1>8. settled' /\ list' = Hush!NoList /\ running' =>
        \A e \in EventName :
          /\ hush'.held[e] # 0 => e \in Hush!a_controllers(nodes')
          /\ e \in Hush!a_controllers(nodes') => hush'.held[e] # 0 \/ e \in hush'.refused
  BY <1>1, <1>6, <1>7
<1>9. Hush!a_controllers(nodes)' = Hush!a_controllers(nodes')
  BY DEF Hush!a_controllers, Hush!Keyboards, Hush!Uniqs, Hush!Physes, Hush!Joysticks, Hush!Listed
<1>10. HeldApart'
  <2> SUFFICES ASSUME NEW e \in EventName, NEW f \in EventName, nodes[f] # Hush!Nothing
               PROVE  /\ nodes[f].serial = hush'.held[e] => f = e
                      /\ nodes[e] # Hush!Nothing /\ nodes[e].serial = nodes[f].serial => f = e
    BY <1>1 DEF HeldApart
  <2>1. nodes[f].serial \in Nat \ {0}
    BY <1>2, ListedNode DEF Hush!Listed
  <2>2. hush'.held[e] = IF e \notin wanted THEN 0 ELSE IF e \in got THEN nodes[e].serial ELSE hush.held[e]
    BY <1>1
  <2>3. e \in got => nodes[e] # Hush!Nothing
    OBVIOUS
  <2> QED BY <2>1, <2>2, <2>3 DEF HushInv, HeldApart
<1> QED BY <1>1, <1>2, <1>5, <1>8, <1>9, <1>10 DEF HushInv, HushTyped

LEMMA HushKernel ==
  ASSUME HushInv, Hush!Plug \/ Hush!Unplug
  PROVE  HushInv'
<1>1. nodes' \in [EventName -> Node] /\ ~settled' /\ UNCHANGED <<hush, list, running>>
  <2>1. CASE Hush!Plug
    <3> PICK e \in EventName, d \in Device, n \in 1..MaxPlugs : nodes' = [nodes EXCEPT ![e] = [is |-> d, serial |-> n]]
      BY <2>1 DEF Hush!Plug
    <3>1. [is |-> d, serial |-> n] \in Node
      BY DEF Node
    <3> QED BY <2>1, <3>1 DEF Hush!Plug, HushInv, HushTyped
  <2>2. CASE Hush!Unplug
    BY <2>2 DEF Hush!Unplug, HushInv, HushTyped, Node
  <2> QED BY <2>1, <2>2
<1>2. HeldApart'
  <2>1. CASE Hush!Plug
    <3>1. PICK e \in EventName, d \in Device, n \in 1..MaxPlugs :
            /\ nodes[e] = Hush!Nothing /\ n \notin Hush!Plugged
            /\ n \notin {hush.held[x] : x \in EventName}
            /\ nodes' = [nodes EXCEPT ![e] = [is |-> d, serial |-> n]]
      BY <2>1 DEF Hush!Plug
    <3>2. nodes'[e].serial = n /\ \A f \in EventName \ {e} : nodes'[f] = nodes[f]
      BY <3>1 DEF HushInv, HushTyped
    <3>3. \A f \in EventName : nodes[f] # Hush!Nothing => nodes[f].serial # n
      BY <3>1 DEF Hush!Plugged, Hush!Listed
    <3>4. \A f \in EventName : hush.held[f] # n
      BY <3>1
    <3> QED BY <1>1, <3>2, <3>3, <3>4 DEF HushInv, HeldApart
  <2>2. CASE Hush!Unplug
    <3>1. PICK e \in EventName : nodes' = [nodes EXCEPT ![e] = Hush!Nothing]
      BY <2>2 DEF Hush!Unplug, Hush!Listed
    <3>2. nodes'[e] = Hush!Nothing /\ \A f \in EventName \ {e} : nodes'[f] = nodes[f]
      BY <3>1 DEF HushInv, HushTyped
    <3> QED BY <1>1, <3>2 DEF HushInv, HeldApart
  <2> QED BY <2>1, <2>2
<1> QED BY <1>1, <1>2 DEF HushInv, HushTyped

LEMMA HushNext ==
  ASSUME HushInv, Hush!Next
  PROVE  HushInv'
<1>1. ASSUME Hush!release
      PROVE  HushInv'
  <2>1. hush' \in [held : [EventName -> Nat], refused : SUBSET EventName] /\ \A e \in EventName : hush'.held[e] = 0
    BY <1>1 DEF Hush!release, HushInv, HushTyped
  <2>2. \A f \in EventName : nodes[f] # Hush!Nothing => nodes[f].serial \in Nat \ {0}
    BY ListedNode DEF HushInv, HushTyped, Hush!Listed
  <2>3. HeldApart'
    BY <1>1, <2>1, <2>2 DEF Hush!release, HushInv, HeldApart
  <2> QED BY <1>1, <2>1, <2>3 DEF Hush!release, HushInv, HushTyped
<1>2. ASSUME Hush!Grab
      PROVE  HushInv'
  <2>1. UNCHANGED <<nodes, hush, list, running, settled>>
    BY <1>2 DEF Hush!Grab
  <2>2. Hush!a_controllers(nodes)' = Hush!a_controllers(nodes')
    BY DEF Hush!a_controllers, Hush!Keyboards, Hush!Uniqs, Hush!Physes, Hush!Joysticks, Hush!Listed
  <2> QED BY <2>1, <2>2 DEF HushInv, HushTyped, HeldApart
<1> QED BY <1>1, <1>2, ReadStep, RefreshStep, HushKernel DEF Hush!Next

\* What the list says belongs to a controller does.
LEMMA BelongsTruly ==
  ASSUME DeviceAssumption, nodes \in [EventName -> Node], NEW e \in EventName
  PROVE  e \in Hush!a_controllers(nodes) <=> e \in Hush!Keyboards(nodes) /\ Hush!OfController(e)
<1> SUFFICES ASSUME e \in Hush!Keyboards(nodes)
             PROVE  e \in Hush!a_controllers(nodes) <=> Hush!OfController(e)
  BY DEF Hush!a_controllers
<1> DEFINE d == nodes[e].is
           same_uniq(j) == d.uniq = j.uniq /\ d.uniq # ""
           same_port(j) == ~d.bluetooth /\ ~j.bluetooth /\ d.phys = j.phys /\ d.phys # ""
<1>1. d \in Device /\ d.kbd /\ ~d.js
  BY ListedNode DEF Hush!Keyboards
<1>2. \A j \in Hush!Joysticks(nodes) : j \in Device /\ j.js
  BY ListedNode DEF Hush!Joysticks
<1>3. d.uniq \in Hush!Uniqs(nodes) <=> \E j \in Hush!Joysticks(nodes) : same_uniq(j)
  BY DEF Hush!Uniqs
<1>4. ~d.bluetooth /\ d.phys \in Hush!Physes(nodes) <=> \E j \in Hush!Joysticks(nodes) : same_port(j)
  BY DEF Hush!Physes
<1>5. e \in Hush!a_controllers(nodes) <=>
        d.valve \/ \E j \in Hush!Joysticks(nodes) : same_uniq(j) \/ same_port(j)
  BY <1>3, <1>4 DEF Hush!a_controllers
<1>6. \A j \in Hush!Joysticks(nodes) : /\ same_uniq(j) \/ same_port(j) => d.of = j.of
                                       /\ d.of = j.of => d.valve \/ same_uniq(j) \/ same_port(j)
  BY <1>1, <1>2 DEF DeviceAssumption
<1>7. Hush!OfController(e) <=> d.valve \/ \E j \in Hush!Joysticks(nodes) : j.of = d.of
  BY DEF Hush!OfController
<1> QED BY <1>5, <1>6, <1>7

LEMMA HushPromise ==
  ASSUME DeviceAssumption, HushInv
  PROVE  Hush!HushIsTrue
<1>1. nodes \in [EventName -> Node]
  BY DEF HushInv, HushTyped
<1>2. \A e \in EventName : Hush!Stale(e) => hush.held[e] \notin Hush!Plugged
  BY DEF HushInv, HeldApart, Hush!Stale, Hush!Plugged, Hush!Listed
<1>3. \A e \in EventName : hush.held[e] # 0 => hush.held[e] = nodes[e].serial \/ Hush!Stale(e)
  BY DEF Hush!Stale
<1> QED BY <1>1, <1>2, <1>3, BelongsTruly DEF HushInv, Hush!HushIsTrue

-----------------------------------------------------------------------------

(***************************************************************************)
(* The seats.  An end of a daemon is the last thing on the wire; until it  *)
(* comes the daemon at the other end is up, and unless a status is still   *)
(* to be answered what it said last is so.                                 *)
(***************************************************************************)

WireState == [end : BOOLEAN, seated : SUBSET Player]

SeatsTyped ==
  /\ daemon \in [up : BOOLEAN, seated : SUBSET Player, deaths : Nat]
  /\ wire \in [to : Seq({"status"}), from : Seq(WireState)]
  /\ link \in [open : BOOLEAN, told : SUBSET Player, error : BOOLEAN, space : {"up", "down", "held"}]

EndsLast == \A i \in 1..Len(wire.from) : wire.from[i].end => i = Len(wire.from)

\* Who the picker will believe is seated, once it has read all there is.
SaidLast == IF wire.from = <<>> THEN link.told ELSE wire.from[Len(wire.from)].seated

SeatsInv ==
  /\ SeatsTyped
  /\ ~link.open => link.told = {}
  /\ EndsLast
  /\ Seats!Linked => daemon.up /\ (wire.to = <<>> => SaidLast = daemon.seated)
  /\ ~Seats!Linked => wire.to = <<>>

LEMMA SeatsStarts ==
  ASSUME Seats!Init
  PROVE  SeatsInv
<1>1. ~Seats!Linked
  BY DEF Seats!Init, Seats!Linked
<1>2. /\ daemon \in [up : BOOLEAN, seated : SUBSET Player, deaths : Nat]
      /\ link \in [open : BOOLEAN, told : SUBSET Player, error : BOOLEAN, space : {"up", "down", "held"}]
      /\ link.told = {}
  BY DEF Seats!Init
<1>3. wire.to = <<>> /\ wire.from = <<>> /\ wire = [to |-> <<>>, from |-> <<>>]
  BY DEF Seats!Init, Seats!NoWire
<1>4. wire \in [to : Seq({"status"}), from : Seq(WireState)]
  BY <1>3
<1> QED BY <1>1, <1>2, <1>3, <1>4 DEF SeatsInv, SeatsTyped, EndsLast

LEMMA NoWireKept ==
  /\ Seats!NoWire \in [to : Seq({"status"}), from : Seq(WireState)]
  /\ Seats!NoWire.to = <<>> /\ Seats!NoWire.from = <<>>
  BY DEF Seats!NoWire

\* What is sent last is read last, and what is sent while no end was is alone an end.
LEMMA SaidMore ==
  ASSUME SeatsInv, Seats!Linked, NEW s \in WireState, wire'.from = Append(wire.from, s), UNCHANGED link
  PROVE  /\ EndsLast' /\ SaidLast' = s.seated
         /\ Seats!Linked' <=> ~s.end
         /\ wire'.from \in Seq(WireState)
<1> DEFINE said == wire.from
           more == Append(said, s)
<1>1. said \in Seq(WireState) /\ link.open
  BY DEF SeatsInv, SeatsTyped, Seats!Linked
<1>2. DOMAIN said = 1..Len(said) /\ Len(said) \in Nat
  BY <1>1, LenProperties
<1>3. \A i \in 1..Len(said) : ~said[i].end
  BY <1>2 DEF Seats!Linked
<1>4. /\ more \in Seq(WireState) /\ more # <<>>
      /\ Len(more) = Len(said) + 1
      /\ \A i \in 1..Len(said) : more[i] = said[i]
      /\ more[Len(said) + 1] = s
  BY <1>1, AppendProperties
<1>5. DOMAIN more = 1..Len(more)
  BY <1>4, LenProperties
<1>6. wire'.from = more
  OBVIOUS
<1> HIDE DEF more
<1>7. \A i \in 1..Len(more) : IF i = Len(more) THEN more[i] = s ELSE ~more[i].end
  BY <1>2, <1>3, <1>4
<1>8. EndsLast' /\ SaidLast' = s.seated
  BY <1>2, <1>4, <1>6, <1>7 DEF EndsLast, SaidLast
<1>9. Len(more) \in 1..Len(more)
  BY <1>2, <1>4
<1>10. Seats!Linked' <=> ~s.end
  BY <1>1, <1>5, <1>6, <1>7, <1>9 DEF Seats!Linked
<1> QED BY <1>4, <1>6, <1>8, <1>10

LEMMA SeatStep ==
  ASSUME SeatsInv, Seats!Seat
  PROVE  SeatsInv'
<1>1. PICK now \in SUBSET Player :
        /\ daemon.up /\ daemon' = [daemon EXCEPT !.seated = now]
        /\ wire' = IF Seats!Linked THEN [wire EXCEPT !.from = Append(@, Seats!State(now))] ELSE wire
        /\ UNCHANGED <<link, watch>>
  BY DEF Seats!Seat
<1>2. daemon' \in [up : BOOLEAN, seated : SUBSET Player, deaths : Nat] /\ daemon'.up /\ daemon'.seated = now
  BY <1>1 DEF SeatsInv, SeatsTyped
<1>3. CASE Seats!Linked
  <2>1. Seats!State(now) \in WireState /\ ~Seats!State(now).end /\ Seats!State(now).seated = now
    BY DEF Seats!State, WireState
  <2>2. /\ wire' = [wire EXCEPT !.from = Append(wire.from, Seats!State(now))]
        /\ wire \in [to : Seq({"status"}), from : Seq(WireState)]
    BY <1>1, <1>3 DEF SeatsInv, SeatsTyped
  <2>3. wire'.from = Append(wire.from, Seats!State(now)) /\ wire'.to = wire.to
    BY <2>2
  <2>4. EndsLast' /\ SaidLast' = now /\ Seats!Linked' /\ wire'.from \in Seq(WireState)
    BY <1>1, <1>3, <2>1, <2>3, SaidMore
  <2>5. wire' \in [to : Seq({"status"}), from : Seq(WireState)]
    BY <2>2, <2>3, <2>4
  <2> QED BY <1>1, <1>2, <2>4, <2>5 DEF SeatsInv, SeatsTyped
<1>4. CASE ~Seats!Linked
  <2>1. UNCHANGED <<wire, link>>
    BY <1>1, <1>4
  <2>2. ~Seats!Linked' /\ (EndsLast <=> EndsLast')
    BY <1>4, <2>1 DEF Seats!Linked, EndsLast
  <2> QED BY <1>2, <1>4, <2>1, <2>2 DEF SeatsInv, SeatsTyped
<1> QED BY <1>3, <1>4

LEMMA ReplyStep ==
  ASSUME SeatsInv, Seats!Reply
  PROVE  SeatsInv'
<1> DEFINE s == Seats!State(daemon.seated)
<1>1. /\ daemon.up /\ wire.to # <<>>
      /\ wire' = [to |-> Tail(wire.to), from |-> Append(wire.from, s)]
      /\ UNCHANGED <<daemon, link, watch>>
  BY DEF Seats!Reply
<1>2. Seats!Linked
  BY <1>1 DEF SeatsInv
<1>3. s \in WireState /\ ~s.end /\ s.seated = daemon.seated
  BY DEF Seats!State, WireState, SeatsInv, SeatsTyped
<1>4. wire'.from = Append(wire.from, s) /\ wire'.to = Tail(wire.to)
  BY <1>1
<1>5. wire'.to \in Seq({"status"})
  BY <1>1, <1>4, HeadTailProperties DEF SeatsInv, SeatsTyped
<1> HIDE DEF s
<1>6. EndsLast' /\ SaidLast' = s.seated /\ Seats!Linked' /\ wire'.from \in Seq(WireState)
  BY <1>1, <1>2, <1>3, <1>4, SaidMore
<1>7. wire' \in [to : Seq({"status"}), from : Seq(WireState)]
  BY <1>1, <1>4, <1>5, <1>6
<1> QED BY <1>1, <1>3, <1>6, <1>7 DEF SeatsInv, SeatsTyped

LEMMA DieStep ==
  ASSUME SeatsInv, Seats!Die
  PROVE  SeatsInv'
<1>1. /\ daemon' = [up |-> FALSE, seated |-> {}, deaths |-> daemon.deaths + 1]
      /\ wire' = [wire EXCEPT !.to = <<>>, !.from = IF Seats!Linked THEN Append(@, Seats!End) ELSE @]
      /\ UNCHANGED <<link, watch>>
  BY DEF Seats!Die
<1>2. daemon' \in [up : BOOLEAN, seated : SUBSET Player, deaths : Nat]
  BY <1>1 DEF SeatsInv, SeatsTyped
<1>3. wire \in [to : Seq({"status"}), from : Seq(WireState)]
  BY DEF SeatsInv, SeatsTyped
<1>4. ~Seats!Linked' /\ wire' \in [to : Seq({"status"}), from : Seq(WireState)] /\ wire'.to = <<>> /\ EndsLast'
  <2>1. CASE Seats!Linked
    <3>1. Seats!End \in WireState /\ Seats!End.end
      BY DEF Seats!End, WireState
    <3>2. wire'.from = Append(wire.from, Seats!End) /\ wire'.to = <<>>
          /\ wire' = [to |-> <<>>, from |-> Append(wire.from, Seats!End)]
      BY <1>1, <1>3, <2>1
    <3>3. EndsLast' /\ ~Seats!Linked' /\ wire'.from \in Seq(WireState)
      BY <1>1, <2>1, <3>1, <3>2, SaidMore
    <3> QED BY <3>2, <3>3
  <2>2. CASE ~Seats!Linked
    <3>1. wire'.from = wire.from /\ wire'.to = <<>> /\ wire' = [to |-> <<>>, from |-> wire.from]
      BY <1>1, <1>3, <2>2
    <3>2. wire' \in [to : Seq({"status"}), from : Seq(WireState)]
      BY <1>3, <3>1
    <3> QED BY <1>1, <2>2, <3>1, <3>2 DEF SeatsInv, EndsLast, Seats!Linked
  <2> QED BY <2>1, <2>2
<1> QED BY <1>1, <1>2, <1>4 DEF SeatsInv, SeatsTyped

\* A socket just made, or dropped, has nothing on it but what was asked.
LEMMA FreshWire ==
  ASSUME SeatsInv, wire' = Seats!NoWire \/ wire' = [to |-> <<"status">>, from |-> <<>>],
         link' \in [open : BOOLEAN, told : SUBSET Player, error : BOOLEAN, space : {"up", "down", "held"}],
         ~link'.open => link'.told = {} /\ wire' = Seats!NoWire,
         link'.open => daemon.up /\ wire'.to = <<"status">>,
         UNCHANGED daemon
  PROVE  SeatsInv'
<1>1. wire' \in [to : Seq({"status"}), from : Seq(WireState)] /\ wire'.from = <<>>
  <2>1. CASE wire' = [to |-> <<"status">>, from |-> <<>>]
    <3>1. <<"status">> \in Seq({"status"}) /\ <<>> \in Seq(WireState)
      OBVIOUS
    <3> QED BY <2>1, <3>1
  <2> QED BY <2>1, NoWireKept, Zenon
<1>2. Seats!Linked' <=> link'.open
  BY <1>1 DEF Seats!Linked
<1>3. EndsLast'
  BY <1>1 DEF EndsLast
<1>4. <<"status">> # <<>>
  OBVIOUS
<1> QED BY <1>1, <1>2, <1>3, <1>4, NoWireKept DEF SeatsInv, SeatsTyped

LEMMA ConnectStep ==
  ASSUME SeatsInv, Seats!Connect
  PROVE  SeatsInv'
<1>1. CASE daemon.up
  <2>1. /\ link' = [link EXCEPT !.open = TRUE, !.error = FALSE] /\ wire' = [to |-> <<"status">>, from |-> <<>>]
        /\ UNCHANGED daemon
    BY <1>1 DEF Seats!Connect
  <2>2. link' \in [open : BOOLEAN, told : SUBSET Player, error : BOOLEAN, space : {"up", "down", "held"}] /\ link'.open
    BY <2>1 DEF SeatsInv, SeatsTyped
  <2> QED BY <1>1, <2>1, <2>2, FreshWire
<1>2. CASE ~daemon.up
  <2>1. link' = [link EXCEPT !.error = TRUE] /\ UNCHANGED <<wire, daemon>> /\ ~link.open
    BY <1>2 DEF Seats!Connect
  <2>2. /\ link' \in [open : BOOLEAN, told : SUBSET Player, error : BOOLEAN, space : {"up", "down", "held"}]
        /\ ~link'.open /\ link'.told = link.told
    BY <2>1 DEF SeatsInv, SeatsTyped
  <2> QED BY <2>1, <2>2 DEF SeatsInv, SeatsTyped, EndsLast, Seats!Linked
<1> QED BY <1>1, <1>2

LEMMA ClosedStep ==
  ASSUME SeatsInv, link' = [Seats!close(link) EXCEPT !.error = TRUE], wire' = Seats!NoWire, UNCHANGED daemon
  PROVE  SeatsInv'
<1>1. /\ link' \in [open : BOOLEAN, told : SUBSET Player, error : BOOLEAN, space : {"up", "down", "held"}]
      /\ ~link'.open /\ link'.told = {}
  BY DEF SeatsInv, SeatsTyped, Seats!close
<1> QED BY <1>1, FreshWire

LEMMA PollStep ==
  ASSUME SeatsInv, Seats!poll
  PROVE  SeatsInv'
<1> DEFINE said == wire.from
           s == said[Len(said)]
<1>1. /\ said \in Seq(WireState) /\ said # <<>> /\ link.open
      /\ wire \in [to : Seq({"status"}), from : Seq(WireState)]
  BY DEF Seats!poll, SeatsInv, SeatsTyped
<1>2. DOMAIN said = 1..Len(said) /\ Len(said) \in 1..Len(said) /\ s \in WireState
  BY <1>1, EmptySeq, LenProperties
<1>3. CASE s.end
  BY <1>3, ClosedStep DEF Seats!poll
<1>4. CASE ~s.end
  <2>1. /\ link' = [link EXCEPT !.told = s.seated] /\ wire' = [wire EXCEPT !.from = <<>>]
        /\ UNCHANGED daemon
    BY <1>4 DEF Seats!poll
  <2>2. Seats!Linked
    BY <1>1, <1>2, <1>4 DEF Seats!Linked, SeatsInv, EndsLast
  <2>3. /\ link' \in [open : BOOLEAN, told : SUBSET Player, error : BOOLEAN, space : {"up", "down", "held"}]
        /\ link'.open /\ link'.told = s.seated
    BY <1>1, <1>2, <2>1 DEF SeatsInv, SeatsTyped, WireState
  <2>4. /\ wire' \in [to : Seq({"status"}), from : Seq(WireState)]
        /\ wire'.from = <<>> /\ wire'.to = wire.to
    <3>1. wire' = [to |-> wire.to, from |-> <<>>]
      BY <1>1, <2>1
    <3>2. wire.to \in Seq({"status"}) /\ <<>> \in Seq(WireState)
      BY <1>1
    <3> QED BY <3>1, <3>2
  <2>5. Seats!Linked' /\ EndsLast' /\ SaidLast' = s.seated
    BY <2>3, <2>4 DEF Seats!Linked, EndsLast, SaidLast
  <2>6. wire.to = <<>> => s.seated = daemon.seated
    BY <1>1, <2>2 DEF SeatsInv, SaidLast
  <2>7. daemon.up
    BY <2>2 DEF SeatsInv
  <2> QED BY <2>1, <2>3, <2>4, <2>5, <2>6, <2>7 DEF SeatsInv, SeatsTyped
<1> QED BY <1>3, <1>4

LEMMA SendStep ==
  ASSUME SeatsInv, Seats!send
  PROVE  SeatsInv'
<1>1. CASE daemon.up /\ Seats!Linked
  <2>1. wire' = [wire EXCEPT !.to = <<"status">>] /\ UNCHANGED <<link, daemon>>
    BY <1>1 DEF Seats!send
  <2>2. /\ wire' \in [to : Seq({"status"}), from : Seq(WireState)]
        /\ wire'.from = wire.from /\ wire'.to = <<"status">>
    <3>1. wire' = [to |-> <<"status">>, from |-> wire.from]
      BY <2>1 DEF SeatsInv, SeatsTyped
    <3>2. <<"status">> \in Seq({"status"}) /\ wire.from \in Seq(WireState)
      BY DEF SeatsInv, SeatsTyped
    <3> QED BY <3>1, <3>2
  <2>3. Seats!Linked' /\ (EndsLast <=> EndsLast')
    BY <1>1, <2>1, <2>2 DEF Seats!Linked, EndsLast
  <2>4. <<"status">> # <<>>
    OBVIOUS
  <2> QED BY <1>1, <2>1, <2>2, <2>3, <2>4 DEF SeatsInv, SeatsTyped
<1>2. CASE ~(daemon.up /\ Seats!Linked)
  BY <1>2, ClosedStep DEF Seats!send
<1> QED BY <1>1, <1>2

LEMMA SeatsNext ==
  ASSUME SeatsInv, Seats!Next
  PROVE  SeatsInv'
<1>1. ASSUME Seats!Ask \/ Seats!Collect \/ Seats!Space \/ Seats!Tap
      PROVE  SeatsInv'
  <2>1. /\ UNCHANGED <<daemon, wire>> /\ link'.open = link.open /\ link'.told = link.told
        /\ link' \in [open : BOOLEAN, told : SUBSET Player, error : BOOLEAN, space : {"up", "down", "held"}]
    BY <1>1 DEF Seats!Ask, Seats!Collect, Seats!Space, Seats!Tap, SeatsInv, SeatsTyped
  <2> QED BY <2>1 DEF SeatsInv, SeatsTyped, EndsLast, SaidLast, Seats!Linked
<1>2. ASSUME Seats!ensure_daemon
      PROVE  SeatsInv'
  <2>1. /\ UNCHANGED <<wire, link>> /\ daemon' \in [up : BOOLEAN, seated : SUBSET Player, deaths : Nat]
        /\ daemon.up => daemon' = daemon
    BY <1>2 DEF Seats!ensure_daemon, SeatsInv, SeatsTyped
  <2> QED BY <2>1 DEF SeatsInv, SeatsTyped, EndsLast, SaidLast, Seats!Linked
<1> QED BY <1>1, <1>2, SeatStep, ReplyStep, DieStep, ConnectStep, PollStep, SendStep DEF Seats!Next

LEMMA SeatsPromise ==
  ASSUME SeatsInv
  PROVE  Seats!ToldIsTrue
<1>1. Seats!NoWire.to = <<>> /\ Seats!NoWire.from = <<>>
  BY NoWireKept
<1> QED BY <1>1 DEF SeatsInv, SaidLast, Seats!ToldIsTrue, Seats!drives

-----------------------------------------------------------------------------

(***************************************************************************)
(* The pads.  A queue is read in order: what it still holds of a pad says  *)
(* how it comes to be as it is now, and all of it was said under one kind  *)
(* of pad, since an id is used again only once it is read.                 *)
(***************************************************************************)

Kind == {"none", "raw", "clone"}
Stick == [x : Pads!Level, y : Pads!Level]

PadEvent ==
  [type : {"added", "removed", "down", "up", "stick", "repeat"}, id : Id, dir : Pads!Dir \cup {"none"},
   by : Kind, stick : Stick]

PadsTyped ==
  /\ dev \in [Id -> [is : Kind, down : SUBSET Pads!Dir, stick : Stick]]
  /\ events \in Seq(PadEvent)
  /\ pads \in [Id -> Kind]
  /\ nav \in [sticks : [Id -> Stick], held : [Pads!Source -> Pads!Dir \cup {"none"}]]

Lets(e, i, d) == e.id = i /\ (e.type = "removed" \/ (e.type = "up" /\ e.dir = d))

Moves(e, i) == e.id = i /\ e.type \in {"removed", "stick"}

Announced(k) ==
  /\ events[k].type = "down" =>
       \/ events[k].dir \in dev[events[k].id].down
       \/ \E l \in 1..Len(events) : k < l /\ Lets(events[l], events[k].id, events[k].dir)
  /\ events[k].type = "stick" =>
       \/ events[k].stick = dev[events[k].id].stick
       \/ \E l \in 1..Len(events) : k < l /\ Moves(events[l], events[k].id)

HeldSo(i) ==
  \A d \in Pads!Dir :
    /\ nav.held[<<i, "pad">>] = d =>
         d \in dev[i].down \/ \E l \in 1..Len(events) : Lets(events[l], i, d)
    /\ nav.held[<<i, "stick">>] = d =>
         Pads!still_pushed(dev[i].stick, d) \/ \E l \in 1..Len(events) : Moves(events[l], i)

OneKind(i) ==
  /\ \E kind \in {"raw", "clone"} :
       /\ dev[i].is \in {kind, "none"} /\ pads[i] \in {kind, "none"}
       /\ \A l \in 1..Len(events) : events[l].id = i => events[l].by = kind
  /\ pads[i] # "none" /\ dev[i].is = "none" =>
       \E l \in 1..Len(events) : events[l].id = i /\ events[l].type = "removed"

PadsInv ==
  /\ PadsTyped
  /\ \A i \in Id : dev[i].is = "none" => dev[i] = Pads!Unplugged
  /\ \A s \in Pads!Source : nav.held[s] # "none" => Pads!may_drive(s[1])
  /\ \A k \in 1..Len(events) : Announced(k)
  /\ \A i \in Id : HeldSo(i)
  /\ ~AnyPad => \A i \in Id : OneKind(i)
  /\ Pads!OnlyClonesDrive

LEMMA PadsStarts ==
  ASSUME Pads!Init
  PROVE  PadsInv
<1>1. Pads!Centre \in Stick /\ Pads!Unplugged \in [is : Kind, down : SUBSET Pads!Dir, stick : Stick]
      /\ Pads!Unplugged.is = "none"
  BY DEF Pads!Centre, Pads!Unplugged, Stick, Kind, Pads!Level, Pads!Dir
<1>2. PadsTyped
  BY <1>1 DEF Pads!Init, PadsTyped, Kind, Pads!Source
<1>3. events = <<>> /\ \A k \in 1..Len(events) : FALSE
  BY DEF Pads!Init
<1>4. \A i \in Id : dev[i] = Pads!Unplugged /\ dev[i].is = "none" /\ pads[i] = "none"
  BY <1>1 DEF Pads!Init
<1>5. \A s \in Pads!Source : nav.held[s] = "none"
  BY DEF Pads!Init
<1>6. \A i \in Id : HeldSo(i)
  BY <1>5 DEF HeldSo, Pads!Source, Pads!Dir
<1>7. \A i \in Id : OneKind(i)
  BY <1>3, <1>4 DEF OneKind
<1>8. Pads!OnlyClonesDrive
  BY DEF Pads!Init, Pads!OnlyClonesDrive
<1> QED BY <1>2, <1>3, <1>4, <1>5, <1>6, <1>7, <1>8 DEF PadsInv

(* What is posted is read last. *)

LEMMA Posted ==
  ASSUME PadsTyped, NEW e \in PadEvent, Pads!Posts(<<e>>)
  PROVE  /\ events' \in Seq(PadEvent) /\ Len(events') = Len(events) + 1 /\ Len(events) \in Nat
         /\ \A l \in 1..Len(events) : events'[l] = events[l]
         /\ events'[Len(events) + 1] = e
<1>1. events \in Seq(PadEvent) /\ <<e>> \in Seq(PadEvent) /\ Len(<<e>>) = 1 /\ <<e>>[1] = e
  BY DEF PadsTyped
<1>2. events' = events \o <<e>>
  BY DEF Pads!Posts
<1>3. /\ events \o <<e>> \in Seq(PadEvent) /\ Len(events \o <<e>>) = Len(events) + Len(<<e>>)
      /\ \A l \in 1..Len(events) + Len(<<e>>) :
           (events \o <<e>>)[l] = IF l <= Len(events) THEN events[l] ELSE <<e>>[l - Len(events)]
  BY <1>1, ConcatProperties
<1>4. Len(events) \in Nat
  BY <1>1, LenProperties
<1>5. \A l \in 1..Len(events) : l \in 1..Len(events) + 1 /\ l <= Len(events)
  BY <1>4
<1>6. Len(events) + 1 \in 1..Len(events) + 1 /\ ~(Len(events) + 1 <= Len(events)) /\ (Len(events) + 1) - Len(events) = 1
  BY <1>4
<1> QED BY <1>1, <1>2, <1>3, <1>4, <1>5, <1>6

(* A step of a pad: it changes, and it says so. *)

LEMMA DeviceStep ==
  ASSUME PadsInv, NEW i \in Id, NEW e \in PadEvent, e.id = i, Pads!Posts(<<e>>),
         dev' \in [Id -> [is : Kind, down : SUBSET Pads!Dir, stick : Stick]],
         \A j \in Id \ {i} : dev'[j] = dev[j],
         UNCHANGED <<pads, nav, drove>>,
         dev'[i].is = "none" => dev'[i] = Pads!Unplugged,
         \A d \in Pads!Dir : d \in dev[i].down => d \in dev'[i].down \/ Lets(e, i, d),
         dev'[i].stick = dev[i].stick \/ Moves(e, i),
         e.type = "down" => e.dir \in dev'[i].down,
         e.type = "stick" => e.stick = dev'[i].stick,
         ~AnyPad => OneKind(i)'
  PROVE  PadsInv'
<1> DEFINE n == Len(events)
<1>1. PadsTyped
  BY DEF PadsInv
<1>2. /\ events' \in Seq(PadEvent) /\ Len(events') = n + 1 /\ n \in Nat
      /\ \A l \in 1..n : events'[l] = events[l]
      /\ events'[n + 1] = e
  BY <1>1, Posted
<1>3. PadsTyped'
  BY <1>1, <1>2 DEF PadsTyped
<1>4. /\ \A l \in 1..n : l \in 1..Len(events') /\ l < n + 1
      /\ n + 1 \in 1..Len(events')
      /\ \A l \in 1..Len(events') : l \in 1..n \/ l = n + 1
  BY <1>2
<1>5. \A l \in 1..n : events[l] \in PadEvent
  BY <1>1, ElementOfSeq DEF PadsTyped
<1> HIDE DEF n
<1>6. \A k \in 1..Len(events') : Announced(k)'
  <2> TAKE k \in 1..Len(events')
  <2>1. CASE k = n + 1
    BY <1>2, <2>1 DEF Announced
  <2>2. CASE k \in 1..n
    <3> DEFINE x == events[k]
    <3>1. Announced(k) /\ x \in PadEvent /\ events'[k] = x /\ k < n + 1 /\ x.id \in Id
      BY <1>2, <1>4, <1>5, <2>2 DEF PadsInv, n, PadEvent
    <3>2. x.type = "down" => x.dir \in dev'[x.id].down
                             \/ \E l \in 1..Len(events') : k < l /\ Lets(events'[l], x.id, x.dir)
      <4> SUFFICES ASSUME x.type = "down"
                   PROVE  x.dir \in dev'[x.id].down
                          \/ \E l \in 1..Len(events') : k < l /\ Lets(events'[l], x.id, x.dir)
        OBVIOUS
      <4>1. CASE x.dir \in dev[x.id].down
        <5>1. x.dir \in Pads!Dir
          BY <1>1, <3>1, <4>1 DEF PadsTyped
        <5>2. CASE x.id = i
          BY <1>2, <1>4, <3>1, <4>1, <5>1, <5>2
        <5>3. CASE x.id # i
          BY <3>1, <4>1, <5>3
        <5> QED BY <5>2, <5>3
      <4>2. CASE \E l \in 1..n : k < l /\ Lets(events[l], x.id, x.dir)
        BY <1>2, <1>4, <4>2
      <4> QED BY <3>1, <4>1, <4>2 DEF Announced, n
    <3>3. x.type = "stick" => x.stick = dev'[x.id].stick
                              \/ \E l \in 1..Len(events') : k < l /\ Moves(events'[l], x.id)
      <4>1. CASE x.stick = dev[x.id].stick
        <5>1. CASE x.id = i
          BY <1>2, <1>4, <3>1, <4>1, <5>1
        <5>2. CASE x.id # i
          BY <3>1, <4>1, <5>2
        <5> QED BY <5>1, <5>2
      <4>2. CASE \E l \in 1..n : k < l /\ Moves(events[l], x.id)
        BY <1>2, <1>4, <4>2
      <4> QED BY <3>1, <4>1, <4>2 DEF Announced, n
    <3> QED BY <3>1, <3>2, <3>3 DEF Announced
  <2> QED BY <1>4, <2>1, <2>2
<1>7. \A j \in Id : HeldSo(j)'
  <2> TAKE j \in Id
  <2> SUFFICES ASSUME NEW d \in Pads!Dir
               PROVE  /\ nav.held[<<j, "pad">>] = d =>
                           d \in dev'[j].down \/ \E l \in 1..Len(events') : Lets(events'[l], j, d)
                      /\ nav.held[<<j, "stick">>] = d =>
                           Pads!still_pushed(dev'[j].stick, d) \/ \E l \in 1..Len(events') : Moves(events'[l], j)
    BY Zenon DEF HeldSo, Pads!still_pushed, Pads!Axis
  <2>1. HeldSo(j)
    BY DEF PadsInv
  <2>2. (\E l \in 1..n : Lets(events[l], j, d)) => \E l \in 1..Len(events') : Lets(events'[l], j, d)
    BY <1>2, <1>4
  <2>3. (\E l \in 1..n : Moves(events[l], j)) => \E l \in 1..Len(events') : Moves(events'[l], j)
    BY <1>2, <1>4
  <2>4. d \in dev[j].down => d \in dev'[j].down \/ \E l \in 1..Len(events') : Lets(events'[l], j, d)
    BY <1>2, <1>4
  <2>5. Pads!still_pushed(dev[j].stick, d) =>
          Pads!still_pushed(dev'[j].stick, d) \/ \E l \in 1..Len(events') : Moves(events'[l], j)
    <3>1. dev'[j].stick = dev[j].stick \/ \E l \in 1..Len(events') : Moves(events'[l], j)
      BY <1>2, <1>4
    <3> QED BY <3>1
  <2> QED BY <2>1, <2>2, <2>3, <2>4, <2>5 DEF HeldSo, n
<1>8. ~AnyPad => \A j \in Id : OneKind(j)'
  <2> SUFFICES ASSUME ~AnyPad, NEW j \in Id, j # i
               PROVE  OneKind(j)'
    OBVIOUS
  <2>1. OneKind(j) /\ dev'[j] = dev[j] /\ pads' = pads
    BY DEF PadsInv
  <2>2. \A l \in 1..Len(events') : events'[l].id = j => l \in 1..n /\ events'[l] = events[l]
    BY <1>2, <1>4
  <2>3. (\E l \in 1..n : events[l].id = j /\ events[l].type = "removed") =>
          \E l \in 1..Len(events') : events'[l].id = j /\ events'[l].type = "removed"
    BY <1>2, <1>4
  <2> QED BY <2>1, <2>2, <2>3 DEF OneKind, n
<1>9. \A j \in Id : dev'[j].is = "none" => dev'[j] = Pads!Unplugged
  BY DEF PadsInv
<1>10. \A s \in Pads!Source : nav'.held[s] # "none" => Pads!may_drive(s[1])'
  BY DEF PadsInv, Pads!may_drive
<1>11. Pads!OnlyClonesDrive'
  BY DEF PadsInv, Pads!OnlyClonesDrive
<1> QED BY <1>3, <1>6, <1>7, <1>8, <1>9, <1>10, <1>11 DEF PadsInv

\* What a pad that is there says is said under its kind.
LEMMA KindKept ==
  ASSUME PadsInv, ~AnyPad, NEW i \in Id, NEW e \in PadEvent, e.id = i, Pads!Posts(<<e>>), pads' = pads,
         e.by = dev[i].is, dev[i].is # "none",
         dev'[i].is = dev[i].is \/ (dev'[i].is = "none" /\ e.type = "removed")
  PROVE  OneKind(i)'
<1> DEFINE n == Len(events)
<1>1. /\ Len(events') = n + 1 /\ n \in Nat
      /\ \A l \in 1..n : events'[l] = events[l]
      /\ events'[n + 1] = e
  BY Posted DEF PadsInv
<1>2. n + 1 \in 1..Len(events') /\ \A l \in 1..Len(events') : l \in 1..n \/ l = n + 1
  BY <1>1
<1>3. OneKind(i)
  BY DEF PadsInv
<1> HIDE DEF n
<1>4. PICK kind \in {"raw", "clone"} :
        /\ dev[i].is \in {kind, "none"} /\ pads[i] \in {kind, "none"}
        /\ \A l \in 1..n : events[l].id = i => events[l].by = kind
  BY <1>3 DEF OneKind, n
<1>5. \A l \in 1..Len(events') : events'[l].id = i => events'[l].by = kind
  BY <1>1, <1>2, <1>4
<1>6. dev'[i].is \in {kind, "none"} /\ pads'[i] \in {kind, "none"}
  BY <1>4
<1>7. dev'[i].is = "none" => events'[n + 1].id = i /\ events'[n + 1].type = "removed"
  BY <1>1
<1> QED BY <1>2, <1>5, <1>6, <1>7 DEF OneKind

LEMMA PadsPlug ==
  ASSUME PadsInv, NEW i \in Id, Pads!Plug(i)
  PROVE  PadsInv'
<1>1. PICK is \in {"raw", "clone"} :
        /\ dev' = [dev EXCEPT ![i].is = is]
        /\ Pads!Posts(<<[Pads!Event("added", i, "none") EXCEPT !.by = is]>>)
  BY DEF Pads!Plug
<1> DEFINE e == [Pads!Event("added", i, "none") EXCEPT !.by = is]
<1>2. /\ dev[i] = Pads!Unplugged /\ \A l \in DOMAIN events : events[l].id # i
      /\ UNCHANGED <<pads, nav, drove>>
  BY DEF Pads!Plug
<1>3. /\ PadsTyped /\ dev \in [Id -> [is : Kind, down : SUBSET Pads!Dir, stick : Stick]]
      /\ dev[i] \in [is : Kind, down : SUBSET Pads!Dir, stick : Stick]
  BY DEF PadsInv, PadsTyped
<1>4. /\ e \in PadEvent /\ e.id = i /\ e.type = "added" /\ e.by = is
  BY <1>3 DEF Pads!Event, PadEvent, Kind
<1>5. /\ dev' \in [Id -> [is : Kind, down : SUBSET Pads!Dir, stick : Stick]]
      /\ dev'[i].is = is /\ dev'[i].down = dev[i].down /\ dev'[i].stick = dev[i].stick
      /\ \A j \in Id \ {i} : dev'[j] = dev[j]
  BY <1>1, <1>3 DEF Kind
<1>6. Pads!Posts(<<e>>)
  BY <1>1
<1> HIDE DEF e
<1>7. ASSUME ~AnyPad
      PROVE  OneKind(i)'
  <2>1. \A l \in 1..Len(events) : events[l].id # i
    <3>1. DOMAIN events = 1..Len(events)
      BY <1>3, LenProperties DEF PadsTyped
    <3> QED BY <1>2, <3>1
  <2>2. pads[i] = "none"
    <3>1. OneKind(i) /\ dev[i].is = "none" /\ pads[i] \in Kind
      BY <1>2, <1>3, <1>7 DEF PadsInv, Pads!Unplugged, PadsTyped
    <3> QED BY <2>1, <3>1 DEF OneKind
  <2>3. \A l \in 1..Len(events') : events'[l].id = i => events'[l].by = is
    <3>1. /\ Len(events') = Len(events) + 1 /\ Len(events) \in Nat
          /\ \A l \in 1..Len(events) : events'[l] = events[l]
          /\ events'[Len(events) + 1] = e
      BY <1>3, <1>4, <1>6, Posted
    <3>2. \A l \in 1..Len(events') : l \in 1..Len(events) \/ l = Len(events) + 1
      BY <3>1
    <3> QED BY <1>4, <2>1, <3>1, <3>2
  <2> QED BY <1>2, <1>5, <2>2, <2>3 DEF OneKind
<1>8. dev'[i].is # "none"
  BY <1>5
<1> QED BY <1>2, <1>4, <1>5, <1>6, <1>7, <1>8, DeviceStep

LEMMA PadsUnplug ==
  ASSUME PadsInv, NEW i \in Id, Pads!Unplug(i)
  PROVE  PadsInv'
<1> DEFINE e == Pads!Event("removed", i, "none")
<1>1. /\ dev[i] # Pads!Unplugged /\ dev' = [dev EXCEPT ![i] = Pads!Unplugged]
      /\ Pads!Posts(<<e>>) /\ UNCHANGED <<pads, nav, drove>>
  BY DEF Pads!Unplug
<1>2. /\ dev \in [Id -> [is : Kind, down : SUBSET Pads!Dir, stick : Stick]]
      /\ dev[i] \in [is : Kind, down : SUBSET Pads!Dir, stick : Stick]
      /\ dev[i].is # "none"
  BY <1>1 DEF PadsInv, PadsTyped
<1>3. /\ e \in PadEvent /\ e.id = i /\ e.type = "removed" /\ e.by = dev[i].is
  BY <1>2 DEF Pads!Event, PadEvent
<1>4. Pads!Unplugged \in [is : Kind, down : SUBSET Pads!Dir, stick : Stick]
  BY DEF Pads!Unplugged, Pads!Centre, Stick, Kind, Pads!Level, Pads!Dir
<1>5. /\ dev' \in [Id -> [is : Kind, down : SUBSET Pads!Dir, stick : Stick]]
      /\ dev'[i] = Pads!Unplugged /\ dev'[i].is = "none"
      /\ \A j \in Id \ {i} : dev'[j] = dev[j]
  BY <1>1, <1>2, <1>4 DEF Pads!Unplugged
<1> HIDE DEF e
<1>6. Lets(e, i, "any") /\ Moves(e, i) /\ \A d \in Pads!Dir : Lets(e, i, d)
  BY <1>3 DEF Lets, Moves
<1>7. ~AnyPad => OneKind(i)'
  BY <1>1, <1>2, <1>3, <1>5, KindKept
<1> QED BY <1>1, <1>3, <1>5, <1>6, <1>7, DeviceStep

LEMMA PadsPress ==
  ASSUME PadsInv, NEW i \in Id, Pads!Press(i)
  PROVE  PadsInv'
<1>1. PICK d \in Pads!Dir :
        /\ dev' = [dev EXCEPT ![i].down = IF d \in @ THEN @ \ {d} ELSE @ \cup {d}]
        /\ Pads!Posts(<<Pads!Event(IF d \in dev[i].down THEN "up" ELSE "down", i, d)>>)
  BY DEF Pads!Press
<1> DEFINE e == Pads!Event(IF d \in dev[i].down THEN "up" ELSE "down", i, d)
<1>2. UNCHANGED <<pads, nav, drove>> /\ dev[i].is # "none"
  BY DEF Pads!Press
<1>3. /\ dev \in [Id -> [is : Kind, down : SUBSET Pads!Dir, stick : Stick]]
      /\ dev[i] \in [is : Kind, down : SUBSET Pads!Dir, stick : Stick]
  BY DEF PadsInv, PadsTyped
<1>4. /\ e \in PadEvent /\ e.id = i /\ e.by = dev[i].is /\ e.dir = d
      /\ e.type = IF d \in dev[i].down THEN "up" ELSE "down"
  BY <1>3 DEF Pads!Event, PadEvent
<1>5. /\ dev' \in [Id -> [is : Kind, down : SUBSET Pads!Dir, stick : Stick]]
      /\ dev'[i].is = dev[i].is /\ dev'[i].stick = dev[i].stick
      /\ dev'[i].down = IF d \in dev[i].down THEN dev[i].down \ {d} ELSE dev[i].down \cup {d}
      /\ \A j \in Id \ {i} : dev'[j] = dev[j]
  BY <1>1, <1>3
<1>6. Pads!Posts(<<e>>)
  BY <1>1
<1> HIDE DEF e
<1>7. \A x \in Pads!Dir : x \in dev[i].down => x \in dev'[i].down \/ Lets(e, i, x)
  BY <1>4, <1>5 DEF Lets
<1>8. e.type = "down" => e.dir \in dev'[i].down
  BY <1>4, <1>5
<1>9. ~AnyPad => OneKind(i)'
  BY <1>2, <1>4, <1>5, <1>6, KindKept
<1>10. e.type # "stick" /\ dev'[i].is # "none"
  BY <1>2, <1>4, <1>5
<1> QED BY <1>2, <1>4, <1>5, <1>6, <1>7, <1>8, <1>9, <1>10, DeviceStep

LEMMA PadsPush ==
  ASSUME PadsInv, NEW i \in Id, Pads!Push(i)
  PROVE  PadsInv'
<1>1. PICK axis \in {"x", "y"}, level \in Pads!Level :
        /\ dev' = [dev EXCEPT ![i].stick[axis] = level]
        /\ Pads!Posts(<<[Pads!Event("stick", i, "none") EXCEPT !.stick[axis] = level]>>)
  BY DEF Pads!Push
<1> DEFINE e == [Pads!Event("stick", i, "none") EXCEPT !.stick[axis] = level]
<1>2. UNCHANGED <<pads, nav, drove>> /\ dev[i].is # "none"
  BY DEF Pads!Push
<1>3. /\ dev \in [Id -> [is : Kind, down : SUBSET Pads!Dir, stick : Stick]]
      /\ dev[i] \in [is : Kind, down : SUBSET Pads!Dir, stick : Stick]
      /\ dev[i].stick \in Stick
  BY DEF PadsInv, PadsTyped
<1>4. [dev[i].stick EXCEPT ![axis] = level] \in Stick
  BY <1>3 DEF Stick
<1>5. e = [type |-> "stick", id |-> i, dir |-> "none", by |-> dev[i].is,
           stick |-> [dev[i].stick EXCEPT ![axis] = level]]
  BY DEF Pads!Event
<1>6. /\ e \in PadEvent /\ e.id = i /\ e.by = dev[i].is /\ e.type = "stick"
      /\ e.stick = [dev[i].stick EXCEPT ![axis] = level]
  BY <1>3, <1>4, <1>5 DEF PadEvent
<1>7. /\ dev' \in [Id -> [is : Kind, down : SUBSET Pads!Dir, stick : Stick]]
      /\ dev'[i].is = dev[i].is /\ dev'[i].down = dev[i].down
      /\ dev'[i].stick = [dev[i].stick EXCEPT ![axis] = level]
      /\ \A j \in Id \ {i} : dev'[j] = dev[j]
  BY <1>1, <1>3, <1>4
<1>8. Pads!Posts(<<e>>)
  BY <1>1
<1> HIDE DEF e
<1>9. Moves(e, i)
  BY <1>6 DEF Moves
<1>10. ~AnyPad => OneKind(i)'
  BY <1>2, <1>6, <1>7, <1>8, KindKept
<1>11. e.type # "down" /\ e.stick = dev'[i].stick /\ dev'[i].is # "none"
       /\ \A d \in Pads!Dir : d \in dev[i].down => d \in dev'[i].down
  BY <1>2, <1>6, <1>7
<1> QED BY <1>2, <1>6, <1>7, <1>8, <1>9, <1>10, <1>11, DeviceStep

(* A press that is due: the pad that holds is still the one that may drive. *)

LEMMA RepeatTyped ==
  ASSUME PadsTyped, NEW i \in Id, NEW d \in Pads!Dir
  PROVE  /\ Pads!Repeat(i, d) \in PadEvent /\ Pads!Repeat(i, d).id = i
         /\ Pads!Repeat(i, d).by = pads[i] /\ Pads!Repeat(i, d).type = "repeat"
<1>1. pads[i] \in Kind /\ Pads!Centre \in Stick
  BY DEF PadsTyped, Pads!Centre, Stick, Pads!Level
<1> QED BY <1>1 DEF Pads!Repeat, PadEvent

LEMMA PadsDue ==
  ASSUME PadsInv, Pads!Due
  PROVE  PadsInv'
<1>1. PICK s \in Pads!Source :
        nav.held[s] # "none" /\ Pads!Posts(<<Pads!Repeat(s[1], nav.held[s])>>)
  BY DEF Pads!Due
<1>2. UNCHANGED <<dev, pads, nav, drove>> /\ PadsTyped
  BY DEF Pads!Due, PadsInv
<1>3. s[1] \in Id /\ nav.held[s] \in Pads!Dir
  BY <1>1, <1>2 DEF PadsTyped, Pads!Source
<1> DEFINE i == s[1]
           e == Pads!Repeat(i, nav.held[s])
<1>4. e \in PadEvent /\ e.id = i /\ e.by = pads[i] /\ e.type = "repeat"
  BY <1>2, <1>3, RepeatTyped
<1>5. Pads!Posts(<<e>>) /\ i \in Id
  BY <1>1, <1>3
<1>6. ~AnyPad => pads[i] = "clone"
  BY <1>1 DEF PadsInv, Pads!may_drive
<1> HIDE DEF e, i
<1>7. ASSUME ~AnyPad
      PROVE  OneKind(i)'
  <2>1. /\ Len(events') = Len(events) + 1 /\ Len(events) \in Nat
        /\ \A l \in 1..Len(events) : events'[l] = events[l]
        /\ events'[Len(events) + 1] = e
    BY <1>2, <1>4, <1>5, Posted
  <2>2. /\ \A l \in 1..Len(events') : l \in 1..Len(events) \/ l = Len(events) + 1
        /\ \A l \in 1..Len(events) : l \in 1..Len(events')
    BY <2>1
  <2>3. OneKind(i)
    BY <1>5, <1>7 DEF PadsInv
  <2>4. PICK kind \in {"raw", "clone"} :
          /\ dev[i].is \in {kind, "none"} /\ pads[i] \in {kind, "none"}
          /\ \A l \in 1..Len(events) : events[l].id = i => events[l].by = kind
    BY <2>3 DEF OneKind
  <2>5. \A l \in 1..Len(events') : events'[l].id = i => events'[l].by = kind
    BY <1>4, <1>6, <1>7, <2>1, <2>2, <2>4
  <2>6. pads'[i] # "none" /\ dev'[i].is = "none" =>
          \E l \in 1..Len(events') : events'[l].id = i /\ events'[l].type = "removed"
    BY <1>2, <2>1, <2>2, <2>3 DEF OneKind
  <2> QED BY <1>2, <2>4, <2>5, <2>6 DEF OneKind
<1>8. /\ dev' \in [Id -> [is : Kind, down : SUBSET Pads!Dir, stick : Stick]]
      /\ \A j \in Id \ {i} : dev'[j] = dev[j]
      /\ dev'[i].is = "none" => dev'[i] = Pads!Unplugged
      /\ \A d \in Pads!Dir : d \in dev[i].down => d \in dev'[i].down
      /\ dev'[i].stick = dev[i].stick
  BY <1>2, <1>5 DEF PadsInv, PadsTyped
<1> QED BY <1>2, <1>4, <1>5, <1>7, <1>8, DeviceStep

(* What is read is the head of the queue, and a step of a stick is put at its end. *)

LEMMA ReadOff ==
  ASSUME NEW S, NEW q \in Seq(S), q # <<>>, NEW q2, NEW r \in S,
         q2 = Tail(q) \/ q2 = Append(Tail(q), r)
  PROVE  /\ Head(q) = q[1] /\ q[1] \in S /\ 1 \in 1..Len(q) /\ Len(q) \in Nat
         /\ q2 \in Seq(S)
         /\ \A k \in 1..Len(q) : k = 1 \/ (k - 1 \in 1..Len(q2) /\ q2[k - 1] = q[k])
         /\ \A k \in 1..Len(q2) : \/ k + 1 \in 1..Len(q) /\ q2[k] = q[k + 1]
                                  \/ k = Len(q) /\ q2[k] = r
<1> DEFINE t == Tail(q)
<1>1. /\ Head(q) \in S /\ t \in Seq(S) /\ Len(t) = Len(q) - 1
      /\ \A k \in 1..Len(t) : t[k] = q[k + 1]
  BY HeadTailProperties
<1>2. Len(q) \in Nat \ {0}
  BY EmptySeq, LenProperties
<1>3. Head(q) = q[1]
  BY DEF Head
<1> HIDE DEF t
<1>4. \A k \in 1..Len(q) : k = 1 \/ (k - 1 \in 1..Len(t) /\ t[k - 1] = q[k])
  <2> TAKE k \in 1..Len(q)
  <2>1. CASE k # 1
    <3>1. k - 1 \in 1..Len(t) /\ (k - 1) + 1 = k
      BY <1>1, <1>2, <2>1
    <3> QED BY <1>1, <3>1
  <2> QED BY <2>1
<1>5. CASE q2 = t
  <2>1. \A k \in 1..Len(t) : k + 1 \in 1..Len(q)
    BY <1>1, <1>2
  <2>2. 1 \in 1..Len(q)
    BY <1>2
  <2> QED BY <1>1, <1>2, <1>3, <1>4, <1>5, <2>1, <2>2
<1>6. CASE q2 = Append(t, r)
  <2>1. /\ q2 \in Seq(S) /\ Len(q2) = Len(t) + 1
        /\ \A k \in 1..Len(t) : q2[k] = t[k]
        /\ q2[Len(t) + 1] = r
    BY <1>1, <1>6, AppendProperties, Zenon
  <2>2. /\ \A k \in 1..Len(q2) : k \in 1..Len(t) \/ (k = Len(t) + 1 /\ k = Len(q))
        /\ \A k \in 1..Len(t) : k \in 1..Len(q2) /\ k + 1 \in 1..Len(q)
        /\ 1 \in 1..Len(q)
    BY <1>1, <1>2, <2>1
  <2>3. \A k \in 1..Len(q2) : \/ k + 1 \in 1..Len(q) /\ q2[k] = q[k + 1]
                              \/ k = Len(q) /\ q2[k] = r
    BY <1>1, <2>1, <2>2
  <2>4. \A k \in 1..Len(q) : k = 1 \/ (k - 1 \in 1..Len(q2) /\ q2[k - 1] = q[k])
    BY <1>4, <2>1, <2>2
  <2> QED BY <1>1, <1>2, <1>3, <2>1, <2>2, <2>3, <2>4
<1> QED BY <1>5, <1>6 DEF t

LEMMA HandleStep ==
  ASSUME PadsInv, events # <<>>, NEW r \in PadEvent, NEW e, e = Head(events),
         events' = Tail(events) \/ events' = Append(Tail(events), r),
         r.type = "repeat", ~AnyPad /\ events' # Tail(events) => r.by = "clone" /\ pads[r.id] = "clone",
         UNCHANGED dev,
         pads' \in [Id -> Kind],
         \A i \in Id : \/ pads'[i] = "none" \/ pads'[i] = dev[i].is
                       \/ pads'[i] = pads[i] /\ ~(e.id = i /\ e.type = "removed"),
         nav' \in [sticks : [Id -> Stick], held : [Pads!Source -> Pads!Dir \cup {"none"}]],
         \A s \in Pads!Source : nav'.held[s] # "none" => Pads!may_drive(s[1])',
         \A i \in Id, d \in Pads!Dir :
           /\ nav'.held[<<i, "pad">>] = d => \/ nav.held[<<i, "pad">>] = d /\ ~Lets(e, i, d)
                                             \/ e.type = "down" /\ e.id = i /\ e.dir = d
           /\ nav'.held[<<i, "stick">>] = d => \/ nav.held[<<i, "stick">>] = d /\ ~Moves(e, i)
                                               \/ e.type = "stick" /\ e.id = i /\ Pads!still_pushed(e.stick, d),
         drove' = drove \/ (drove' = e.by /\ Pads!may_drive(e.id))
  PROVE  PadsInv'
<1> DEFINE n == Len(events)
           m == Len(events')
           put == events' # Tail(events)
<1>1. PadsTyped /\ events \in Seq(PadEvent)
  BY DEF PadsInv, PadsTyped
<1>2. /\ e = events[1] /\ e \in PadEvent /\ 1 \in 1..n /\ n \in Nat
      /\ events' \in Seq(PadEvent)
      /\ \A k \in 1..n : k = 1 \/ (k - 1 \in 1..m /\ events'[k - 1] = events[k])
      /\ \A k \in 1..m : \/ k + 1 \in 1..n /\ events'[k] = events[k + 1]
                         \/ k = n /\ events'[k] = r
  BY <1>1, ReadOff
<1>3. \A k \in 1..m : \/ k + 1 \in 1..n /\ events'[k] = events[k + 1]
                      \/ put /\ events'[k] = r
  <2>1. CASE put
    BY <1>2, <2>1
  <2>2. CASE ~put
    <3>1. m = n - 1
      BY <1>1, <2>2, HeadTailProperties
    <3>2. \A k \in 1..m : k # n
      BY <1>2, <3>1
    <3> QED BY <1>2, <3>2
  <2> QED BY <2>1, <2>2
<1>4. PadsTyped'
  BY <1>1, <1>2 DEF PadsTyped
<1>5. e.id \in Id
  BY <1>2 DEF PadEvent
<1> HIDE DEF n, m, put
<1>6. \A k \in 1..m : Announced(k)'
  <2> TAKE k \in 1..m
  <2>1. CASE events'[k] = r
    BY <2>1 DEF Announced
  <2>2. CASE k + 1 \in 1..n /\ events'[k] = events[k + 1]
    <3> DEFINE x == events[k + 1]
    <3>1. Announced(k + 1) /\ events'[k] = x
      BY <2>2 DEF PadsInv, n
    <3>2. \A l \in 1..n : k + 1 < l => l - 1 \in 1..m /\ k < l - 1 /\ events'[l - 1] = events[l]
      BY <1>2, <2>2
    <3> HIDE DEF x
    <3>3. x.type = "down" => x.dir \in dev'[x.id].down \/ \E l \in 1..m : k < l /\ Lets(events'[l], x.id, x.dir)
      BY <3>1, <3>2 DEF Announced, n, x
    <3>4. x.type = "stick" => x.stick = dev'[x.id].stick \/ \E l \in 1..m : k < l /\ Moves(events'[l], x.id)
      BY <3>1, <3>2 DEF Announced, n, x
    <3> QED BY <3>1, <3>3, <3>4 DEF Announced, m
  <2> QED BY <1>3, <2>1, <2>2
<1>7. Announced(1) /\ \A l \in 1..n : 1 < l => l - 1 \in 1..m /\ events'[l - 1] = events[l]
  BY <1>2 DEF PadsInv, n
<1>8. \A i \in Id : HeldSo(i)'
  <2> TAKE i \in Id
  <2> SUFFICES ASSUME NEW d \in Pads!Dir
               PROVE  /\ nav'.held[<<i, "pad">>] = d =>
                           d \in dev[i].down \/ \E l \in 1..m : Lets(events'[l], i, d)
                      /\ nav'.held[<<i, "stick">>] = d =>
                           Pads!still_pushed(dev[i].stick, d) \/ \E l \in 1..m : Moves(events'[l], i)
    BY Zenon DEF HeldSo, Pads!still_pushed, Pads!Axis, m
  <2>1. HeldSo(i)
    BY DEF PadsInv
  <2>2. /\ nav'.held[<<i, "pad">>] = d => \/ nav.held[<<i, "pad">>] = d /\ ~Lets(e, i, d)
                                          \/ e.type = "down" /\ e.id = i /\ e.dir = d
        /\ nav'.held[<<i, "stick">>] = d => \/ nav.held[<<i, "stick">>] = d /\ ~Moves(e, i)
                                            \/ e.type = "stick" /\ e.id = i /\ Pads!still_pushed(e.stick, d)
    OBVIOUS
  <2>3. ASSUME NEW l \in 1..n, Lets(events[l], i, d), 1 < l \/ ~Lets(e, i, d)
        PROVE  \E y \in 1..m : Lets(events'[y], i, d)
    <3>1. l - 1 \in 1..m /\ events'[l - 1] = events[l]
      BY <1>2, <2>3
    <3> QED BY <2>3, <3>1
  <2>4. ASSUME NEW l \in 1..n, Moves(events[l], i), 1 < l \/ ~Moves(e, i)
        PROVE  \E y \in 1..m : Moves(events'[y], i)
    <3>1. l - 1 \in 1..m /\ events'[l - 1] = events[l]
      BY <1>2, <2>4
    <3> QED BY <2>4, <3>1
  <2>5. nav'.held[<<i, "pad">>] = d => d \in dev[i].down \/ \E l \in 1..m : Lets(events'[l], i, d)
    <3>1. CASE nav.held[<<i, "pad">>] = d /\ ~Lets(e, i, d)
      BY <2>1, <2>3, <3>1 DEF HeldSo, n
    <3>2. CASE e.type = "down" /\ e.id = i /\ e.dir = d
      <4>1. d \in dev[i].down \/ \E l \in 1..n : 1 < l /\ Lets(events[l], i, d)
        BY <1>2, <1>7, <3>2 DEF Announced, n
      <4> QED BY <2>3, <4>1
    <3> QED BY <2>2, <3>1, <3>2
  <2>6. nav'.held[<<i, "stick">>] = d =>
          Pads!still_pushed(dev[i].stick, d) \/ \E l \in 1..m : Moves(events'[l], i)
    <3>1. CASE nav.held[<<i, "stick">>] = d /\ ~Moves(e, i)
      BY <2>1, <2>4, <3>1 DEF HeldSo, n
    <3>2. CASE e.type = "stick" /\ e.id = i /\ Pads!still_pushed(e.stick, d)
      <4>1. e.stick = dev[i].stick \/ \E l \in 1..n : 1 < l /\ Moves(events[l], i)
        BY <1>2, <1>7, <3>2 DEF Announced, n
      <4> QED BY <2>4, <3>2, <4>1
    <3> QED BY <2>2, <3>1, <3>2
  <2> QED BY <2>5, <2>6
<1>9. ~AnyPad => \A i \in Id : OneKind(i)'
  <2> SUFFICES ASSUME ~AnyPad, NEW i \in Id
               PROVE  OneKind(i)'
    OBVIOUS
  <2>1. OneKind(i)
    BY DEF PadsInv
  <2>2. PICK kind \in {"raw", "clone"} :
          /\ dev[i].is \in {kind, "none"} /\ pads[i] \in {kind, "none"}
          /\ \A l \in 1..n : events[l].id = i => events[l].by = kind
    BY <2>1 DEF OneKind, n
  <2>3. \A l \in 1..m : events'[l].id = i => events'[l].by = kind
    <3> SUFFICES ASSUME NEW l \in 1..m, events'[l].id = i
                 PROVE  events'[l].by = kind
      OBVIOUS
    <3>1. CASE l + 1 \in 1..n /\ events'[l] = events[l + 1]
      BY <2>2, <3>1
    <3>2. CASE put /\ events'[l] = r
      <4>1. r.by = "clone" /\ pads[i] = "clone"
        BY <3>2 DEF put
      <4> QED BY <2>2, <3>2, <4>1
    <3> QED BY <1>3, <3>1, <3>2
  <2>4. pads'[i] \in {kind, "none"}
    BY <2>2
  <2>5. ASSUME pads'[i] # "none", dev[i].is = "none"
        PROVE  \E l \in 1..m : events'[l].id = i /\ events'[l].type = "removed"
    <3>1. pads'[i] = pads[i] /\ ~(e.id = i /\ e.type = "removed")
      BY <2>5
    <3>2. PICK l \in 1..n : events[l].id = i /\ events[l].type = "removed"
      BY <2>1, <2>5, <3>1 DEF OneKind, n
    <3>3. l # 1
      BY <1>2, <3>1, <3>2
    <3>4. l - 1 \in 1..m /\ events'[l - 1] = events[l]
      BY <1>2, <3>3
    <3> QED BY <3>2, <3>4
  <2> QED BY <2>2, <2>3, <2>4, <2>5 DEF OneKind, m
<1>10. Pads!OnlyClonesDrive'
  <2> SUFFICES ASSUME ~AnyPad, drove' = e.by, Pads!may_drive(e.id)
               PROVE  drove' = "clone"
    BY DEF PadsInv, Pads!OnlyClonesDrive
  <2>1. OneKind(e.id) /\ pads[e.id] = "clone"
    BY <1>5 DEF PadsInv, Pads!may_drive
  <2> QED BY <1>2, <2>1 DEF OneKind, n
<1>11. \A i \in Id : dev'[i].is = "none" => dev'[i] = Pads!Unplugged
  BY DEF PadsInv
<1> QED BY <1>4, <1>6, <1>8, <1>9, <1>10, <1>11 DEF PadsInv, m

LEMMA SomePair ==
  ASSUME NEW i \in Id, NEW source \in {"pad", "stick"}
  PROVE  <<i, source>> \in Pads!Source /\ <<i, source>>[1] = i
  BY DEF Pads!Source

LEMMA SourcePair ==
  ASSUME NEW s \in Pads!Source
  PROVE  \E i \in Id : s = <<i, "pad">> \/ s = <<i, "stick">>
  BY DEF Pads!Source

\* A pad that is forgotten holds nothing, and the others hold what they held.
LEMMA Forgotten ==
  ASSUME PadsTyped, NEW i \in Id, nav' = Pads!forget(i)
  PROVE  /\ nav' \in [sticks : [Id -> Stick], held : [Pads!Source -> Pads!Dir \cup {"none"}]]
         /\ \A s \in Pads!Source : nav'.held[s] = IF s[1] = i THEN "none" ELSE nav.held[s]
<1>1. Pads!Centre \in Stick /\ nav \in [sticks : [Id -> Stick], held : [Pads!Source -> Pads!Dir \cup {"none"}]]
  BY DEF PadsTyped, Pads!Centre, Stick, Pads!Level
<1> QED BY <1>1 DEF Pads!forget

\* What one source holds is changed.
LEMMA HoldsOne ==
  ASSUME PadsTyped, NEW i \in Id, NEW source \in {"pad", "stick"}, NEW d \in Pads!Dir \cup {"none"},
         nav'.held = [nav.held EXCEPT ![<<i, source>>] = d],
         nav'.sticks \in [Id -> Stick], nav' = [sticks |-> nav'.sticks, held |-> nav'.held]
  PROVE  /\ nav' \in [sticks : [Id -> Stick], held : [Pads!Source -> Pads!Dir \cup {"none"}]]
         /\ nav'.held[<<i, source>>] = d
         /\ \A s \in Pads!Source : s # <<i, source>> => nav'.held[s] = nav.held[s]
<1>1. <<i, source>> \in Pads!Source
  BY SomePair
<1>2. nav.held \in [Pads!Source -> Pads!Dir \cup {"none"}]
  BY DEF PadsTyped
<1> DEFINE one == <<i, source>>
<1> HIDE DEF one
<1>3. nav'.held = [nav.held EXCEPT ![one] = d]
  BY DEF one
<1>4. one \in Pads!Source
  BY <1>1 DEF one
<1>5. /\ nav'.held \in [Pads!Source -> Pads!Dir \cup {"none"}]
      /\ nav'.held[one] = d /\ \A s \in Pads!Source : s # one => nav'.held[s] = nav.held[s]
  BY <1>2, <1>3, <1>4
<1> QED BY <1>5 DEF one

LEMMA Steers ==
  ASSUME PadsTyped, NEW i \in Id, NEW stick \in Stick
  PROVE  LET said == Pads!steered(i, stick)
             d == said.nav.held[<<i, "stick">>]
         IN /\ said.step \in Pads!Dir \cup {"none"}
            /\ said.nav = [sticks |-> [nav.sticks EXCEPT ![i] = stick],
                           held |-> [nav.held EXCEPT ![<<i, "stick">>] = d]]
            /\ d \in Pads!Dir \cup {"none"}
            /\ d # "none" => Pads!still_pushed(stick, d)
<1> DEFINE held == nav.held[<<i, "stick">>]
           way == Pads!pushed(stick)
           keeps == held # "none" /\ way \in {"none", held}
           said == Pads!steered(i, stick)
           now == IF keeps THEN IF Pads!still_pushed(stick, held) THEN held ELSE "none" ELSE way
<1>1. <<i, "stick">> \in Pads!Source
  BY SomePair
<1>2. /\ nav \in [sticks : [Id -> Stick], held : [Pads!Source -> Pads!Dir \cup {"none"}]]
      /\ held \in Pads!Dir \cup {"none"} /\ stick.x \in 0..2 /\ stick.y \in 0..2
  BY <1>1 DEF PadsTyped, Stick, Pads!Level
<1>3. way \in Pads!Dir \cup {"none"} /\ (way # "none" => Pads!still_pushed(stick, way))
  BY <1>2 DEF Pads!pushed, Pads!still_pushed, Pads!Axis, Pads!Dir
<1>4. now \in Pads!Dir \cup {"none"} /\ (now # "none" => Pads!still_pushed(stick, now))
  BY <1>2, <1>3
<1>5. /\ said.step \in Pads!Dir \cup {"none"}
      /\ said.nav = [[nav EXCEPT !.sticks[i] = stick] EXCEPT !.held[<<i, "stick">>] = now]
  <2> HIDE DEF way
  <2>1. CASE keeps
    BY <2>1, Zenon DEF Pads!steered, way
  <2>2. CASE ~keeps
    <3>1. /\ said.step = way /\ said.nav = [[nav EXCEPT !.sticks[i] = stick] EXCEPT !.held[<<i, "stick">>] = way]
      BY <2>2, Zenon DEF Pads!steered, way
    <3> QED BY <1>3, <2>2, <3>1
  <2> QED BY <2>1, <2>2
<1> HIDE DEF now, said
<1>6. said.nav = [sticks |-> [nav.sticks EXCEPT ![i] = stick], held |-> [nav.held EXCEPT ![<<i, "stick">>] = now]]
  BY <1>2, <1>5
<1>7. said.nav.held[<<i, "stick">>] = now
  BY <1>1, <1>2, <1>6
<1> QED BY <1>4, <1>5, <1>6, <1>7 DEF said

LEMMA PadsHandle ==
  ASSUME PadsInv, Pads!Handle
  PROVE  PadsInv'
<1> DEFINE e == Head(events)
           i == e.id
           rest == Tail(events)
           HeldTyped == nav' \in [sticks : [Id -> Stick], held : [Pads!Source -> Pads!Dir \cup {"none"}]]
           HeldOf(s) == nav.held[s] = nav'.held[s]
           idle == Pads!Repeat(i, "right")
<1>1. /\ events # <<>> /\ UNCHANGED dev /\ PadsTyped
      /\ nav \in [sticks : [Id -> Stick], held : [Pads!Source -> Pads!Dir \cup {"none"}]]
      /\ pads \in [Id -> Kind] /\ events \in Seq(PadEvent)
  BY DEF Pads!Handle, PadsInv, PadsTyped
<1>2. e \in PadEvent
  BY <1>1, HeadTailProperties
<1>3. i \in Id /\ e.dir \in Pads!Dir \cup {"none"} /\ e.stick \in Stick
      /\ e.type \in {"added", "removed", "down", "up", "stick", "repeat"}
  BY <1>2 DEF PadEvent
<1>4. idle \in PadEvent /\ idle.type = "repeat"
  BY <1>1, <1>3, RepeatTyped DEF Pads!Dir
<1>5. \A s \in Pads!Source : nav.held[s] # "none" => Pads!may_drive(s[1])
  BY DEF PadsInv
<1>6. \A j \in Id : /\ <<j, "pad">> \in Pads!Source /\ <<j, "pad">>[1] = j
                    /\ <<j, "stick">> \in Pads!Source /\ <<j, "stick">>[1] = j
  BY SomePair
<1>7. /\ e.type = "added" => Pads!add(e) /\ events' = rest /\ UNCHANGED drove
      /\ e.type = "removed" => Pads!remove(i) /\ events' = rest /\ UNCHANGED drove
      /\ e.type = "down" => /\ nav' = (IF Pads!may_drive(i) THEN Pads!Holds(i, "pad", e.dir) ELSE nav)
                            /\ Pads!Takes(e) /\ events' = rest /\ UNCHANGED pads
      /\ e.type = "up" => /\ nav' = (IF Pads!may_drive(i) THEN Pads!release(i, e.dir) ELSE nav)
                          /\ events' = rest /\ UNCHANGED <<pads, drove>>
      /\ e.type = "repeat" => Pads!Takes(e) /\ events' = rest /\ UNCHANGED <<pads, nav>>
      /\ e.type = "stick" =>
           /\ nav' = (IF Pads!may_drive(i) THEN Pads!steered(i, e.stick).nav ELSE nav)
           /\ events' = (IF Pads!may_drive(i) /\ Pads!steered(i, e.stick).step # "none"
                         THEN Append(rest, Pads!Repeat(i, Pads!steered(i, e.stick).step)) ELSE rest)
           /\ UNCHANGED <<pads, drove>>
  BY DEF Pads!Handle
<1> HIDE DEF e, idle, rest, i
\* Where nothing is put at the end of the queue.
<1>8. ASSUME events' = rest, pads' \in [Id -> Kind], HeldTyped,
             \A j \in Id : \/ pads'[j] = "none" \/ pads'[j] = dev[j].is
                           \/ pads'[j] = pads[j] /\ ~(i = j /\ e.type = "removed"),
             \A s \in Pads!Source : nav'.held[s] # "none" => Pads!may_drive(s[1])',
             \A j \in Id, d \in Pads!Dir :
               /\ nav'.held[<<j, "pad">>] = d => \/ nav.held[<<j, "pad">>] = d /\ ~Lets(e, j, d)
                                                 \/ e.type = "down" /\ i = j /\ e.dir = d
               /\ nav'.held[<<j, "stick">>] = d =>
                    \/ nav.held[<<j, "stick">>] = d /\ ~Moves(e, j)
                    \/ e.type = "stick" /\ i = j /\ Pads!still_pushed(e.stick, d),
             drove' = drove \/ (drove' = e.by /\ Pads!may_drive(i))
      PROVE  PadsInv'
  BY <1>1, <1>4, <1>8, HandleStep DEF e, rest, i
<1>9. CASE e.type = "added"
  <2>1. UNCHANGED <<nav, drove>> /\ events' = rest
        /\ IF dev[i].is = "none" THEN UNCHANGED pads ELSE pads' = [pads EXCEPT ![i] = dev[i].is]
    BY <1>7, <1>9 DEF Pads!add, i
  <2>2. dev[i].is \in Kind
    BY <1>1, <1>3 DEF PadsTyped
  <2>3. pads' \in [Id -> Kind] /\ \A j \in Id : pads'[j] = dev[j].is \/ pads'[j] = pads[j]
    BY <1>1, <1>3, <2>1, <2>2
  <2>4. \A s \in Pads!Source : nav'.held[s] # "none" => Pads!may_drive(s[1])'
    <3> SUFFICES ASSUME NEW s \in Pads!Source, nav.held[s] # "none", ~AnyPad
                 PROVE  pads'[s[1]] = "clone"
      BY <2>1 DEF Pads!may_drive
    <3>1. pads[s[1]] = "clone" /\ s[1] \in Id
      BY <1>5 DEF Pads!may_drive, Pads!Source
    <3>2. OneKind(s[1])
      BY <3>1 DEF PadsInv
    <3> QED BY <1>1, <2>1, <3>1, <3>2 DEF OneKind
  <2>5. \A j \in Id, d \in Pads!Dir : ~Lets(e, j, d) /\ ~Moves(e, j)
    BY <1>9 DEF Lets, Moves
  <2> QED BY <1>1, <1>8, <1>9, <2>1, <2>3, <2>4, <2>5
<1>10. CASE e.type = "removed"
  <2>1. pads' = [pads EXCEPT ![i] = "none"] /\ nav' = Pads!forget(i) /\ events' = rest /\ UNCHANGED drove
    BY <1>7, <1>10 DEF Pads!remove
  <2>2. HeldTyped /\ \A s \in Pads!Source : nav'.held[s] = IF s[1] = i THEN "none" ELSE nav.held[s]
    BY <1>1, <1>3, <2>1, Forgotten
  <2>3. pads' \in [Id -> Kind] /\ \A j \in Id : pads'[j] = IF j = i THEN "none" ELSE pads[j]
    BY <1>1, <1>3, <2>1 DEF Kind
  <2>4. \A s \in Pads!Source : nav'.held[s] # "none" => Pads!may_drive(s[1])'
    <3> TAKE s \in Pads!Source
    <3>1. s[1] \in Id
      BY DEF Pads!Source
    <3> QED BY <1>5, <2>2, <2>3, <3>1 DEF Pads!may_drive
  <2>5. \A j \in Id, d \in Pads!Dir :
          /\ nav'.held[<<j, "pad">>] = d => nav.held[<<j, "pad">>] = d /\ j # i
          /\ nav'.held[<<j, "stick">>] = d => nav.held[<<j, "stick">>] = d /\ j # i
    <3> TAKE j \in Id, d \in Pads!Dir
    <3>1. d # "none"
      BY DEF Pads!Dir
    <3> QED BY <1>6, <2>2, <3>1
  <2>6. \A j \in Id, d \in Pads!Dir : j # i => ~Lets(e, j, d) /\ ~Moves(e, j)
    BY DEF Lets, Moves, i
  <2> QED BY <1>8, <2>1, <2>2, <2>3, <2>4, <2>5, <2>6
\* The other events leave the pads as they are; what a source newly holds is the event's.
<1>11. ASSUME pads' = pads, events' = rest, NEW source \in {"pad", "stick"}, NEW x \in Pads!Dir \cup {"none"},
              HeldTyped, nav'.held[<<i, source>>] = x,
              \A s \in Pads!Source : s # <<i, source>> => nav'.held[s] = nav.held[s],
              x = "none" \/ Pads!may_drive(i),
              \A d \in Pads!Dir : nav.held[<<i, "pad">>] = d /\ Lets(e, i, d) => source = "pad",
              \A d \in Pads!Dir : nav.held[<<i, "stick">>] = d /\ Moves(e, i) => source = "stick",
              source = "pad" /\ x # "none" => (e.type = "down" /\ e.dir = x) \/ (nav.held[<<i, "pad">>] = x /\ ~Lets(e, i, x)),
              source = "stick" /\ x # "none" => e.type = "stick" /\ Pads!still_pushed(e.stick, x),
              e.type # "removed",
              drove' = drove \/ (drove' = e.by /\ Pads!may_drive(i))
       PROVE  PadsInv'
  <2>1. \A s \in Pads!Source : nav'.held[s] # "none" => Pads!may_drive(s[1])'
    <3> TAKE s \in Pads!Source
    <3>1. CASE s = <<i, source>>
      <4>1. s[1] = i
        BY <3>1
      <4> QED BY <1>11, <3>1, <4>1 DEF Pads!may_drive
    <3>2. CASE s # <<i, source>>
      BY <1>5, <1>11, <3>2 DEF Pads!may_drive
    <3> QED BY <3>1, <3>2
  <2>2. \A j \in Id, d \in Pads!Dir :
          nav'.held[<<j, "pad">>] = d => \/ nav.held[<<j, "pad">>] = d /\ ~Lets(e, j, d)
                                         \/ e.type = "down" /\ i = j /\ e.dir = d
    <3> TAKE j \in Id, d \in Pads!Dir
    <3>1. d # "none" /\ (j # i => ~Lets(e, j, d))
      BY DEF Pads!Dir, Lets, i
    <3>2. CASE j = i /\ source = "pad"
      BY <1>11, <3>1, <3>2
    <3>3. CASE j = i /\ source = "stick"
      <4>1. <<j, "pad">> # <<i, source>>
        BY <3>3
      <4>2. nav'.held[<<j, "pad">>] = nav.held[<<j, "pad">>]
        BY <1>6, <1>11, <4>1
      <4>3. ~(nav.held[<<i, "pad">>] = d /\ Lets(e, i, d))
        BY <1>11, <3>3
      <4> QED BY <3>3, <4>2, <4>3
    <3>4. CASE j # i
      <4>1. <<j, "pad">> # <<i, source>>
        BY <3>4
      <4> QED BY <1>6, <1>11, <3>1, <3>4, <4>1
    <3> QED BY <1>11, <3>2, <3>3, <3>4
  <2>3. \A j \in Id, d \in Pads!Dir :
          nav'.held[<<j, "stick">>] = d => \/ nav.held[<<j, "stick">>] = d /\ ~Moves(e, j)
                                           \/ e.type = "stick" /\ i = j /\ Pads!still_pushed(e.stick, d)
    <3> TAKE j \in Id, d \in Pads!Dir
    <3>1. d # "none" /\ (j # i => ~Moves(e, j))
      BY DEF Pads!Dir, Moves, i
    <3>2. CASE j = i /\ source = "stick"
      BY <1>11, <3>1, <3>2
    <3>3. CASE j = i /\ source = "pad"
      <4>1. <<j, "stick">> # <<i, source>>
        BY <3>3
      <4>2. nav'.held[<<j, "stick">>] = nav.held[<<j, "stick">>]
        BY <1>6, <1>11, <4>1
      <4>3. ~(nav.held[<<i, "stick">>] = d /\ Moves(e, i))
        BY <1>11, <3>3
      <4> QED BY <3>3, <4>2, <4>3
    <3>4. CASE j # i
      <4>1. <<j, "stick">> # <<i, source>>
        BY <3>4
      <4> QED BY <1>6, <1>11, <3>1, <3>4, <4>1
    <3> QED BY <1>11, <3>2, <3>3, <3>4
  <2>4. pads' \in [Id -> Kind] /\ \A j \in Id : pads'[j] = pads[j] /\ e.type # "removed"
    BY <1>1, <1>11
  <2> QED BY <1>8, <1>11, <2>1, <2>2, <2>3, <2>4
\* An event that changes nothing that is held.
<1>12. ASSUME pads' = pads, events' = rest, nav' = nav,
              \A d \in Pads!Dir : nav.held[<<i, "pad">>] = d => ~Lets(e, i, d),
              \A d \in Pads!Dir : nav.held[<<i, "stick">>] = d => ~Moves(e, i),
              e.type # "removed",
              drove' = drove \/ (drove' = e.by /\ Pads!may_drive(i))
       PROVE  PadsInv'
  <2>1. \A s \in Pads!Source : nav'.held[s] # "none" => Pads!may_drive(s[1])'
    BY <1>5, <1>12 DEF Pads!may_drive
  <2>2. \A j \in Id, d \in Pads!Dir : j # i => ~Lets(e, j, d) /\ ~Moves(e, j)
    BY DEF Lets, Moves, i
  <2>3. \A j \in Id, d \in Pads!Dir :
          /\ nav'.held[<<j, "pad">>] = d => nav.held[<<j, "pad">>] = d /\ ~Lets(e, j, d)
          /\ nav'.held[<<j, "stick">>] = d => nav.held[<<j, "stick">>] = d /\ ~Moves(e, j)
    BY <1>12, <2>2
  <2>4. pads' \in [Id -> Kind] /\ (\A j \in Id : pads'[j] = pads[j]) /\ HeldTyped
    BY <1>1, <1>12
  <2> QED BY <1>8, <1>12, <2>1, <2>3, <2>4
\* A pad that may not drive holds nothing.
<1>13. ~Pads!may_drive(i) => nav.held[<<i, "pad">>] = "none" /\ nav.held[<<i, "stick">>] = "none"
  BY <1>3, <1>5, <1>6
<1>14. \A d \in Pads!Dir : d # "none"
  BY DEF Pads!Dir
<1>15. CASE e.type \in {"down", "up", "repeat", "stick"} /\ nav' = nav /\ ~Pads!may_drive(i)
  <2>1. pads' = pads /\ drove' = drove /\ events' = rest
    BY <1>7, <1>15 DEF Pads!Takes, i
  <2> QED BY <1>12, <1>13, <1>14, <1>15, <2>1
<1>16. CASE e.type = "repeat" /\ Pads!may_drive(i)
  <2>1. pads' = pads /\ nav' = nav /\ events' = rest /\ drove' = e.by
    BY <1>7, <1>16 DEF Pads!Takes, i
  <2>2. \A d \in Pads!Dir : ~Lets(e, i, d) /\ ~Moves(e, i)
    BY <1>16 DEF Lets, Moves
  <2> QED BY <1>12, <1>16, <2>1, <2>2
<1>17. CASE e.type = "down" /\ Pads!may_drive(i)
  <2>1. pads' = pads /\ nav' = Pads!Holds(i, "pad", e.dir) /\ events' = rest /\ drove' = e.by
    BY <1>7, <1>17 DEF Pads!Takes, i
  <2>2. /\ nav' = [sticks |-> nav'.sticks, held |-> nav'.held] /\ nav'.sticks \in [Id -> Stick]
        /\ nav'.held = [nav.held EXCEPT ![<<i, "pad">>] = e.dir]
    BY <1>1, <2>1 DEF Pads!Holds
  <2>3. /\ HeldTyped /\ nav'.held[<<i, "pad">>] = e.dir
        /\ \A s \in Pads!Source : s # <<i, "pad">> => nav'.held[s] = nav.held[s]
    BY <1>1, <1>3, <2>2, HoldsOne
  <2>4. \A d \in Pads!Dir : ~Lets(e, i, d) /\ ~Moves(e, i)
    BY <1>17 DEF Lets, Moves
  <2> QED BY <1>3, <1>11, <1>17, <2>1, <2>3, <2>4
<1>18. CASE e.type = "up" /\ Pads!may_drive(i)
  <2>1. pads' = pads /\ nav' = Pads!release(i, e.dir) /\ events' = rest /\ drove' = drove
    BY <1>7, <1>18
  <2>2. ~Moves(e, i) /\ \A d \in Pads!Dir : Lets(e, i, d) => d = e.dir
    BY <1>18 DEF Lets, Moves
  <2>3. CASE nav.held[<<i, "pad">>] = e.dir
    <3>1. /\ nav' = [sticks |-> nav'.sticks, held |-> nav'.held] /\ nav'.sticks \in [Id -> Stick]
          /\ nav'.held = [nav.held EXCEPT ![<<i, "pad">>] = "none"]
      BY <1>1, <2>1, <2>3 DEF Pads!release, Pads!Holds
    <3>2. /\ HeldTyped /\ nav'.held[<<i, "pad">>] = "none"
          /\ \A s \in Pads!Source : s # <<i, "pad">> => nav'.held[s] = nav.held[s]
      BY <1>1, <1>3, <3>1, HoldsOne
    <3> QED BY <1>11, <1>18, <2>1, <2>2, <3>2
  <2>4. CASE nav.held[<<i, "pad">>] # e.dir
    <3>1. nav' = nav
      BY <2>1, <2>4 DEF Pads!release
    <3> QED BY <1>12, <1>18, <2>1, <2>2, <2>4, <3>1
  <2> QED BY <2>3, <2>4
<1>19. CASE e.type = "stick" /\ Pads!may_drive(i)
  <2> DEFINE said == Pads!steered(i, e.stick)
             way == said.nav.held[<<i, "stick">>]
             r == Pads!Repeat(i, said.step)
  <2>1. /\ pads' = pads /\ drove' = drove /\ nav' = said.nav
        /\ events' = IF said.step # "none" THEN Append(rest, r) ELSE rest
    BY <1>7, <1>19
  <2>2. /\ said.step \in Pads!Dir \cup {"none"} /\ way \in Pads!Dir \cup {"none"}
        /\ said.nav = [sticks |-> [nav.sticks EXCEPT ![i] = e.stick],
                       held |-> [nav.held EXCEPT ![<<i, "stick">>] = way]]
        /\ way # "none" => Pads!still_pushed(e.stick, way)
    BY <1>1, <1>3, Steers
  <2> HIDE DEF said, way
  <2>3. /\ nav'.held = [nav.held EXCEPT ![<<i, "stick">>] = way] /\ nav'.sticks \in [Id -> Stick]
        /\ nav' = [sticks |-> nav'.sticks, held |-> nav'.held]
    BY <1>1, <1>3, <2>1, <2>2
  <2>4. /\ HeldTyped /\ nav'.held[<<i, "stick">>] = way
        /\ \A s \in Pads!Source : s # <<i, "stick">> => nav'.held[s] = nav.held[s]
    <3>1. way \in Pads!Dir \cup {"none"} /\ "stick" \in {"pad", "stick"} /\ PadsTyped /\ i \in Id
      BY <1>1, <1>3, <2>2
    <3> QED BY <2>3, <3>1, HoldsOne, Zenon
  <2>5. \A x \in Pads!Dir : ~Lets(e, i, x)
    BY <1>19 DEF Lets
  <2>6. CASE said.step = "none"
    <3>1. events' = rest
      BY <2>1, <2>6
    <3> QED BY <1>11, <1>19, <2>1, <2>2, <2>4, <2>5, <3>1
  <2>7. CASE said.step # "none"
    <3>1. r \in PadEvent /\ r.id = i /\ r.by = pads[i] /\ r.type = "repeat"
      BY <1>1, <1>3, <2>2, <2>7, RepeatTyped
    <3>2. ~AnyPad => pads[i] = "clone"
      BY <1>19 DEF Pads!may_drive
    <3> HIDE DEF r
    <3>3. events' = Append(rest, r)
      BY <2>1, <2>7
    <3>4. \A s \in Pads!Source : nav'.held[s] # "none" => Pads!may_drive(s[1])'
      <4> TAKE s \in Pads!Source
      <4>1. CASE s = <<i, "stick">>
        <5>1. s[1] = i
          BY <4>1
        <5> QED BY <1>19, <2>1, <5>1 DEF Pads!may_drive
      <4>2. CASE s # <<i, "stick">>
        BY <1>5, <2>1, <2>4, <4>2 DEF Pads!may_drive
      <4> QED BY <4>1, <4>2
    <3>5. \A j \in Id, x \in Pads!Dir :
            /\ nav'.held[<<j, "pad">>] = x => nav.held[<<j, "pad">>] = x /\ ~Lets(e, j, x)
            /\ nav'.held[<<j, "stick">>] = x => \/ nav.held[<<j, "stick">>] = x /\ ~Moves(e, j)
                                                \/ i = j /\ Pads!still_pushed(e.stick, x)
      <4> TAKE j \in Id, x \in Pads!Dir
      <4>1. /\ j # i => ~Lets(e, j, x) /\ ~Moves(e, j)
            /\ ~Lets(e, i, x) /\ x # "none"
        BY <1>14, <2>5 DEF Lets, Moves, i
      <4>2. nav'.held[<<j, "pad">>] = nav.held[<<j, "pad">>]
        <5>1. <<j, "pad">> # <<i, "stick">>
          OBVIOUS
        <5> QED BY <1>6, <2>4, <5>1
      <4>3. j # i => nav'.held[<<j, "stick">>] = nav.held[<<j, "stick">>]
        <5>1. j # i => <<j, "stick">> # <<i, "stick">>
          OBVIOUS
        <5> QED BY <1>6, <2>4, <5>1
      <4> QED BY <2>2, <2>4, <4>1, <4>2, <4>3
    <3>6. pads' \in [Id -> Kind] /\ \A j \in Id : pads'[j] = pads[j] /\ ~(i = j /\ e.type = "removed")
      BY <1>1, <1>19, <2>1
    <3> QED BY <1>1, <1>19, <2>1, <2>4, <3>1, <3>2, <3>3, <3>4, <3>5, <3>6, HandleStep DEF e, i, rest
  <2> QED BY <2>6, <2>7
<1>20. ~Pads!may_drive(i) /\ e.type \in {"down", "up", "repeat", "stick"} => nav' = nav
  BY <1>7
<1> QED BY <1>3, <1>9, <1>10, <1>15, <1>16, <1>17, <1>18, <1>19, <1>20

LEMMA PadsNext ==
  ASSUME PadsInv, Pads!Next
  PROVE  PadsInv'
  BY PadsDue, PadsHandle, PadsPlug, PadsUnplug, PadsPress, PadsPush DEF Pads!Next

LEMMA PadsPromise ==
  ASSUME PadsInv
  PROVE  Pads!OnlyClonesDrive /\ Pads!HeldIsPressed
<1>1. events \in Seq(PadEvent)
  BY DEF PadsInv, PadsTyped
<1>2. DOMAIN events = 1..Len(events)
  BY <1>1, LenProperties
<1> QED BY <1>2 DEF PadsInv, HeldSo, Lets, Moves, Pads!HeldIsPressed

-----------------------------------------------------------------------------

(***************************************************************************)
(* The pictures.  A game that is asked for, from the queue until its file  *)
(* is renamed or there is none, has no picture and is drawn without one,   *)
(* and is nowhere else in the queue or in hand; what the decoder was given *)
(* has a file that stays until its tile says what became of it.            *)
(***************************************************************************)

ArtTyped ==
  /\ pictures \in [Tile -> [file : Art!Stored, part : Art!Stored \cup {"half"}, miss : {Art!None, "before", "now"}]]
  /\ queue \in Seq(Tile)
  /\ worker \in [Worker -> [at : {"get", "ask", "put", "write", "fill", "rename"},
                            game : Tile \cup {Art!None}, body : Art!Stored]]
  /\ decode = [todo |-> decode.todo, asked |-> decode.asked, ready |-> decode.ready]
  /\ decode.todo \in Seq(Tile) /\ decode.asked \subseteq Tile
  /\ art \in [Tile -> {"unknown", "picture", "title"}]
  /\ requests \in [Tile -> Nat]

WorksOn(w, g) == worker[w].at # "get" /\ worker[w].game = g

Once(q) == \A j, k \in 1..Len(q) : q[j] = q[k] => j = k

Awaits(q, g) == \E k \in 1..Len(q) : q[k] = g

InFlight(g) == Awaits(queue, g) \/ \E w \in Worker : WorksOn(w, g)

\* A thread has its game to itself, and wrote all of it before it renames.
Working(w) ==
  worker[w].at # "get" =>
    LET g == worker[w].game IN
    /\ g \in Tile /\ ~Awaits(queue, g)
    /\ \A v \in Worker : WorksOn(v, g) => v = w
    /\ worker[w].at = "ask" => requests[g] = 0
    /\ worker[w].at = "rename" => pictures[g].part = worker[w].body

Drawn(g) ==
  /\ InFlight(g) => g \in seen /\ pictures[g].file = Art!None /\ art[g] = "unknown"
  /\ requests[g] <= 1
  /\ g \notin seen \/ Awaits(queue, g) => requests[g] = 0
  /\ art[g] = "picture" => pictures[g].file = "picture"
  /\ art[g] = "title" => pictures[g].file = Art!None

Decoding(g) ==
  /\ Awaits(decode.todo, g) \/ g \in DOMAIN decode.ready => g \in decode.asked
  /\ ~(Awaits(decode.todo, g) /\ g \in DOMAIN decode.ready)
  /\ g \in decode.asked => pictures[g].file # Art!None /\ art[g] = "unknown"
  /\ g \in DOMAIN decode.ready =>
       decode.ready[g] = IF pictures[g].file = "picture" THEN "picture" ELSE "title"

ArtInv ==
  /\ ArtTyped
  /\ Once(queue) /\ Once(decode.todo)
  /\ \A w \in Worker : Working(w)
  /\ \A g \in Tile : Drawn(g) /\ Decoding(g)

LEMMA AwaitsMore ==
  ASSUME NEW q \in Seq(Tile), NEW g \in Tile
  PROVE  /\ Append(q, g) \in Seq(Tile)
         /\ \A h : Awaits(Append(q, g), h) <=> Awaits(q, h) \/ h = g
         /\ Once(q) /\ ~Awaits(q, g) => Once(Append(q, g))
<1> DEFINE more == Append(q, g)
           n == Len(q)
<1>1. /\ more \in Seq(Tile) /\ Len(more) = n + 1 /\ n \in Nat
      /\ \A k \in 1..n : more[k] = q[k]
      /\ more[n + 1] = g
  BY AppendProperties, LenProperties
<1> HIDE DEF more, n
<1>2. /\ \A k \in 1..Len(more) : k \in 1..n \/ k = n + 1
      /\ n + 1 \in 1..Len(more) /\ \A k \in 1..n : k \in 1..Len(more)
  BY <1>1
<1>3. \A h : Awaits(more, h) <=> Awaits(q, h) \/ h = g
  BY <1>1, <1>2 DEF Awaits, n
<1>4. Once(q) /\ ~Awaits(q, g) => Once(more)
  BY <1>1, <1>2 DEF Once, Awaits, n
<1> QED BY <1>1, <1>3, <1>4 DEF more

LEMMA AwaitsLess ==
  ASSUME NEW q \in Seq(Tile), q # <<>>
  PROVE  /\ Head(q) \in Tile /\ Tail(q) \in Seq(Tile)
         /\ \A h : Awaits(q, h) <=> Awaits(Tail(q), h) \/ h = Head(q)
         /\ Once(q) => Once(Tail(q)) /\ ~Awaits(Tail(q), Head(q))
<1> DEFINE less == Tail(q)
           n == Len(q)
<1>1. /\ less \in Seq(Tile) /\ Len(less) = n - 1 /\ n \in Nat \ {0}
      /\ \A k \in 1..Len(less) : less[k] = q[k + 1]
      /\ Head(q) = q[1] /\ q[1] \in Tile
  BY HeadTailProperties, EmptySeq, LenProperties, ElementOfSeq
<1> HIDE DEF less, n
<1>2. /\ \A k \in 1..n : k = 1 \/ (k - 1 \in 1..Len(less) /\ (k - 1) + 1 = k)
      /\ \A k \in 1..Len(less) : k + 1 \in 1..n /\ k + 1 # 1 /\ k \in Nat
      /\ 1 \in 1..n
  BY <1>1
<1>3. \A h : Awaits(q, h) <=> Awaits(less, h) \/ h = q[1]
  <2> TAKE h
  <2>1. ASSUME Awaits(q, h)
        PROVE  Awaits(less, h) \/ h = q[1]
    <3>1. PICK k \in 1..n : q[k] = h
      BY <2>1 DEF Awaits, n
    <3>2. k = 1 \/ (k - 1 \in 1..Len(less) /\ less[k - 1] = q[k])
      BY <1>1, <1>2
    <3> QED BY <3>1, <3>2 DEF Awaits
  <2>2. Awaits(less, h) \/ h = q[1] => Awaits(q, h)
    BY <1>1, <1>2 DEF Awaits, n
  <2> QED BY <2>1, <2>2
<1>4. ASSUME Once(q)
      PROVE  Once(less) /\ ~Awaits(less, q[1])
  <2>1. \A j, k \in 1..Len(less) : less[j] = less[k] => j + 1 = k + 1
    BY <1>1, <1>2, <1>4 DEF Once, n
  <2>2. \A k \in 1..Len(less) : less[k] # q[1]
    BY <1>1, <1>2, <1>4 DEF Once, n
  <2>3. \A j, k \in 1..Len(less) : j + 1 = k + 1 => j = k
    BY <1>1
  <2> QED BY <2>1, <2>2, <2>3 DEF Once, Awaits
<1> QED BY <1>1, <1>3, <1>4 DEF less

LEMMA AwaitsNone == Once(<<>>) /\ <<>> \in Seq(Tile) /\ \A h : ~Awaits(<<>>, h)
  BY DEF Once, Awaits

LEMMA ArtFresh ==
  ASSUME pictures' \in [Tile -> [file : Art!Stored, part : Art!Stored \cup {"half"}, miss : {Art!None, "before", "now"}]],
         queue' = <<>>, decode' = [todo |-> <<>>, asked |-> {}, ready |-> [g \in {} |-> Art!None]],
         worker' = [w \in Worker |-> Art!Resting], art' = [g \in Tile |-> "unknown"],
         requests' = [g \in Tile |-> 0]
  PROVE  ArtInv'
<1>1. Art!Resting \in [at : {"get", "ask", "put", "write", "fill", "rename"}, game : Tile \cup {Art!None}, body : Art!Stored]
      /\ Art!Resting.at = "get"
  BY DEF Art!Resting, Art!Stored
<1>2. decode'.todo = <<>> /\ decode'.asked = {} /\ DOMAIN decode'.ready = {}
      /\ decode' = [todo |-> decode'.todo, asked |-> decode'.asked, ready |-> decode'.ready]
  OBVIOUS
<1>3. ArtTyped'
  BY <1>1, <1>2, AwaitsNone DEF ArtTyped
<1>4. \A w \in Worker : worker'[w].at = "get"
  BY <1>1
<1>5. \A g \in Tile : ~InFlight(g)'
  BY <1>4, AwaitsNone DEF InFlight, WorksOn
<1>6. \A g \in Tile : art'[g] = "unknown" /\ requests'[g] = 0
  OBVIOUS
<1>7. \A g \in Tile : Drawn(g)'
  BY <1>5, <1>6 DEF Drawn
<1>8. \A g \in Tile : Decoding(g)'
  BY <1>2, AwaitsNone DEF Decoding
<1>9. \A w \in Worker : Working(w)'
  BY <1>4 DEF Working
<1>10. Once(queue)' /\ Once(decode.todo)'
  BY <1>2, AwaitsNone
<1> QED BY <1>3, <1>7, <1>8, <1>9, <1>10 DEF ArtInv

LEMMA ArtStarts ==
  ASSUME Art!Init
  PROVE  ArtInv
<1>1. Art!Empty \in [file : Art!Stored, part : Art!Stored \cup {"half"}, miss : {Art!None, "before", "now"}]
  BY DEF Art!Empty, Art!Stored
<1>2. /\ pictures \in [Tile -> [file : Art!Stored, part : Art!Stored \cup {"half"}, miss : {Art!None, "before", "now"}]]
      /\ queue = <<>> /\ decode = [todo |-> <<>>, asked |-> {}, ready |-> [g \in {} |-> Art!None]]
      /\ worker = [w \in Worker |-> Art!Resting] /\ art = [g \in Tile |-> "unknown"]
      /\ requests = [g \in Tile |-> 0]
  BY <1>1 DEF Art!Init, Art!Fresh
<1>3. Art!Resting \in [at : {"get", "ask", "put", "write", "fill", "rename"}, game : Tile \cup {Art!None}, body : Art!Stored]
      /\ Art!Resting.at = "get"
  BY DEF Art!Resting, Art!Stored
<1>4. decode.todo = <<>> /\ decode.asked = {} /\ DOMAIN decode.ready = {}
      /\ decode = [todo |-> decode.todo, asked |-> decode.asked, ready |-> decode.ready]
  BY <1>2
<1>5. ArtTyped
  BY <1>2, <1>3, <1>4, AwaitsNone DEF ArtTyped
<1>6. \A w \in Worker : worker[w].at = "get"
  BY <1>2, <1>3
<1>7. \A g \in Tile : ~InFlight(g) /\ art[g] = "unknown" /\ requests[g] = 0
  BY <1>2, <1>6, AwaitsNone DEF InFlight, WorksOn
<1>8. \A g \in Tile : Drawn(g)
  BY <1>7 DEF Drawn
<1>9. \A g \in Tile : Decoding(g)
  BY <1>4, AwaitsNone DEF Decoding
<1>10. \A w \in Worker : Working(w)
  BY <1>6 DEF Working
<1> QED BY <1>2, <1>4, <1>5, <1>8, <1>9, <1>10, AwaitsNone DEF ArtInv

(* A step of a loader's thread on the game it has. *)

LEMMA HandsStep ==
  ASSUME ArtInv, NEW w \in Worker, worker[w].at # "get", NEW g \in Tile, g = worker[w].game,
         NEW n \in [at : {"get", "ask", "put", "write", "fill", "rename"}, game : Tile \cup {Art!None}, body : Art!Stored],
         worker' = [worker EXCEPT ![w] = n], n.at # "get" => n.game = g, n.at # "ask",
         NEW p \in [file : Art!Stored, part : Art!Stored \cup {"half"}, miss : {Art!None, "before", "now"}],
         pictures' = [pictures EXCEPT ![g] = p], p.file = Art!None \/ n.at = "get",
         n.at = "rename" => p.part = n.body,
         requests' \in [Tile -> Nat], requests'[g] <= 1, \A h \in Tile \ {g} : requests'[h] = requests[h],
         UNCHANGED <<queue, seen, decode, art>>
  PROVE  ArtInv'
<1>1. ArtTyped /\ ArtTyped' /\ Working(w) /\ WorksOn(w, g) /\ InFlight(g) /\ Drawn(g) /\ Decoding(g)
  BY DEF ArtInv, ArtTyped, WorksOn, InFlight
<1>2. /\ worker'[w] = n /\ \A v \in Worker : v # w => worker'[v] = worker[v]
      /\ pictures'[g] = p /\ \A h \in Tile : h # g => pictures'[h] = pictures[h]
  BY <1>1 DEF ArtTyped
<1>3. g \in seen /\ pictures[g].file = Art!None /\ art[g] = "unknown" /\ ~Awaits(queue, g)
      /\ \A v \in Worker : WorksOn(v, g) => v = w
  BY <1>1 DEF Drawn, Working
<1>4. \A h \in Tile : InFlight(h)' => InFlight(h) /\ (h = g => n.at # "get")
  <2> SUFFICES ASSUME NEW h \in Tile, InFlight(h)'
               PROVE  InFlight(h) /\ (h = g => n.at # "get")
    OBVIOUS
  <2>1. CASE Awaits(queue, h)
    BY <1>3, <2>1 DEF InFlight
  <2>2. CASE \E v \in Worker : WorksOn(v, h)'
    <3>1. PICK v \in Worker : WorksOn(v, h)'
      BY <2>2
    <3>2. CASE v = w
      <4>1. h = g /\ n.at # "get"
        BY <1>2, <3>1, <3>2 DEF WorksOn
      <4> QED BY <1>1, <4>1
    <3>3. CASE v # w
      <4>1. WorksOn(v, h)
        BY <1>2, <3>1, <3>3 DEF WorksOn
      <4> QED BY <1>3, <3>3, <4>1 DEF InFlight
    <3> QED BY <3>2, <3>3
  <2> QED BY <2>1, <2>2 DEF InFlight
<1>5. \A h \in Tile : Drawn(h)'
  <2> TAKE h \in Tile
  <2>1. CASE h = g
    BY <1>2, <1>3, <1>4, <2>1 DEF Drawn
  <2>2. CASE h # g
    <3>1. Drawn(h)
      BY DEF ArtInv
    <3> QED BY <1>2, <1>4, <2>2, <3>1 DEF Drawn
  <2> QED BY <2>1, <2>2
<1>6. \A h \in Tile : Decoding(h)'
  <2> TAKE h \in Tile
  <2>1. CASE h = g
    <3>1. g \notin decode.asked
      BY <1>1, <1>3 DEF Decoding
    <3> QED BY <1>1, <2>1, <3>1 DEF Decoding
  <2>2. CASE h # g
    <3>1. Decoding(h)
      BY DEF ArtInv
    <3> QED BY <1>2, <2>2, <3>1 DEF Decoding
  <2> QED BY <2>1, <2>2
<1>7. \A v \in Worker : Working(v)'
  <2> TAKE v \in Worker
  <2>1. CASE v = w
    <3>1. \A u \in Worker : WorksOn(u, g)' => u = w
      BY <1>2, <1>3 DEF WorksOn
    <3> QED BY <1>2, <1>3, <2>1, <3>1 DEF Working
  <2>2. CASE v # w /\ worker[v].at # "get"
    <3> DEFINE h == worker[v].game
    <3>1. Working(v) /\ worker'[v] = worker[v]
      BY <1>2, <2>2 DEF ArtInv
    <3>2. h \in Tile /\ h # g
      BY <1>3, <2>2, <3>1 DEF Working, WorksOn
    <3>3. \A u \in Worker : WorksOn(u, h)' => WorksOn(u, h)
      BY <1>2, <3>2 DEF WorksOn
    <3> QED BY <1>2, <2>2, <3>1, <3>2, <3>3 DEF Working
  <2>3. CASE v # w /\ worker[v].at = "get"
    BY <1>2, <2>3 DEF Working
  <2> QED BY <2>1, <2>2, <2>3
<1> QED BY <1>1, <1>5, <1>6, <1>7 DEF ArtInv

Hand == [at : {"get", "ask", "put", "write", "fill", "rename"}, game : Tile \cup {Art!None}, body : Art!Stored]

Picture == [file : Art!Stored, part : Art!Stored \cup {"half"}, miss : {Art!None, "before", "now"}]

LEMMA ArtWorker ==
  ASSUME ArtInv, NEW w \in Worker, Art!Ask(w) \/ Art!Forget(w) \/ Art!Write(w) \/ Art!Rename(w)
  PROVE  ArtInv'
<1> DEFINE v == worker[w]
           g == v.game
<1>1. /\ ArtTyped /\ v \in Hand /\ v.at # "get" /\ UNCHANGED <<queue, seen, decode, art>>
      /\ worker \in [Worker -> Hand] /\ pictures \in [Tile -> Picture] /\ requests \in [Tile -> Nat]
  BY DEF ArtInv, ArtTyped, Hand, Picture, Art!Ask, Art!Forget, Art!Write, Art!Rename
<1>2. Working(w)
  BY DEF ArtInv
<1>3. /\ g \in Tile /\ ~Awaits(queue, g)
      /\ v.at = "ask" => requests[g] = 0
      /\ v.at = "rename" => pictures[g].part = v.body
  BY <1>1, <1>2 DEF Working
<1>4. pictures[g] \in Picture /\ InFlight(g)
  BY <1>1, <1>3 DEF InFlight, WorksOn
<1>5. pictures[g].file = Art!None /\ requests[g] <= 1
  BY <1>3, <1>4 DEF ArtInv, Drawn
<1>6. Art!Resting \in Hand /\ Art!Resting.at = "get"
  BY DEF Art!Resting, Art!Stored, Hand
<1> HIDE DEF v, g
<1>7. ASSUME NEW n \in Hand, worker' = [worker EXCEPT ![w] = n], n.at # "get" => n.game = g, n.at # "ask",
             NEW p \in Picture, pictures' = [pictures EXCEPT ![g] = p], p.file = Art!None \/ n.at = "get",
             n.at = "rename" => p.part = n.body,
             requests' = requests \/ (v.at = "ask" /\ requests' = [requests EXCEPT ![g] = @ + 1])
      PROVE  ArtInv'
  <2>1. requests' \in [Tile -> Nat] /\ requests'[g] <= 1 /\ \A h \in Tile \ {g} : requests'[h] = requests[h]
    BY <1>1, <1>3, <1>5, <1>7
  <2> QED BY <1>1, <1>3, <1>7, <2>1, HandsStep DEF Hand, Picture, g, v
<1>8. CASE Art!Ask(w)
  <2>1. v.at = "ask" /\ requests' = [requests EXCEPT ![g] = @ + 1]
    BY <1>8 DEF Art!Ask, v, g
  <2>2. CASE \E body \in Art!Stored \ {Art!None} :
               worker' = [worker EXCEPT ![w].at = "put", ![w].body = body] /\ UNCHANGED pictures
    <3>1. PICK body \in Art!Stored \ {Art!None} :
            worker' = [worker EXCEPT ![w].at = "put", ![w].body = body] /\ UNCHANGED pictures
      BY <2>2
    <3> DEFINE n == [v EXCEPT !.at = "put", !.body = body]
    <3>2. n \in Hand /\ n.at = "put" /\ n.game = g
      BY <1>1 DEF Hand, g
    <3>3. worker' = [worker EXCEPT ![w] = n] /\ pictures' = [pictures EXCEPT ![g] = pictures[g]]
      BY <1>1, <1>3, <3>1 DEF v
    <3> HIDE DEF n
    <3> QED BY <1>4, <1>5, <1>7, <2>1, <3>2, <3>3
  <2>3. CASE /\ pictures' = [pictures EXCEPT ![g].miss = "now"] \/ UNCHANGED pictures
             /\ worker' = [worker EXCEPT ![w] = Art!Resting]
    <3> DEFINE p == IF UNCHANGED pictures THEN pictures[g] ELSE [pictures[g] EXCEPT !.miss = "now"]
    <3>1. p \in Picture /\ pictures' = [pictures EXCEPT ![g] = p]
      <4>1. CASE UNCHANGED pictures
        BY <1>1, <1>3, <1>4, <4>1
      <4>2. CASE ~UNCHANGED pictures
        BY <1>1, <1>3, <1>4, <2>3, <4>2 DEF Picture
      <4> QED BY <4>1, <4>2
    <3> HIDE DEF p
    <3> QED BY <1>6, <1>7, <2>1, <2>3, <3>1
  <2> QED BY <1>8, <2>2, <2>3 DEF Art!Ask, v, g
<1>9. CASE Art!Forget(w)
  <2> DEFINE n == [v EXCEPT !.at = "write"]
  <2>1. n \in Hand /\ n.at = "write" /\ n.game = g /\ Art!Empty \in Picture /\ Art!Empty.file = Art!None
    BY <1>1 DEF Hand, Picture, Art!Empty, Art!Stored, g
  <2>2. worker' = [worker EXCEPT ![w] = n] /\ pictures' = [pictures EXCEPT ![g] = Art!Empty] /\ UNCHANGED requests
    BY <1>1, <1>9 DEF Art!Forget, Art!forgotten, v, g
  <2> HIDE DEF n
  <2> QED BY <1>7, <2>1, <2>2
<1>10. CASE Art!Write(w)
  <2> DEFINE n == [v EXCEPT !.at = IF v.at = "write" THEN "fill" ELSE "rename"]
             p == [pictures[g] EXCEPT !.part = IF v.at = "write" THEN "half" ELSE v.body]
  <2>1. /\ n \in Hand /\ n.at = (IF v.at = "write" THEN "fill" ELSE "rename") /\ n.game = g /\ n.body = v.body
        /\ v.body \in Art!Stored
    BY <1>1 DEF Hand, g
  <2>2. /\ p \in Picture /\ p.file = Art!None
        /\ p.part = IF v.at = "write" THEN "half" ELSE v.body
    BY <1>4, <1>5, <2>1 DEF Picture
  <2>3. worker' = [worker EXCEPT ![w] = n] /\ pictures' = [pictures EXCEPT ![g] = p] /\ UNCHANGED requests
    BY <1>1, <1>10 DEF Art!Write, v, g
  <2>4. n.at # "get" /\ n.at # "ask" /\ (n.at = "rename" => p.part = n.body)
    BY <2>1, <2>2
  <2> HIDE DEF n, p
  <2> QED BY <1>7, <2>1, <2>2, <2>3, <2>4
<1>11. CASE Art!Rename(w)
  <2> DEFINE p == [pictures[g] EXCEPT !.file = pictures[g].part, !.part = Art!None]
  <2>1. v.at = "rename" /\ pictures[g].part = v.body /\ v.body \in Art!Stored
    BY <1>1, <1>3, <1>11 DEF Art!Rename, v, Hand
  <2>2. p \in Picture
    BY <1>4, <2>1 DEF Picture, Art!Stored
  <2>3. worker' = [worker EXCEPT ![w] = Art!Resting] /\ pictures' = [pictures EXCEPT ![g] = p] /\ UNCHANGED requests
    BY <1>11, <1>1, <1>3 DEF Art!Rename, v, g
  <2>4. Art!Resting.at # "rename" /\ Art!Resting.at # "ask"
    BY <1>6
  <2> HIDE DEF p
  <2> QED BY <1>6, <1>7, <2>2, <2>3, <2>4
<1> QED BY <1>8, <1>9, <1>10, <1>11

LEMMA ArtTake ==
  ASSUME ArtInv, NEW w \in Worker, Art!Take(w)
  PROVE  ArtInv'
<1> DEFINE g == Head(queue)
           less == Tail(queue)
           n == [at |-> "ask", game |-> g, body |-> Art!None]
<1>1. /\ ArtTyped /\ worker[w].at = "get" /\ queue # <<>> /\ queue \in Seq(Tile)
      /\ queue' = less /\ worker' = [worker EXCEPT ![w] = n]
      /\ UNCHANGED <<pictures, seen, decode, art, requests>>
  BY DEF ArtInv, ArtTyped, Art!Take
<1>2. /\ g \in Tile /\ less \in Seq(Tile)
      /\ \A h : Awaits(queue, h) <=> Awaits(less, h) \/ h = g
      /\ Once(queue) => Once(less) /\ ~Awaits(less, g)
  BY <1>1, AwaitsLess
<1>3. Once(less) /\ ~Awaits(less, g)
  BY <1>2 DEF ArtInv
<1>4. n \in [at : {"get", "ask", "put", "write", "fill", "rename"}, game : Tile \cup {Art!None}, body : Art!Stored]
      /\ n.at = "ask" /\ n.game = g
  BY <1>2 DEF Art!Stored
<1> HIDE DEF n, g, less
<1>5. worker'[w] = n /\ \A v \in Worker : v # w => worker'[v] = worker[v]
  BY <1>1, <1>4 DEF ArtTyped
<1>6. ArtTyped'
  BY <1>1, <1>2, <1>4 DEF ArtTyped
<1>7. Awaits(queue, g)
  BY <1>2
<1>8. \A v \in Worker : ~WorksOn(v, g)
  BY <1>7 DEF ArtInv, Working, WorksOn
<1>9. \A v \in Worker : \A h : WorksOn(v, h)' <=> (v = w /\ h = g) \/ (v # w /\ WorksOn(v, h))
  BY <1>4, <1>5 DEF WorksOn
<1>10. \A h \in Tile : InFlight(h)' => InFlight(h)
  BY <1>1, <1>2, <1>7, <1>9 DEF InFlight
<1>11. \A h \in Tile : Drawn(h)'
  BY <1>1, <1>2, <1>10 DEF ArtInv, Drawn
<1>12. \A h \in Tile : Decoding(h)'
  BY <1>1 DEF ArtInv, Decoding
<1>13. \A v \in Worker : Working(v)'
  <2> TAKE v \in Worker
  <2>1. CASE v = w
    <3>1. requests[g] = 0
      BY <1>2, <1>7 DEF ArtInv, Drawn
    <3>2. PICK h \in Tile : h = g
      BY <1>2
    <3>3. \A u \in Worker : WorksOn(u, h)' => u = w
      BY <1>8, <1>9, <3>2
    <3>4. worker'[w].game = h /\ worker'[w].at = "ask" /\ requests'[h] = 0 /\ ~Awaits(queue', h)
      BY <1>1, <1>3, <1>4, <1>5, <3>1, <3>2
    <3> QED BY <2>1, <3>3, <3>4 DEF Working
  <2>2. CASE v # w /\ worker[v].at # "get"
    <3>1. Working(v) /\ worker'[v] = worker[v] /\ worker[v].game \in Tile
      BY <1>5, <2>2 DEF ArtInv, Working
    <3> PICK h \in Tile : h = worker[v].game
      BY <3>1
    <3>2. h # g /\ ~Awaits(less, h) /\ worker'[v].game = h
      BY <1>2, <1>8, <2>2, <3>1 DEF Working, WorksOn
    <3>3. \A u \in Worker : WorksOn(u, h)' => WorksOn(u, h)
      BY <1>9, <3>2
    <3> QED BY <1>1, <2>2, <3>1, <3>2, <3>3 DEF Working
  <2>3. CASE v # w /\ worker[v].at = "get"
    BY <1>5, <2>3 DEF Working
  <2> QED BY <2>1, <2>2, <2>3
<1> QED BY <1>1, <1>3, <1>6, <1>11, <1>12, <1>13 DEF ArtInv

(* A step of the frame, which leaves the threads alone. *)

LEMMA FrameStep ==
  ASSUME ArtInv, ArtTyped', UNCHANGED <<worker, requests>>, NEW g \in Tile,
         UNCHANGED <<queue, seen>> \/ /\ art[g] = "unknown" /\ pictures[g].file = Art!None /\ g \notin seen
                                      /\ seen' = seen \cup {g} /\ queue' = Append(queue, g) /\ UNCHANGED art,
         \A h \in Tile : \/ pictures'[h] = pictures[h]
                         \/ ~InFlight(h) /\ pictures'[h].file = Art!None /\ art'[h] = "title" /\ UNCHANGED <<queue, seen>>,
         \A h \in Tile : \/ art'[h] = art[h] \/ art'[h] = "unknown"
                         \/ ~InFlight(h) /\ art'[h] = "picture" /\ pictures'[h].file = "picture" /\ UNCHANGED <<queue, seen>>
                         \/ ~InFlight(h) /\ art'[h] = "title" /\ pictures'[h].file = Art!None /\ UNCHANGED <<queue, seen>>,
         Once(decode'.todo), \A h \in Tile : Decoding(h)'
  PROVE  ArtInv'
<1>1. \A h, v : WorksOn(v, h)' <=> WorksOn(v, h)
  BY DEF WorksOn
<1>2. CASE UNCHANGED <<queue, seen>>
  <2>1. \A h \in Tile : InFlight(h)' <=> InFlight(h)
    BY <1>1, <1>2 DEF InFlight
  <2>2. \A h \in Tile : Drawn(h)'
    BY <1>2, <2>1 DEF ArtInv, Drawn
  <2>3. \A v \in Worker : Working(v)'
    <3> TAKE v \in Worker
    <3> SUFFICES ASSUME worker[v].at # "get"
                 PROVE  Working(v)'
      BY DEF Working
    <3> DEFINE h == worker[v].game
    <3>1. Working(v) /\ h \in Tile /\ InFlight(h)
      BY DEF ArtInv, Working, InFlight, WorksOn
    <3>2. pictures'[h] = pictures[h]
      BY <3>1
    <3> QED BY <1>1, <1>2, <3>1, <3>2 DEF Working
  <2> QED BY <1>2, <2>2, <2>3 DEF ArtInv
<1>3. CASE /\ art[g] = "unknown" /\ pictures[g].file = Art!None /\ g \notin seen
           /\ seen' = seen \cup {g} /\ queue' = Append(queue, g) /\ UNCHANGED art
           /\ ~UNCHANGED <<queue, seen>>
  <2>1. queue \in Seq(Tile) /\ ~InFlight(g) /\ requests[g] = 0
    BY <1>3 DEF ArtInv, ArtTyped, Drawn
  <2>2. ~Awaits(queue, g) /\ Once(queue)
    BY <2>1 DEF InFlight, ArtInv
  <2>3. (\A h : Awaits(queue', h) <=> Awaits(queue, h) \/ h = g) /\ Once(queue')
    BY <1>3, <2>1, <2>2, AwaitsMore
  <2>4. \A h \in Tile : InFlight(h)' <=> InFlight(h) \/ h = g
    BY <1>1, <2>3 DEF InFlight
  <2>5. \A h \in Tile : pictures'[h] = pictures[h]
    BY <1>3
  <2>6. \A h \in Tile : Drawn(h)'
    <3> TAKE h \in Tile
    <3>1. Drawn(h)
      BY DEF ArtInv
    <3> QED BY <1>3, <2>1, <2>3, <2>4, <2>5, <3>1 DEF Drawn
  <2>7. \A v \in Worker : Working(v)'
    <3> TAKE v \in Worker
    <3> SUFFICES ASSUME worker[v].at # "get"
                 PROVE  Working(v)'
      BY DEF Working
    <3> DEFINE h == worker[v].game
    <3>1. Working(v) /\ h \in Tile /\ InFlight(h)
      BY DEF ArtInv, Working, InFlight, WorksOn
    <3>2. pictures'[h] = pictures[h] /\ h # g
      BY <2>1, <2>5, <3>1
    <3> QED BY <1>1, <2>3, <3>1, <3>2 DEF Working
  <2> QED BY <2>3, <2>6, <2>7 DEF ArtInv
<1> QED BY <1>2, <1>3

LEMMA ArtWanted ==
  ASSUME ArtInv, NEW g \in Tile, art[g] = "unknown", pictures[g].file = Art!None, Art!Wanted(g)
  PROVE  ArtInv'
<1>1. /\ g \notin seen /\ seen' = seen \cup {g} /\ queue' = Append(queue, g)
      /\ UNCHANGED <<pictures, worker, decode, art, requests>> /\ ArtTyped
  BY DEF Art!Wanted, ArtInv
<1>2. queue' \in Seq(Tile)
  BY <1>1, AwaitsMore DEF ArtTyped
<1>3. ArtTyped'
  BY <1>1, <1>2 DEF ArtTyped
<1>4. \A h \in Tile : Decoding(h)'
  BY <1>1 DEF ArtInv, Decoding
<1>5. Once(decode'.todo)
  BY <1>1 DEF ArtInv
<1> QED BY <1>1, <1>3, <1>4, <1>5, FrameStep

LEMMA ArtAsksDecoder ==
  ASSUME ArtInv, NEW g \in Tile, art[g] = "unknown", pictures[g].file # Art!None, g \notin decode.asked,
         decode' = [decode EXCEPT !.asked = @ \cup {g}, !.todo = Append(@, g)],
         UNCHANGED <<art, pictures, queue, seen, worker, requests>>
  PROVE  ArtInv'
<1>1. /\ ArtTyped /\ decode = [todo |-> decode.todo, asked |-> decode.asked, ready |-> decode.ready]
      /\ decode.todo \in Seq(Tile) /\ decode.asked \subseteq Tile
  BY DEF ArtInv, ArtTyped
<1>2. Decoding(g)
  BY DEF ArtInv
<1>3. /\ decode' = [todo |-> decode'.todo, asked |-> decode'.asked, ready |-> decode'.ready]
      /\ decode'.todo = Append(decode.todo, g) /\ decode'.asked = decode.asked \cup {g}
      /\ decode'.ready = decode.ready
  BY <1>1
<1>4. ~Awaits(decode.todo, g) /\ g \notin DOMAIN decode.ready
  BY <1>2 DEF Decoding
<1>5. /\ decode'.todo \in Seq(Tile) /\ Once(decode'.todo)
      /\ \A h : Awaits(decode'.todo, h) <=> Awaits(decode.todo, h) \/ h = g
  BY <1>1, <1>3, <1>4, AwaitsMore DEF ArtInv
<1>6. ArtTyped'
  BY <1>1, <1>3, <1>5 DEF ArtTyped
<1>7. \A h \in Tile : Decoding(h)'
  <2> TAKE h \in Tile
  <2>1. Decoding(h)
    BY DEF ArtInv
  <2> QED BY <1>3, <1>4, <1>5, <2>1 DEF Decoding
<1> QED BY <1>5, <1>6, <1>7, FrameStep

LEMMA ArtTileTold ==
  ASSUME ArtInv, NEW g \in Tile, pictures[g].file # Art!None, g \in DOMAIN decode.ready,
         decode' = [decode EXCEPT !.asked = @ \ {g}, !.ready = [k \in DOMAIN @ \ {g} |-> @[k]]],
         art' = [art EXCEPT ![g] = decode.ready[g]],
         pictures' = IF decode.ready[g] = "title" THEN [pictures EXCEPT ![g] = Art!forgotten] ELSE pictures,
         UNCHANGED <<queue, seen, worker, requests>>
  PROVE  ArtInv'
<1>1. /\ ArtTyped /\ decode = [todo |-> decode.todo, asked |-> decode.asked, ready |-> decode.ready]
      /\ decode.todo \in Seq(Tile) /\ decode.asked \subseteq Tile
      /\ art \in [Tile -> {"unknown", "picture", "title"}] /\ pictures \in [Tile -> Picture]
  BY DEF ArtInv, ArtTyped, Picture
<1>2. Decoding(g) /\ Drawn(g)
  BY DEF ArtInv
<1>3. /\ decode' = [todo |-> decode'.todo, asked |-> decode'.asked, ready |-> decode'.ready]
      /\ decode'.todo = decode.todo /\ decode'.asked = decode.asked \ {g}
      /\ decode'.ready = [k \in DOMAIN decode.ready \ {g} |-> decode.ready[k]]
  BY <1>1
<1>4. /\ decode.ready[g] = (IF pictures[g].file = "picture" THEN "picture" ELSE "title")
      /\ ~Awaits(decode.todo, g) /\ ~InFlight(g)
  BY <1>2 DEF Decoding, Drawn
<1>5. Art!forgotten \in Picture /\ Art!forgotten.file = Art!None
  BY DEF Art!forgotten, Art!Empty, Picture, Art!Stored
<1>6. /\ art' \in [Tile -> {"unknown", "picture", "title"}]
      /\ art'[g] = decode.ready[g] /\ \A h \in Tile \ {g} : art'[h] = art[h]
  BY <1>1, <1>4
<1>7. /\ pictures' \in [Tile -> Picture] /\ \A h \in Tile \ {g} : pictures'[h] = pictures[h]
      /\ IF decode.ready[g] = "title" THEN pictures'[g].file = Art!None
         ELSE pictures'[g] = pictures[g] /\ pictures[g].file = "picture"
  BY <1>1, <1>4, <1>5
<1>8. ArtTyped'
  BY <1>1, <1>3, <1>6, <1>7 DEF ArtTyped, Picture
<1>9. \A h \in Tile : Decoding(h)'
  <2> TAKE h \in Tile
  <2>1. CASE h = g
    BY <1>3, <1>4, <2>1 DEF Decoding
  <2>2. CASE h # g
    <3>1. Decoding(h)
      BY DEF ArtInv
    <3> QED BY <1>3, <1>6, <1>7, <2>2, <3>1 DEF Decoding
  <2> QED BY <2>1, <2>2
<1>10. Once(decode'.todo)
  BY <1>3 DEF ArtInv
<1>11. \A h \in Tile : \/ pictures'[h] = pictures[h]
                       \/ ~InFlight(h) /\ pictures'[h].file = Art!None /\ art'[h] = "title" /\ UNCHANGED <<queue, seen>>
  <2> TAKE h \in Tile
  <2>1. CASE h = g
    BY <1>4, <1>6, <1>7, <2>1
  <2> QED BY <1>7, <2>1
<1>12. \A h \in Tile : \/ art'[h] = art[h] \/ art'[h] = "unknown"
                       \/ ~InFlight(h) /\ art'[h] = "picture" /\ pictures'[h].file = "picture" /\ UNCHANGED <<queue, seen>>
                       \/ ~InFlight(h) /\ art'[h] = "title" /\ pictures'[h].file = Art!None /\ UNCHANGED <<queue, seen>>
  <2> TAKE h \in Tile
  <2>1. CASE h = g
    BY <1>4, <1>6, <1>7, <2>1
  <2> QED BY <1>6, <2>1
<1> QED BY <1>8, <1>9, <1>10, <1>11, <1>12, FrameStep

LEMMA ArtSurface ==
  ASSUME ArtInv, NEW g \in Tile, Art!surface_for(g)
  PROVE  ArtInv'
<1>1. art[g] = "unknown"
  BY DEF Art!surface_for
<1>2. CASE Art!Cached(g)
  <2>1. CASE g \in DOMAIN decode.ready
    BY <1>2, <2>1, ArtTileTold DEF Art!Cached
  <2>2. CASE g \notin DOMAIN decode.ready
    BY <1>1, <1>2, <2>2, ArtAsksDecoder DEF Art!Cached
  <2> QED BY <2>1, <2>2
<1>3. CASE pictures[g].file = Art!None /\ Art!Wanted(g)
  BY <1>1, <1>3, ArtWanted
<1> QED BY <1>2, <1>3 DEF Art!surface_for

LEMMA ArtDecode ==
  ASSUME ArtInv, Art!Decode
  PROVE  ArtInv'
<1>1. /\ ArtTyped /\ decode = [todo |-> decode.todo, asked |-> decode.asked, ready |-> decode.ready]
      /\ decode.todo \in Seq(Tile) /\ decode.asked \subseteq Tile /\ decode.todo # <<>>
      /\ UNCHANGED <<pictures, queue, seen, worker, art, requests>>
  BY DEF ArtInv, ArtTyped, Art!Decode
<1>2. Head(decode.todo) \in Tile
  BY <1>1, AwaitsLess
<1>3. PICK g \in Tile : g = Head(decode.todo)
  BY <1>2
<1>4. decode' = [decode EXCEPT !.todo = Tail(@),
                   !.ready = [k \in DOMAIN @ \cup {g} |->
                     IF k # g THEN @[k] ELSE IF pictures[g].file = "picture" THEN "picture" ELSE "title"]]
  BY <1>3, Zenon DEF Art!Decode
<1>5. /\ decode' = [todo |-> decode'.todo, asked |-> decode'.asked, ready |-> decode'.ready]
      /\ decode'.todo = Tail(decode.todo) /\ decode'.asked = decode.asked
      /\ decode'.ready = [k \in DOMAIN decode.ready \cup {g} |->
                           IF k # g THEN decode.ready[k] ELSE IF pictures[g].file = "picture" THEN "picture" ELSE "title"]
  BY <1>1, <1>4
<1>6. /\ decode'.todo \in Seq(Tile) /\ Once(decode'.todo) /\ ~Awaits(decode'.todo, g)
      /\ \A h : Awaits(decode.todo, h) <=> Awaits(decode'.todo, h) \/ h = g
  BY <1>1, <1>3, <1>5, AwaitsLess DEF ArtInv
<1>7. ArtTyped'
  BY <1>1, <1>5, <1>6 DEF ArtTyped
<1>8. \A h \in Tile : Decoding(h)'
  <2> TAKE h \in Tile
  <2>1. Decoding(h)
    BY DEF ArtInv
  <2> QED BY <1>1, <1>5, <1>6, <2>1 DEF Decoding
<1> QED BY <1>1, <1>3, <1>6, <1>7, <1>8, FrameStep

LEMMA ArtNext ==
  ASSUME ArtInv, Art!Next
  PROVE  ArtInv'
<1>1. CASE Art!Done
  <2>1. /\ ArtTyped /\ UNCHANGED <<pictures, queue, seen, worker, decode, requests>>
        /\ art \in [Tile -> {"unknown", "picture", "title"}]
    BY <1>1 DEF ArtInv, ArtTyped, Art!Done
  <2>2. /\ art' \in [Tile -> {"unknown", "picture", "title"}]
        /\ \A g \in Tile : art'[g] = art[g] \/ art'[g] = "unknown"
    <3>1. art' = [g \in Tile |-> IF Art!Contains(ready, g) THEN "unknown" ELSE art[g]]
      BY <1>1 DEF Art!Done
    <3>2. \A g \in Tile : art'[g] = art[g] \/ art'[g] = "unknown"
      <4> TAKE g \in Tile
      <4>1. CASE Art!Contains(ready, g)
        BY <3>1, <4>1, Zenon
      <4>2. CASE ~Art!Contains(ready, g)
        BY <3>1, <4>2, Zenon
      <4> QED BY <4>1, <4>2
    <3>3. DOMAIN art' = Tile /\ art' = [g \in Tile |-> art'[g]]
      BY <3>1, Zenon
    <3> QED BY <2>1, <3>2, <3>3
  <2>3. ArtTyped'
    BY <2>1, <2>2 DEF ArtTyped
  <2>4. \A h \in Tile : Decoding(h)'
    BY <2>1, <2>2 DEF ArtInv, Decoding
  <2>5. \A h \in Tile : Drawn(h)'
    <3> TAKE h \in Tile
    <3>1. Drawn(h)
      BY DEF ArtInv
    <3>2. InFlight(h)' <=> InFlight(h)
      BY <2>1 DEF InFlight, WorksOn
    <3> QED BY <2>1, <2>2, <3>1, <3>2 DEF Drawn
  <2>6. \A v \in Worker : Working(v)'
    BY <2>1 DEF ArtInv, Working, WorksOn
  <2> QED BY <2>1, <2>3, <2>4, <2>5, <2>6 DEF ArtInv
<1>2. CASE Art!Relaunch
  <2>1. pictures \in [Tile -> Picture]
    BY DEF ArtInv, ArtTyped, Picture
  <2>2. pictures' \in [Tile -> Picture]
    <3>1. pictures' = [g \in Tile |-> [pictures[g] EXCEPT !.miss = IF @ = Art!None THEN Art!None ELSE "before"]]
      BY <1>2 DEF Art!Relaunch
    <3>2. \A g \in Tile : [pictures[g] EXCEPT !.miss = IF @ = Art!None THEN Art!None ELSE "before"] \in Picture
      BY <2>1 DEF Picture
    <3> QED BY <3>1, <3>2
  <2> QED BY <1>2, <2>2, ArtFresh DEF Art!Relaunch, Picture
<1> QED BY <1>1, <1>2, ArtSurface, ArtTake, ArtWorker, ArtDecode DEF Art!Next

LEMMA ArtPromise ==
  ASSUME ArtInv
  PROVE  Art!PicturesAreWhole
  BY DEF ArtInv, ArtTyped, Drawn, Art!PicturesAreWhole, Art!None

-----------------------------------------------------------------------------

(***************************************************************************)
(* What is learned behind the grid.  A game is settled while no job of its *)
(* own is going, and until a question asked after its last one is answered *)
(* nothing is shown of it as told; what is remembered of its versions is   *)
(* of after that job.                                                      *)
(***************************************************************************)

JobOf == [verb : {"none", "install", "update", "uninstall", "adopt", "play", "self"}, game : Tile \cup {"none"},
          exit : {"running", "ok", "failed"}]

PendingAnswer == [st : {"none", "asked", "seen", "answered"}, here : SUBSET Tile, said : BOOLEAN, waiting : SUBSET Tile]

BehindState ==
  [pending : PendingAnswer, ahead : Nat, shown : SUBSET Tile, outdated : SUBSET Tile, started : BOOLEAN,
   check : {"none", "running", "ended"}, sync : {"none", "running", "ended"}, syncs : Nat,
   installs : [Tile -> JobOf], loader : JobOf, jobs : Nat, versions : Seq(Tile \X Nat), open : BOOLEAN,
   settled : SUBSET Tile, blank : BOOLEAN]

Untouched(x, g) ==
  /\ x.installs[g] = Behind!NoJob
  /\ x.loader = Behind!NoJob \/ x.loader.game # g \/ x.loader.verb = "self"

Told(x, g) ==
  ~x.blank => /\ x.pending.st \in {"seen", "answered"} => (g \in x.pending.here <=> disk[g] > 0)
              /\ x.pending.st = "none" => (g \in x.shown <=> disk[g] > 0)

Recalled(x, g) == \A i \in 1..Len(x.versions) : x.versions[i][1] = g => x.versions[i][2] = disk[g]

Sure(x) == \A g \in x.settled : Untouched(x, g) /\ Told(x, g) /\ Recalled(x, g)

JobsNamed(x) ==
  /\ \A g \in Tile : x.installs[g] # Behind!NoJob => x.installs[g].game = g
  /\ x.loader # Behind!NoJob => x.loader.game \in Tile /\ x.loader.verb \in {"uninstall", "play", "self"}

BehindInv ==
  /\ disk \in [Tile -> Nat] /\ behind \in BehindState
  /\ behind.open => JobsNamed(behind) /\ Sure(behind)

Good(x) == x \in BehindState /\ JobsNamed(x) /\ Sure(x)

LEMMA NoJobTyped ==
  /\ Behind!NoJob \in JobOf /\ Behind!NoJob.game = "none" /\ Behind!NoJob.verb = "none" /\ Behind!NoJob.exit = "running"
  BY DEF Behind!NoJob, JobOf

LEMMA NoAnswerTyped ==
  /\ Behind!NoAnswer \in PendingAnswer /\ Behind!NoAnswer.st = "none"
  /\ [Behind!NoAnswer EXCEPT !.st = "asked"] \in PendingAnswer
  /\ [Behind!NoAnswer EXCEPT !.st = "asked"].st = "asked"
  BY DEF Behind!NoAnswer, PendingAnswer

LEMMA BehindStarts ==
  ASSUME Behind!Init
  PROVE  BehindInv
<1>1. PICK here \in SUBSET Tile : behind = [Behind!Quiet EXCEPT !.shown = here]
  BY DEF Behind!Init, Behind!installed_games
<1> DEFINE asked == [Behind!NoAnswer EXCEPT !.st = "asked"]
<1>2. asked \in PendingAnswer /\ asked.st = "asked"
  BY NoAnswerTyped
<1>3. disk \in [Tile -> Nat]
  BY DEF Behind!Init
<1> HIDE DEF asked
<1>4. behind = [pending |-> asked, ahead |-> 0, shown |-> here, outdated |-> {}, started |-> FALSE,
                check |-> "none", sync |-> "none", syncs |-> 0,
                installs |-> [g \in Tile |-> Behind!NoJob], loader |-> Behind!NoJob, jobs |-> 0,
                versions |-> <<>>, open |-> TRUE, settled |-> Tile, blank |-> FALSE]
  BY <1>1 DEF Behind!Quiet, asked
<1>5. /\ behind.pending = asked /\ behind.versions = <<>> /\ behind.settled = Tile /\ behind.loader = Behind!NoJob
      /\ \A g \in Tile : behind.installs[g] = Behind!NoJob
  BY <1>4
<1>6. <<>> \in Seq(Tile \X Nat) /\ Len(<<>>) = 0
  OBVIOUS
<1>7. behind \in BehindState
  BY <1>2, <1>4, <1>6, NoJobTyped DEF BehindState
<1>8. JobsNamed(behind)
  BY <1>5 DEF JobsNamed
<1>9. Sure(behind)
  BY <1>2, <1>5, <1>6 DEF Sure, Untouched, Told, Recalled
<1> QED BY <1>3, <1>7, <1>8, <1>9 DEF BehindInv

(* What becomes of a state that is sure. *)

LEMMA RefreshGood ==
  ASSUME NEW x, Good(x)
  PROVE  /\ Good(Behind!refresh(x)) /\ Behind!refresh(x).pending.st = "asked"
         /\ \A f \in {"installs", "loader", "settled", "versions", "open", "blank", "shown"} : Behind!refresh(x)[f] = x[f]
<1> DEFINE asked == [Behind!NoAnswer EXCEPT !.st = "asked"]
           y == Behind!refresh(x)
<1>1. asked \in PendingAnswer /\ asked.st = "asked"
  BY NoAnswerTyped
<1>2. x \in BehindState
  BY DEF Good
<1> HIDE DEF asked
<1>3. y = [x EXCEPT !.ahead = IF x.pending.st \in {"asked", "seen"} THEN x.ahead + 1 ELSE x.ahead, !.pending = asked]
  BY Zenon DEF Behind!refresh, asked
<1>4. x.ahead \in Nat /\ (IF x.pending.st \in {"asked", "seen"} THEN x.ahead + 1 ELSE x.ahead) \in Nat
  BY <1>2 DEF BehindState
<1> HIDE DEF y
<1>5. /\ y \in BehindState /\ y.pending = asked
      /\ y.installs = x.installs /\ y.loader = x.loader /\ y.settled = x.settled /\ y.versions = x.versions
      /\ y.open = x.open /\ y.blank = x.blank /\ y.shown = x.shown
  BY <1>1, <1>2, <1>3, <1>4 DEF BehindState
<1>6. JobsNamed(y) /\ Sure(y)
  BY <1>1, <1>5 DEF Good, JobsNamed, Sure, Untouched, Told, Recalled
<1>7. \A f \in {"installs", "loader", "settled", "versions", "open", "blank", "shown"} : y[f] = x[f]
  BY <1>5
<1> QED BY <1>1, <1>5, <1>6, <1>7 DEF Good, y

\* Nothing is remembered of versions, so nothing wrongly; and once a question is to
\* be asked, a game may be counted settled again.
LEMMA SettledGood ==
  ASSUME NEW x, Good(x), x.pending.st = "asked",
         NEW more \in SUBSET Tile, \A g \in more : Untouched(x, g),
         NEW y \in BehindState, y = [x EXCEPT !.settled = @ \cup more, !.versions = <<>>]
  PROVE  Good(y)
<1>1. x \in BehindState
  BY DEF Good
<1>2. /\ y.settled = x.settled \cup more /\ y.versions = <<>> /\ y.pending = x.pending
      /\ y.installs = x.installs /\ y.loader = x.loader
  BY <1>1 DEF BehindState
<1>3. Len(y.versions) = 0
  BY <1>2
<1>4. Sure(y)
  BY <1>2, <1>3 DEF Good, Sure, Untouched, Told, Recalled
<1>5. JobsNamed(y)
  BY <1>2 DEF Good, JobsNamed
<1> QED BY <1>4, <1>5 DEF Good

LEMMA InstallsGood ==
  ASSUME NEW x, Good(x)
  PROVE  Good(Behind!poll_installs(x)) /\ Behind!poll_installs(x).open = x.open
<1> DEFINE ended == {g \in Tile : x.installs[g].exit # "running"}
           well == {g \in ended : x.installs[g].exit = "ok"}
           left == [g \in Tile |-> IF g \in ended THEN Behind!NoJob ELSE x.installs[g]]
           news == x.settled \cup {g \in well : x.loader.game # g}
           polled == [x EXCEPT !.installs = left, !.settled = news]
           calm == [x EXCEPT !.installs = left]
<1>1. x \in BehindState /\ left \in [Tile -> JobOf] /\ news \in SUBSET Tile
  BY NoJobTyped DEF Good, BehindState
<1>2. \A g \in Tile : left[g] = Behind!NoJob \/ (left[g] = x.installs[g] /\ g \notin ended)
  OBVIOUS
<1>3. \A g \in ended : left[g] = Behind!NoJob
  OBVIOUS
<1>4. Behind!poll_installs(x) = IF well = {} THEN polled ELSE Behind!forget_versions(Behind!refresh(polled))
  BY <1>1, Zenon DEF Behind!poll_installs, BehindState
<1> HIDE DEF left
<1>5. /\ calm \in BehindState /\ calm.installs = left /\ calm.open = x.open /\ calm.settled = x.settled
      /\ calm.loader = x.loader /\ calm.pending = x.pending /\ calm.versions = x.versions
      /\ calm.blank = x.blank /\ calm.shown = x.shown
  BY <1>1 DEF BehindState
<1>6. Good(calm)
  <2>1. JobsNamed(calm)
    BY <1>2, <1>5 DEF Good, JobsNamed
  <2>2. \A g \in Tile : Untouched(x, g) => Untouched(calm, g)
    BY <1>2, <1>5 DEF Untouched
  <2>3. Sure(calm)
    BY <1>1, <1>5, <2>2 DEF Good, Sure, Told, Recalled, BehindState
  <2> QED BY <1>5, <2>1, <2>3 DEF Good
<1>7. CASE well = {}
  <2>1. polled = calm
    <3>1. news = x.settled
      BY <1>7
    <3> HIDE DEF news
    <3>2. polled = [x EXCEPT !.installs = left, !.settled = x.settled]
      BY <3>1
    <3> QED BY <1>1, <3>2 DEF BehindState
  <2> QED BY <1>4, <1>5, <1>6, <1>7, <2>1
<1>8. CASE well # {}
  <2> DEFINE more == {g \in well : x.loader.game # g}
             r == Behind!refresh(calm)
             y == [r EXCEPT !.settled = @ \cup more, !.versions = <<>>]
  <2>1. /\ Good(r) /\ r.pending.st = "asked"
        /\ r.installs = left /\ r.loader = x.loader /\ r.open = x.open /\ r.settled = x.settled
    <3>1. \A f \in {"installs", "loader", "settled", "versions", "open", "blank", "shown"} : r[f] = calm[f]
      BY <1>6, RefreshGood
    <3>2. r["installs"] = calm["installs"] /\ r["loader"] = calm["loader"] /\ r["open"] = calm["open"]
          /\ r["settled"] = calm["settled"]
      BY <3>1
    <3> QED BY <1>5, <1>6, <3>2, RefreshGood
  <2>2. Behind!poll_installs(x) = y
    <3>1. Behind!refresh(polled) = [r EXCEPT !.settled = news]
      <4>1. polled = [calm EXCEPT !.settled = news]
        BY <1>1 DEF BehindState
      <4> HIDE DEF polled, calm, news
      <4>2. /\ polled.pending = calm.pending /\ polled.ahead = calm.ahead
        BY <1>5, <4>1 DEF BehindState
      <4> QED BY <1>5, <4>1, <4>2 DEF BehindState, Behind!refresh
    <3>2. Behind!forget_versions(Behind!refresh(polled)) = [Behind!refresh(polled) EXCEPT !.versions = <<>>]
      BY DEF Behind!forget_versions
    <3>3. news = r.settled \cup more
      BY <2>1
    <3> HIDE DEF news, more, polled, r
    <3>4. r \in BehindState
      BY <2>1 DEF Good
    <3> QED BY <1>4, <1>8, <3>1, <3>2, <3>3, <3>4 DEF BehindState
  <2>3. more \in SUBSET Tile /\ \A g \in more : Untouched(r, g)
    BY <1>3, <2>1 DEF Untouched
  <2> HIDE DEF more, r
  <2>4. y \in BehindState /\ y.open = r.open
    <3>1. <<>> \in Seq(Tile \X Nat)
      OBVIOUS
    <3> QED BY <2>1, <2>3, <3>1 DEF Good, BehindState
  <2> HIDE DEF y
  <2>5. Good(y)
    BY <2>1, <2>3, <2>4, SettledGood DEF y
  <2> QED BY <2>1, <2>2, <2>4, <2>5
<1> QED BY <1>7, <1>8

\* A state that differs in nothing the promise is about.
LEMMA SameGood ==
  ASSUME NEW x, Good(x), NEW y \in BehindState,
         y.installs = x.installs, y.loader = x.loader, y.settled = x.settled, y.versions = x.versions,
         y.pending = x.pending, y.blank = x.blank, y.shown = x.shown
  PROVE  Good(y)
  BY DEF Good, JobsNamed, Sure, Untouched, Told, Recalled

LEMMA CheckGood ==
  ASSUME NEW x, Good(x)
  PROVE  Good(Behind!poll_check(x)) /\ Behind!poll_check(x).open = x.open
<1> DEFINE y == [x EXCEPT !.check = "none"]
<1>1. x \in BehindState
  BY DEF Good
<1>2. /\ y \in BehindState /\ y.open = x.open
      /\ y.installs = x.installs /\ y.loader = x.loader /\ y.settled = x.settled /\ y.versions = x.versions
      /\ y.pending = x.pending /\ y.blank = x.blank /\ y.shown = x.shown
  BY <1>1 DEF BehindState
<1> HIDE DEF y
<1>3. Good(y)
  BY <1>2, SameGood
<1>4. Behind!refresh(y)["open"] = y["open"]
  BY <1>3, RefreshGood
<1>5. CASE x.check = "ended"
  <2>1. Behind!poll_check(x) = Behind!refresh(y)
    BY <1>5 DEF Behind!poll_check, y
  <2>2. Good(Behind!refresh(y))
    BY <1>3, RefreshGood
  <2> QED BY <1>2, <1>4, <2>1, <2>2
<1>6. CASE x.check # "ended"
  BY <1>6 DEF Behind!poll_check
<1> QED BY <1>5, <1>6

LEMMA SyncGood ==
  ASSUME NEW x, Good(x), NEW y \in Behind!poll_sync(x)
  PROVE  Good(y) /\ y.open = x.open
<1>1. x \in BehindState
  BY DEF Good
<1>2. \/ y = [x EXCEPT !.sync = "none"] \/ y = x
      \/ y = [x EXCEPT !.sync = "running", !.syncs = @ + 1]
  BY DEF Behind!poll_sync
<1>3. /\ y \in BehindState /\ y.open = x.open
      /\ y.installs = x.installs /\ y.loader = x.loader /\ y.settled = x.settled /\ y.versions = x.versions
      /\ y.pending = x.pending /\ y.blank = x.blank /\ y.shown = x.shown
  <2>1. x.syncs + 1 \in Nat
    BY <1>1 DEF BehindState
  <2>2. CASE y = [x EXCEPT !.sync = "none"]
    BY <1>1, <2>2 DEF BehindState
  <2>3. CASE y = [x EXCEPT !.sync = "running", !.syncs = @ + 1]
    BY <1>1, <2>1, <2>3 DEF BehindState
  <2> QED BY <1>1, <1>2, <2>2, <2>3
<1> QED BY <1>3, SameGood

LEMMA LandGood ==
  ASSUME NEW x, Good(x)
  PROVE  Good(Behind!land(x)) /\ Behind!land(x).open = x.open
<1> DEFINE answer == x.pending
           starts == ~x.started /\ answer.said
           y == [x EXCEPT !.pending = Behind!NoAnswer, !.started = @ \/ starts,
                          !.shown = answer.here, !.outdated = answer.waiting \cap answer.here,
                          !.check = IF starts THEN "running" ELSE @]
<1>1. x \in BehindState /\ answer \in PendingAnswer /\ x.started \in BOOLEAN /\ x.check \in {"none", "running", "ended"}
  BY DEF Good, BehindState
<1>2. /\ answer.here \in SUBSET Tile /\ answer.waiting \cap answer.here \in SUBSET Tile /\ answer.said \in BOOLEAN
  BY <1>1 DEF PendingAnswer
<1>3. (x.started \/ starts) \in BOOLEAN /\ (IF starts THEN "running" ELSE x.check) \in {"none", "running", "ended"}
  BY <1>1
<1>4. CASE x.pending.st # "answered"
  BY <1>4 DEF Behind!land
<1>5. CASE x.pending.st = "answered"
  <2> DEFINE begun == x.started \/ starts
             checks == IF starts THEN "running" ELSE x.check
  <2>1. Behind!land(x) = y
    BY <1>5 DEF Behind!land
  <2>2. begun \in BOOLEAN /\ checks \in {"none", "running", "ended"}
    BY <1>3
  <2>3. y = [x EXCEPT !.pending = Behind!NoAnswer, !.started = begun, !.shown = answer.here,
                      !.outdated = answer.waiting \cap answer.here, !.check = checks]
    OBVIOUS
  <2> HIDE DEF y, begun, checks
  <2>4. /\ y \in BehindState /\ y.open = x.open /\ y.pending = Behind!NoAnswer /\ y.shown = answer.here
        /\ y.installs = x.installs /\ y.loader = x.loader /\ y.settled = x.settled /\ y.versions = x.versions
        /\ y.blank = x.blank
    BY <1>1, <1>2, <2>2, <2>3, NoAnswerTyped DEF BehindState
  <2>5. JobsNamed(y)
    BY <2>4 DEF Good, JobsNamed
  <2>6. Sure(y)
    BY <1>5, <2>4, NoAnswerTyped DEF Good, Sure, Untouched, Told, Recalled
  <2> QED BY <2>1, <2>4, <2>5, <2>6 DEF Good
<1> QED BY <1>4, <1>5

LEMMA LoaderGood ==
  ASSUME NEW x, Good(x), NEW y \in Behind!poll_loader(x)
  PROVE  y \in BehindState /\ (y.open => x.open /\ Good(y))
<1> DEFINE clear == [x EXCEPT !.loader = Behind!NoJob]
           shut == [clear EXCEPT !.open = FALSE]
           g == x.loader.game
<1>1. x \in BehindState
  BY DEF Good
<1>2. /\ clear \in BehindState /\ clear.open = x.open /\ clear.loader = Behind!NoJob
      /\ clear.installs = x.installs /\ clear.settled = x.settled /\ clear.versions = x.versions
      /\ clear.pending = x.pending /\ clear.blank = x.blank /\ clear.shown = x.shown
  BY <1>1, NoJobTyped DEF BehindState
<1>3. Good(clear)
  BY <1>2 DEF Good, JobsNamed, Sure, Untouched, Told, Recalled
<1>4. shut \in BehindState /\ ~shut.open
  BY <1>2 DEF BehindState
<1> HIDE DEF clear, shut
<1>5. CASE x.loader.exit # "ok"
  BY <1>1, <1>5 DEF Behind!poll_loader
<1>6. CASE x.loader.exit = "ok" /\ x.loader.verb = "uninstall"
  <2> DEFINE more == IF clear.loader.game = g \/ clear.installs[g] # Behind!NoJob THEN {} ELSE {g}
             settling == [clear EXCEPT !.settled = clear.settled \cup more]
             r == Behind!refresh(clear)
             z == [r EXCEPT !.settled = @ \cup more, !.versions = <<>>]
  <2>1. g \in Tile
    BY <1>6, NoJobTyped DEF Good, JobsNamed
  <2>2. Behind!Settled(clear, g) = settling
    <3>1. clear.settled \cup {} = clear.settled
      OBVIOUS
    <3> QED BY <3>1 DEF Behind!Settled
  <2>3. y = Behind!forget_versions(Behind!refresh(settling))
    BY <1>6, <2>2 DEF Behind!poll_loader, clear
  <2>4. /\ Good(r) /\ r.pending.st = "asked"
        /\ r.installs = clear.installs /\ r.loader = clear.loader /\ r.open = clear.open /\ r.settled = clear.settled
    <3>1. \A f \in {"installs", "loader", "settled", "versions", "open", "blank", "shown"} : r[f] = clear[f]
      BY <1>3, RefreshGood
    <3>2. r["installs"] = clear["installs"] /\ r["loader"] = clear["loader"] /\ r["open"] = clear["open"]
          /\ r["settled"] = clear["settled"]
      BY <3>1
    <3> QED BY <1>3, <3>2, RefreshGood
  <2>5. more \in SUBSET Tile /\ \A h \in more : Untouched(r, h)
    BY <1>2, <2>1, <2>4 DEF Untouched
  <2> HIDE DEF more
  <2>6. y = z
    <3>1. settling.pending = clear.pending /\ settling.ahead = clear.ahead
      BY <1>2 DEF BehindState
    <3>2. Behind!refresh(settling) = [r EXCEPT !.settled = clear.settled \cup more]
      BY <1>2, <3>1 DEF BehindState, Behind!refresh
    <3>3. Behind!forget_versions(Behind!refresh(settling)) = [Behind!refresh(settling) EXCEPT !.versions = <<>>]
      BY DEF Behind!forget_versions
    <3> HIDE DEF settling, r
    <3>4. r \in BehindState
      BY <2>4 DEF Good
    <3> QED BY <2>3, <2>4, <3>2, <3>3, <3>4 DEF BehindState
  <2> HIDE DEF r
  <2>7. z \in BehindState /\ z.open = r.open
    <3>1. <<>> \in Seq(Tile \X Nat)
      OBVIOUS
    <3> QED BY <2>4, <2>5, <3>1 DEF Good, BehindState
  <2> HIDE DEF z
  <2>8. Good(z)
    BY <2>4, <2>5, <2>7, SettledGood DEF z
  <2> QED BY <1>2, <2>4, <2>6, <2>7, <2>8
<1>7. CASE x.loader.exit = "ok" /\ x.loader.verb = "self"
  <2>1. y = Behind!refresh(clear) \/ y = shut
    BY <1>7 DEF Behind!poll_loader, clear, shut
  <2>2. Behind!refresh(clear)["open"] = clear["open"] /\ Good(Behind!refresh(clear))
    BY <1>3, RefreshGood
  <2> QED BY <1>2, <1>4, <2>1, <2>2 DEF Good
<1>8. CASE x.loader.exit = "ok" /\ x.loader.verb = "play"
  <2>1. y = clear \/ y = shut
    BY <1>8 DEF Behind!poll_loader, clear, shut
  <2> QED BY <1>2, <1>3, <1>4, <2>1
<1>9. x.loader.exit = "ok" => x.loader.verb \in {"uninstall", "play", "self"}
  BY NoJobTyped DEF Good, JobsNamed
<1> QED BY <1>5, <1>6, <1>7, <1>8, <1>9

LEMMA AskSteps ==
  ASSUME BehindInv, \/ Behind!Drain \/ Behind!AskInstalled \/ Behind!AskUpdates
                    \/ Behind!CheckEnds \/ Behind!SyncEnds \/ Behind!Leave
  PROVE  BehindInv'
<1>1. disk' = disk /\ disk \in [Tile -> Nat] /\ behind \in BehindState
  BY DEF BehindInv, Behind!Drain, Behind!AskInstalled, Behind!AskUpdates, Behind!CheckEnds, Behind!SyncEnds, Behind!Leave
<1>2. ASSUME NEW y \in BehindState, behind' = y, y.open = behind.open,
             y.installs = behind.installs, y.loader = behind.loader, y.settled = behind.settled,
             y.versions = behind.versions, y.shown = behind.shown,
             behind.open /\ Sure(behind) => \A g \in behind.settled : Told(y, g)
      PROVE  BehindInv'
  <2>1. behind.open => JobsNamed(y) /\ Sure(y)
    BY <1>2 DEF BehindInv, JobsNamed, Sure, Untouched, Recalled
  <2>2. (JobsNamed(behind) /\ Sure(behind))' <=> JobsNamed(y) /\ Sure(y)
    BY <1>1, <1>2 DEF JobsNamed, Sure, Untouched, Recalled, Told
  <2> QED BY <1>1, <1>2, <2>1, <2>2 DEF BehindInv
<1>3. CASE Behind!Drain
  <2> DEFINE y == [behind EXCEPT !.ahead = @ - 1]
  <2>1. behind' = y /\ behind.ahead \in Nat /\ behind.ahead - 1 \in Nat
    BY <1>1, <1>3 DEF Behind!Drain, BehindState
  <2>2. /\ y \in BehindState /\ y.open = behind.open
        /\ y.installs = behind.installs /\ y.loader = behind.loader /\ y.settled = behind.settled
        /\ y.versions = behind.versions /\ y.shown = behind.shown /\ y.pending = behind.pending /\ y.blank = behind.blank
    BY <1>1, <2>1 DEF BehindState
  <2> HIDE DEF y
  <2>3. Sure(behind) => \A g \in behind.settled : Told(y, g)
    BY <2>2 DEF Sure, Told
  <2> QED BY <1>2, <2>1, <2>2, <2>3
<1>4. CASE Behind!AskInstalled
  <2>1. PICK answer \in Behind!installed_games :
          behind' = [behind EXCEPT !.pending.st = "seen", !.pending.here = answer.here, !.blank = answer.blank]
    BY <1>4 DEF Behind!AskInstalled
  <2>2. /\ answer.here \in SUBSET Tile /\ answer.blank \in BOOLEAN
        /\ answer.blank \/ answer.here = {g \in Tile : disk[g] > 0}
    <3> DEFINE here == {g \in Tile : disk[g] > 0}
    <3>1. answer = [here |-> here, blank |-> FALSE] \/ answer = [here |-> {}, blank |-> TRUE]
      BY DEF Behind!installed_games
    <3>2. here \subseteq Tile
      OBVIOUS
    <3> HIDE DEF here
    <3>3. \/ answer.here = here /\ answer.blank = FALSE
          \/ answer.here = {} /\ answer.blank = TRUE
      BY <3>1
    <3> QED BY <3>2, <3>3 DEF here
  <2> DEFINE q == [behind.pending EXCEPT !.st = "seen", !.here = answer.here]
             y == [behind EXCEPT !.pending = q, !.blank = answer.blank]
  <2>3. behind' = y
    BY <2>1
  <2>4. q \in PendingAnswer /\ q.st = "seen" /\ q.here = answer.here
    BY <1>1, <2>2 DEF BehindState, PendingAnswer
  <2> HIDE DEF q
  <2>5. /\ y \in BehindState /\ y.open = behind.open
        /\ y.installs = behind.installs /\ y.loader = behind.loader /\ y.settled = behind.settled
        /\ y.versions = behind.versions /\ y.shown = behind.shown /\ y.pending = q /\ y.blank = answer.blank
    BY <1>1, <2>2, <2>4 DEF BehindState
  <2> HIDE DEF y
  <2>6. \A g \in Tile : Told(y, g)
    BY <2>2, <2>4, <2>5 DEF Told
  <2>7. behind.settled \subseteq Tile
    BY <1>1 DEF BehindState
  <2> QED BY <1>2, <2>3, <2>5, <2>6, <2>7
<1>5. CASE Behind!AskUpdates
  <2>1. PICK said \in BOOLEAN, games \in SUBSET Tile :
          behind' = [behind EXCEPT !.pending.st = "answered", !.pending.said = said,
                                   !.pending.waiting = IF said THEN games ELSE {}]
    BY <1>5 DEF Behind!AskUpdates
  <2>2. behind.pending.st = "seen"
    BY <1>5 DEF Behind!AskUpdates
  <2> DEFINE q == [behind.pending EXCEPT !.st = "answered", !.said = said, !.waiting = IF said THEN games ELSE {}]
             y == [behind EXCEPT !.pending = q]
  <2>3. behind' = y
    BY <2>1
  <2>4. q \in PendingAnswer /\ q.st = "answered" /\ q.here = behind.pending.here
    BY <1>1 DEF BehindState, PendingAnswer
  <2> HIDE DEF q
  <2>5. /\ y \in BehindState /\ y.open = behind.open
        /\ y.installs = behind.installs /\ y.loader = behind.loader /\ y.settled = behind.settled
        /\ y.versions = behind.versions /\ y.shown = behind.shown /\ y.pending = q /\ y.blank = behind.blank
    BY <1>1, <2>4 DEF BehindState
  <2> HIDE DEF y
  <2>6. Sure(behind) => \A g \in behind.settled : Told(y, g)
    BY <2>2, <2>4, <2>5 DEF Sure, Told
  <2> QED BY <1>2, <2>3, <2>5, <2>6
<1>6. CASE Behind!CheckEnds \/ Behind!SyncEnds
  <2> DEFINE y == IF behind' = [behind EXCEPT !.check = "ended"] THEN [behind EXCEPT !.check = "ended"]
                  ELSE [behind EXCEPT !.sync = "ended"]
  <2>1. behind' = [behind EXCEPT !.check = "ended"] \/ behind' = [behind EXCEPT !.sync = "ended"]
    BY <1>6 DEF Behind!CheckEnds, Behind!SyncEnds
  <2>2. /\ behind' \in BehindState /\ behind'.open = behind.open
        /\ behind'.installs = behind.installs /\ behind'.loader = behind.loader /\ behind'.settled = behind.settled
        /\ behind'.versions = behind.versions /\ behind'.shown = behind.shown /\ behind'.pending = behind.pending
        /\ behind'.blank = behind.blank
    BY <1>1, <2>1 DEF BehindState
  <2>3. PICK z \in BehindState : z = behind'
    BY <2>2
  <2>4. Sure(behind) => \A g \in behind.settled : Told(z, g)
    BY <2>2, <2>3 DEF Sure, Told
  <2> QED BY <1>2, <2>2, <2>3, <2>4
<1>7. CASE Behind!Leave
  <2>1. ~behind.open
        /\ behind' = [behind EXCEPT !.check = "none", !.sync = "none", !.pending = Behind!NoAnswer, !.ahead = 0]
    BY <1>7 DEF Behind!Leave
  <2>2. behind' \in BehindState /\ behind'.open = behind.open
    BY <1>1, <2>1, NoAnswerTyped DEF BehindState
  <2> QED BY <1>1, <2>1, <2>2 DEF BehindInv
<1> QED BY <1>3, <1>4, <1>5, <1>6, <1>7

(* Jobs *)

\* What a job that is not its game's, or is the picker's own, has no part in.
LEMMA JobTyped ==
  ASSUME NEW job \in JobOf, NEW exit \in {"ok", "failed"}, disk \in [Tile -> Nat], Behind!Ends(job, exit)
  PROVE  /\ disk' \in [Tile -> Nat]
         /\ \A g \in Tile : g # job.game \/ job.verb = "self" => disk'[g] = disk[g]
  BY DEF Behind!Ends, Behind!Done

LEMMA JobEndsStep ==
  ASSUME BehindInv, Behind!JobEnds
  PROVE  BehindInv'
<1>1. disk \in [Tile -> Nat] /\ behind \in BehindState
  BY DEF BehindInv
<1>2. behind.loader \in JobOf /\ behind.installs \in [Tile -> JobOf] /\ behind.settled \subseteq Tile
  BY <1>1 DEF BehindState
<1>3. ASSUME NEW y \in BehindState, behind' = y, y.open = behind.open, disk' \in [Tile -> Nat],
             y.settled = behind.settled, y.versions = behind.versions, y.shown = behind.shown,
             y.pending = behind.pending, y.blank = behind.blank,
             behind.open => JobsNamed(y) /\ \A g \in behind.settled : Untouched(y, g) /\ disk'[g] = disk[g]
      PROVE  BehindInv'
  <2>1. behind.open => (JobsNamed(behind) /\ Sure(behind))'
    BY <1>3 DEF BehindInv, JobsNamed, Sure, Untouched, Recalled, Told
  <2> QED BY <1>3, <2>1 DEF BehindInv
<1>4. ASSUME NEW exit \in {"ok", "failed"}, behind.loader # Behind!NoJob, behind.loader.exit = "running",
             Behind!Ends(behind.loader, exit), behind' = [behind EXCEPT !.loader.exit = exit]
      PROVE  BehindInv'
  <2> DEFINE job == [behind.loader EXCEPT !.exit = exit]
             y == [behind EXCEPT !.loader = job]
  <2>1. behind' = y
    BY <1>4
  <2>2. job \in JobOf /\ job.game = behind.loader.game /\ job.verb = behind.loader.verb
    BY <1>2 DEF JobOf
  <2> HIDE DEF job
  <2>3. /\ y \in BehindState /\ y.open = behind.open
        /\ y.settled = behind.settled /\ y.versions = behind.versions /\ y.shown = behind.shown
        /\ y.pending = behind.pending /\ y.blank = behind.blank /\ y.installs = behind.installs /\ y.loader = job
    BY <1>1, <2>2 DEF BehindState
  <2> HIDE DEF y
  <2>4. disk' \in [Tile -> Nat]
        /\ \A g \in Tile : g # behind.loader.game \/ behind.loader.verb = "self" => disk'[g] = disk[g]
    BY <1>1, <1>2, <1>4, JobTyped
  <2>5. behind.open => JobsNamed(y)
    BY <1>4, <2>2, <2>3 DEF BehindInv, JobsNamed
  <2>6. behind.open => \A g \in behind.settled : Untouched(y, g) /\ disk'[g] = disk[g]
    BY <1>2, <1>4, <2>2, <2>3, <2>4 DEF BehindInv, Sure, Untouched
  <2> QED BY <1>3, <2>1, <2>3, <2>4, <2>5, <2>6
<1>5. ASSUME NEW exit \in {"ok", "failed"}, NEW h \in Tile,
             behind.installs[h] # Behind!NoJob, behind.installs[h].exit = "running",
             Behind!Ends(behind.installs[h], exit), behind' = [behind EXCEPT !.installs[h].exit = exit]
      PROVE  BehindInv'
  <2> DEFINE job == [behind.installs[h] EXCEPT !.exit = exit]
             left == [behind.installs EXCEPT ![h] = job]
             y == [behind EXCEPT !.installs = left]
  <2>1. behind' = y
    BY <1>5
  <2>2. behind.installs[h] \in JobOf
    BY <1>2
  <2>3. job \in JobOf /\ job.game = behind.installs[h].game
    BY <2>2 DEF JobOf
  <2> HIDE DEF job
  <2>4. left \in [Tile -> JobOf] /\ left[h] = job /\ \A g \in Tile : g # h => left[g] = behind.installs[g]
    BY <1>2, <2>3
  <2> HIDE DEF left
  <2>5. /\ y \in BehindState /\ y.open = behind.open
        /\ y.settled = behind.settled /\ y.versions = behind.versions /\ y.shown = behind.shown
        /\ y.pending = behind.pending /\ y.blank = behind.blank /\ y.installs = left /\ y.loader = behind.loader
    BY <1>1, <2>4 DEF BehindState
  <2> HIDE DEF y
  <2>6. disk' \in [Tile -> Nat] /\ \A g \in Tile : g # behind.installs[h].game => disk'[g] = disk[g]
    BY <1>1, <1>5, <2>2, JobTyped
  <2>7. behind.open => JobsNamed(y)
    BY <1>5, <2>3, <2>4, <2>5 DEF BehindInv, JobsNamed
  <2>8. behind.open => \A g \in behind.settled : g # h
    BY <1>5 DEF BehindInv, Sure, Untouched
  <2>9. behind.open => \A g \in behind.settled : Untouched(y, g) /\ disk'[g] = disk[g]
    BY <1>2, <1>5, <2>4, <2>5, <2>6, <2>8 DEF BehindInv, JobsNamed, Sure, Untouched
  <2> QED BY <1>3, <2>1, <2>5, <2>6, <2>7, <2>9
<1> QED BY <1>4, <1>5 DEF Behind!JobEnds

\* A step of the loop that leaves the disk alone and counts no more games as settled.
LEMMA LoopStep ==
  ASSUME BehindInv, behind.open, disk' = disk, NEW y \in BehindState, behind' = y, JobsNamed(y),
         y.settled \subseteq behind.settled, \A g \in y.settled : Untouched(y, g) /\ Recalled(y, g),
         y.pending = behind.pending, y.blank = behind.blank, y.shown = behind.shown
  PROVE  BehindInv'
<1>1. Sure(y)
  BY DEF BehindInv, Sure, Told
<1>2. (JobsNamed(behind) /\ Sure(behind))' <=> JobsNamed(y) /\ Sure(y)
  BY DEF JobsNamed, Sure, Untouched, Recalled, Told
<1> QED BY <1>1, <1>2 DEF BehindInv

LEMMA BeginsTyped ==
  ASSUME behind \in BehindState, NEW g \in Tile, NEW job \in JobOf, NEW left \in [Tile -> JobOf], NEW done \in SUBSET Tile,
         behind' = [behind EXCEPT !.jobs = @ + 1, !.settled = done, !.loader = job, !.installs = left]
  PROVE  /\ behind' \in BehindState
         /\ behind'.settled = done /\ behind'.loader = job /\ behind'.installs = left
         /\ behind'.versions = behind.versions /\ behind'.pending = behind.pending /\ behind'.blank = behind.blank
         /\ behind'.shown = behind.shown
<1>1. behind.jobs + 1 \in Nat
  BY DEF BehindState
<1> QED BY <1>1 DEF BehindState

LEMMA JobSteps ==
  ASSUME BehindInv, NEW g \in Tile,
         \/ \E verb \in {"install", "update"} : Behind!Install(g, verb)
         \/ \E verb \in {"uninstall", "adopt", "play", "self"} : Behind!Load(g, verb)
  PROVE  BehindInv'
<1>1. disk \in [Tile -> Nat] /\ behind \in BehindState /\ behind.open /\ disk' = disk /\ behind.loader = Behind!NoJob
  BY DEF BehindInv, Behind!Install, Behind!Load
<1>2. behind.installs \in [Tile -> JobOf] /\ behind.settled \subseteq Tile /\ behind.loader \in JobOf
  BY <1>1 DEF BehindState
<1>3. JobsNamed(behind) /\ Sure(behind)
  BY <1>1 DEF BehindInv
<1>4. ASSUME NEW job \in JobOf, NEW left \in [Tile -> JobOf], NEW done \in SUBSET Tile,
             behind' = [behind EXCEPT !.jobs = @ + 1, !.settled = done, !.loader = job, !.installs = left],
             done \subseteq behind.settled,
             \A h \in Tile : left[h] = behind.installs[h] \/ left[h] = Behind!NoJob \/ (h = g /\ left[h].game = g),
             \A h \in done : left[h] = behind.installs[h] \/ left[h] = Behind!NoJob,
             \A h \in done : job = Behind!NoJob \/ job.game # h \/ job.verb = "self",
             job # Behind!NoJob => job.game \in Tile /\ job.verb \in {"uninstall", "play", "self"}
      PROVE  BehindInv'
  <2>1. /\ behind' \in BehindState
        /\ behind'.settled = done /\ behind'.loader = job /\ behind'.installs = left
        /\ behind'.versions = behind.versions /\ behind'.pending = behind.pending /\ behind'.blank = behind.blank
        /\ behind'.shown = behind.shown
    BY <1>1, <1>4, BeginsTyped
  <2>2. PICK y \in BehindState : y = behind'
    BY <2>1
  <2>3. JobsNamed(y)
    BY <1>3, <1>4, <2>1, <2>2 DEF JobsNamed
  <2>4. \A h \in y.settled : Untouched(y, h) /\ Recalled(y, h)
    BY <1>3, <1>4, <2>1, <2>2 DEF Sure, Untouched, Recalled
  <2>5. /\ y.settled \subseteq behind.settled
        /\ y.pending = behind.pending /\ y.blank = behind.blank /\ y.shown = behind.shown
    BY <1>4, <2>1, <2>2
  <2> QED BY <1>1, <2>2, <2>3, <2>4, <2>5, LoopStep
<1>5. ASSUME NEW verb \in {"install", "update"}, Behind!Install(g, verb)
      PROVE  BehindInv'
  <2> DEFINE task == [Behind!NoJob EXCEPT !.verb = verb, !.game = g]
             rest == [behind.installs EXCEPT ![g] = task]
             still == behind.settled \ {g}
  <2>1. task \in JobOf /\ task.game = g
    BY DEF Behind!NoJob, JobOf
  <2>2. behind' = [[behind EXCEPT !.jobs = @ + 1, !.settled = @ \ {g}] EXCEPT !.installs[g] = task]
    BY <1>5 DEF Behind!Install, Behind!Begins
  <2> HIDE DEF task
  <2>3. behind' = [behind EXCEPT !.jobs = @ + 1, !.settled = still, !.loader = behind.loader, !.installs = rest]
    BY <1>1, <2>2 DEF BehindState
  <2>4. rest \in [Tile -> JobOf] /\ rest[g] = task /\ \A h \in Tile : h # g => rest[h] = behind.installs[h]
    BY <1>2, <2>1
  <2>5. still \in SUBSET Tile /\ still \subseteq behind.settled /\ g \notin still
    BY <1>2
  <2> HIDE DEF rest, still
  <2>6. \A h \in Tile : rest[h] = behind.installs[h] \/ rest[h] = Behind!NoJob \/ (h = g /\ rest[h].game = g)
    BY <2>1, <2>4
  <2>7. \A h \in still : rest[h] = behind.installs[h] \/ rest[h] = Behind!NoJob
    BY <2>4, <2>5
  <2>8. \A h \in still : behind.loader = Behind!NoJob \/ behind.loader.game # h \/ behind.loader.verb = "self"
    BY <1>1
  <2>9. behind.loader # Behind!NoJob => behind.loader.game \in Tile /\ behind.loader.verb \in {"uninstall", "play", "self"}
    BY <1>1
  <2>10. behind.loader \in JobOf /\ rest \in [Tile -> JobOf] /\ still \in SUBSET Tile /\ still \subseteq behind.settled
    BY <1>2, <2>4, <2>5
  <2> QED BY <1>4, <2>3, <2>6, <2>7, <2>8, <2>9, <2>10, ZenonT(30)
<1>6. ASSUME NEW verb \in {"uninstall", "adopt", "play", "self"}, Behind!Load(g, verb)
      PROVE  BehindInv'
  <2> DEFINE task == IF verb = "adopt" THEN [behind.installs[g] EXCEPT !.verb = "play"]
                    ELSE [Behind!NoJob EXCEPT !.verb = verb, !.game = g]
             rest == [behind.installs EXCEPT ![g] = IF verb = "adopt" THEN Behind!NoJob ELSE @]
             still == IF verb = "self" THEN behind.settled ELSE behind.settled \ {g}
             begun == [behind EXCEPT !.jobs = @ + 1, !.settled = @ \ {g}]
  <2>1. /\ verb = "adopt" => behind.installs[g] # Behind!NoJob
    BY <1>6 DEF Behind!Load
  <2>2. /\ task \in JobOf /\ task.game = g
        /\ task.verb = IF verb = "adopt" THEN "play" ELSE verb
    <3>1. CASE verb = "adopt"
      <4>1. behind.installs[g].game = g /\ behind.installs[g] \in JobOf
        BY <1>2, <1>3, <2>1, <3>1 DEF JobsNamed
      <4> QED BY <3>1, <4>1 DEF JobOf
    <3>2. CASE verb # "adopt"
      BY <3>2 DEF Behind!NoJob, JobOf
    <3> QED BY <3>1, <3>2
  <2>3. behind' = [begun EXCEPT !.loader = task, !.installs[g] = IF verb = "adopt" THEN Behind!NoJob ELSE @,
                                !.settled = IF verb = "self" THEN behind.settled ELSE @]
    BY <1>6 DEF Behind!Load, Behind!Begins
  <2> HIDE DEF task
  <2>4. behind' = [behind EXCEPT !.jobs = @ + 1, !.settled = still, !.loader = task, !.installs = rest]
    <3>1. /\ begun.installs = behind.installs /\ begun.settled = behind.settled \ {g}
      BY <1>1 DEF BehindState
    <3>2. behind' = [begun EXCEPT !.loader = task, !.installs = rest, !.settled = still]
      BY <2>3, <3>1
    <3> HIDE DEF rest, still
    <3> QED BY <1>1, <3>2 DEF BehindState
  <2>5. rest \in [Tile -> JobOf] /\ \A h \in Tile : rest[h] = behind.installs[h] \/ rest[h] = Behind!NoJob
    BY <1>2, NoJobTyped
  <2>6. still \in SUBSET Tile /\ still \subseteq behind.settled /\ (verb # "self" => g \notin still)
    BY <1>2
  <2>7. task.verb \in {"uninstall", "play", "self"} /\ (verb = "self" => task.verb = "self")
    BY <2>2
  <2> HIDE DEF rest, still
  <2>8. \A h \in Tile : rest[h] = behind.installs[h] \/ rest[h] = Behind!NoJob \/ (h = g /\ rest[h].game = g)
    BY <2>5
  <2>9. \A h \in still : rest[h] = behind.installs[h] \/ rest[h] = Behind!NoJob
    BY <2>5, <2>6
  <2>10. \A h \in still : task = Behind!NoJob \/ task.game # h \/ task.verb = "self"
    BY <2>2, <2>6, <2>7
  <2>11. task # Behind!NoJob => task.game \in Tile /\ task.verb \in {"uninstall", "play", "self"}
    BY <2>2, <2>7
  <2>12. task \in JobOf /\ rest \in [Tile -> JobOf] /\ still \in SUBSET Tile /\ still \subseteq behind.settled
    BY <2>2, <2>5, <2>6
  <2> QED BY <1>4, <2>4, <2>8, <2>9, <2>10, <2>11, <2>12, ZenonT(30)
<1> QED BY <1>5, <1>6

LEMMA CancelStep ==
  ASSUME BehindInv, Behind!Cancel
  PROVE  BehindInv'
<1>1. disk \in [Tile -> Nat] /\ behind \in BehindState /\ behind.open /\ disk' = disk /\ JobsNamed(behind) /\ Sure(behind)
  BY DEF BehindInv, Behind!Cancel
<1>2. PICK h \in Tile \cup {"none"} :
        \/ behind' = [behind EXCEPT !.loader = Behind!NoJob]
        \/ h \in Tile /\ behind' = [behind EXCEPT !.installs[h] = Behind!NoJob]
  BY DEF Behind!Cancel
<1>3. /\ behind' \in BehindState
      /\ behind'.settled = behind.settled /\ behind'.versions = behind.versions /\ behind'.pending = behind.pending
      /\ behind'.blank = behind.blank /\ behind'.shown = behind.shown
      /\ behind'.loader = behind.loader \/ behind'.loader = Behind!NoJob
      /\ \A g \in Tile : behind'.installs[g] = behind.installs[g] \/ behind'.installs[g] = Behind!NoJob
  <2>1. CASE behind' = [behind EXCEPT !.loader = Behind!NoJob]
    BY <1>1, <2>1, NoJobTyped DEF BehindState
  <2>2. CASE h \in Tile /\ behind' = [behind EXCEPT !.installs[h] = Behind!NoJob]
    <3> DEFINE left == [behind.installs EXCEPT ![h] = Behind!NoJob]
    <3>1. behind.installs \in [Tile -> JobOf]
      BY <1>1 DEF BehindState
    <3>2. left \in [Tile -> JobOf] /\ \A g \in Tile : left[g] = behind.installs[g] \/ left[g] = Behind!NoJob
      BY <2>2, <3>1, NoJobTyped
    <3>3. behind' = [behind EXCEPT !.installs = left]
      BY <2>2
    <3> HIDE DEF left
    <3> QED BY <1>1, <3>2, <3>3 DEF BehindState
  <2> QED BY <1>2, <2>1, <2>2
<1>4. PICK y \in BehindState : y = behind'
  BY <1>3
<1>5. JobsNamed(y)
  BY <1>1, <1>3, <1>4 DEF JobsNamed
<1>6. \A g \in y.settled : Untouched(y, g) /\ Recalled(y, g)
  <2>1. behind.settled \subseteq Tile
    BY <1>1 DEF BehindState
  <2> QED BY <1>1, <1>3, <1>4, <2>1 DEF Sure, Untouched, Recalled
<1> QED BY <1>1, <1>3, <1>4, <1>5, <1>6, LoopStep

LEMMA FrameKept ==
  ASSUME BehindInv, Behind!Frame
  PROVE  BehindInv'
<1>1. behind.open /\ disk' = disk /\ disk \in [Tile -> Nat] /\ Good(behind)
  BY DEF Behind!Frame, BehindInv, Good
<1> DEFINE i == Behind!poll_installs(behind)
           c == Behind!poll_check(i)
<1>2. Good(i) /\ Good(c) /\ c.open = behind.open
  BY <1>1, InstallsGood, CheckGood
<1> HIDE DEF c
<1>3. PICK s \in Behind!poll_sync(c) : behind' \in Behind!poll_loader(Behind!land(s))
  BY DEF Behind!Frame, c
<1>4. Good(s) /\ Good(Behind!land(s))
  BY <1>2, <1>3, SyncGood, LandGood
<1>5. PICK y : y = behind'
  OBVIOUS
<1>6. y \in BehindState /\ (y.open => Good(y))
  BY <1>3, <1>4, <1>5, LoaderGood
<1>7. (JobsNamed(behind) /\ Sure(behind))' <=> JobsNamed(y) /\ Sure(y)
  BY <1>1, <1>5 DEF JobsNamed, Sure, Untouched, Recalled, Told
<1> QED BY <1>1, <1>5, <1>6, <1>7 DEF BehindInv, Good

(* What is remembered of versions: the pairs that were, without one, and a new one. *)

LEMMA KeptPairs ==
  ASSUME NEW S, NEW s \in Seq(S), NEW k \in 1..Len(s)
  PROVE  /\ Behind!RemoveAt(s, k) \in Seq(S)
         /\ \A i \in 1..Len(Behind!RemoveAt(s, k)) : \E j \in 1..Len(s) : Behind!RemoveAt(s, k)[i] = s[j]
<1> DEFINE front == SubSeq(s, 1, k - 1)
           back == SubSeq(s, k + 1, Len(s))
           n == Len(s)
<1>1. k \in 1..n /\ n \in Nat
  BY LenProperties
<1>2. /\ front \in Seq(S) /\ Len(front) = k - 1
      /\ \A i \in 1..Len(front) : front[i] = s[i]
  <2>1. /\ front \in Seq(S)
        /\ Len(front) = IF 1 <= k - 1 THEN (k - 1) - 1 + 1 ELSE 0
        /\ \A i \in 1..((k - 1) - 1 + 1) : front[i] = s[1 + i - 1]
    BY <1>1, SubSeqProperties
  <2> HIDE DEF front
  <2>2. Len(front) = k - 1
    BY <1>1, <2>1
  <2>3. \A i \in 1..Len(front) : i \in 1..((k - 1) - 1 + 1) /\ 1 + i - 1 = i
    BY <1>1, <2>2
  <2> QED BY <2>1, <2>2, <2>3
<1>3. /\ back \in Seq(S) /\ Len(back) = n - k
      /\ \A i \in 1..Len(back) : back[i] = s[k + i]
  <2>1. /\ back \in Seq(S)
        /\ Len(back) = IF k + 1 <= n THEN n - (k + 1) + 1 ELSE 0
        /\ \A i \in 1..(n - (k + 1) + 1) : back[i] = s[(k + 1) + i - 1]
    BY <1>1, SubSeqProperties
  <2> HIDE DEF back, n
  <2>2. Len(back) = n - k
    BY <1>1, <2>1
  <2>3. \A i \in 1..Len(back) : i \in 1..(n - (k + 1) + 1) /\ (k + 1) + i - 1 = k + i
    BY <1>1, <2>2
  <2> QED BY <2>1, <2>2, <2>3
<1> HIDE DEF front, back
<1>4. /\ front \o back \in Seq(S) /\ Len(front \o back) = Len(front) + Len(back)
      /\ \A i \in 1..Len(front) + Len(back) :
           (front \o back)[i] = IF i <= Len(front) THEN front[i] ELSE back[i - Len(front)]
  BY <1>2, <1>3, ConcatProperties
<1>5. \A i \in 1..Len(front \o back) : \E j \in 1..n : (front \o back)[i] = s[j]
  <2> TAKE i \in 1..Len(front \o back)
  <2>1. CASE i <= Len(front)
    <3>1. i \in 1..Len(front) /\ i \in 1..n
      BY <1>1, <1>2, <1>3, <1>4, <2>1
    <3> QED BY <1>2, <1>3, <1>4, <2>1, <3>1
  <2>2. CASE ~(i <= Len(front))
    <3>1. i - Len(front) \in 1..Len(back) /\ k + (i - Len(front)) \in 1..n
      BY <1>1, <1>2, <1>3, <1>4, <2>2
    <3>2. (front \o back)[i] = back[i - Len(front)]
      BY <1>2, <1>3, <1>4, <2>2
    <3> QED BY <1>3, <3>1, <3>2
  <2> QED BY <2>1, <2>2
<1>6. Behind!RemoveAt(s, k) = front \o back
  BY DEF Behind!RemoveAt, front, back
<1> QED BY <1>4, <1>5, <1>6 DEF n

LEMMA RecentPairs ==
  ASSUME NEW x \in BehindState, NEW g \in Tile, NEW version \in Nat
  PROVE  LET new == Behind!RecentlyUsed(x, g, version)
         IN /\ new \in Seq(Tile \X Nat)
            /\ \A i \in 1..Len(new) : new[i] = <<g, version>> \/ \E j \in 1..Len(x.versions) : new[i] = x.versions[j]
<1> DEFINE old == x.versions
           places == {i \in DOMAIN old : old[i][1] = g}
           kept == IF places = {} THEN old ELSE Behind!RemoveAt(old, CHOOSE i \in places : TRUE)
           new == Behind!RecentlyUsed(x, g, version)
<1>1. old \in Seq(Tile \X Nat) /\ DOMAIN old = 1..Len(old)
  BY LenProperties DEF BehindState
<1>2. kept \in Seq(Tile \X Nat) /\ \A i \in 1..Len(kept) : \E j \in 1..Len(old) : kept[i] = old[j]
  <2>1. CASE places = {}
    BY <1>1, <2>1
  <2>2. CASE places # {}
    <3>1. PICK spot \in places : spot = CHOOSE i \in places : TRUE
      BY <2>2
    <3>2. spot \in 1..Len(old)
      BY <1>1, <3>1
    <3>3. kept = Behind!RemoveAt(old, spot)
      BY <2>2, <3>1
    <3> HIDE DEF places, kept, old
    <3>4. /\ Behind!RemoveAt(old, spot) \in Seq(Tile \X Nat)
          /\ \A i \in 1..Len(Behind!RemoveAt(old, spot)) : \E j \in 1..Len(old) : Behind!RemoveAt(old, spot)[i] = old[j]
      BY <1>1, <3>2, KeptPairs
    <3> QED BY <3>3, <3>4
  <2> QED BY <2>1, <2>2
<1> DEFINE more == Append(kept, <<g, version>>)
           from == 1 + (IF Len(kept) < Remembered THEN 0 ELSE 1)
<1>3. new = SubSeq(more, from, Len(kept) + 1)
  BY Zenon DEF Behind!RecentlyUsed
<1> HIDE DEF kept, old, new
<1>4. /\ more \in Seq(Tile \X Nat) /\ Len(more) = Len(kept) + 1 /\ Len(kept) \in Nat
      /\ \A i \in 1..Len(kept) : more[i] = kept[i]
      /\ more[Len(kept) + 1] = <<g, version>>
  <2>1. <<g, version>> \in Tile \X Nat
    OBVIOUS
  <2> QED BY <1>2, <2>1, AppendProperties, LenProperties
<1>5. from \in {1, 2}
  OBVIOUS
<1> HIDE DEF more, from
<1> DEFINE n == Len(more)
<1>6. n \in Nat \ {0} /\ n = Len(kept) + 1
  BY <1>4
<1>7. /\ new \in Seq(Tile \X Nat)
      /\ Len(new) = IF from <= n THEN n - from + 1 ELSE 0
      /\ \A i \in 1..(n - from + 1) : new[i] = more[from + i - 1]
  <2>1. from \in 1..n + 1 /\ n \in from - 1..n
    BY <1>5, <1>6
  <2>2. new = SubSeq(more, from, n)
    BY <1>3, <1>6
  <2> HIDE DEF n
  <2> QED BY <1>4, <2>1, <2>2, SubSeqProperties DEF n
<1> HIDE DEF n
<1>8. \A i \in 1..Len(new) : from + i - 1 \in 1..n /\ i \in 1..(n - from + 1)
  BY <1>5, <1>6, <1>7
<1>9. \A j \in 1..n : j \in 1..Len(kept) \/ j = Len(kept) + 1
  BY <1>4, <1>6
<1>10. \A i \in 1..Len(new) : new[i] = <<g, version>> \/ \E j \in 1..Len(old) : new[i] = old[j]
  BY <1>2, <1>4, <1>7, <1>8, <1>9
<1> QED BY <1>7, <1>10 DEF new, old

LEMMA VersionsStep ==
  ASSUME BehindInv, NEW g \in Tile, Behind!versions_for(g)
  PROVE  BehindInv'
<1>1. disk \in [Tile -> Nat] /\ behind \in BehindState /\ behind.open /\ disk' = disk /\ JobsNamed(behind) /\ Sure(behind)
  BY DEF BehindInv, Behind!versions_for
<1>2. behind.versions \in Seq(Tile \X Nat) /\ DOMAIN behind.versions = 1..Len(behind.versions)
  BY <1>1, LenProperties DEF BehindState
<1>3. PICK pair \in {<<g, disk[g]>>} \cup {behind.versions[i] : i \in DOMAIN behind.versions} :
        /\ pair[1] = g
        /\ behind' = [behind EXCEPT !.versions = Behind!RecentlyUsed(behind, g, pair[2])]
  BY DEF Behind!versions_for
<1>4. pair = <<g, disk[g]>> \/ \E i \in 1..Len(behind.versions) : pair = behind.versions[i]
  BY <1>2, <1>3
<1>5. pair \in Tile \X Nat
  <2>1. \A i \in 1..Len(behind.versions) : behind.versions[i] \in Tile \X Nat
    BY <1>2, ElementOfSeq
  <2> QED BY <1>1, <1>4, <2>1
<1>6. pair[2] \in Nat /\ pair = <<g, pair[2]>>
  BY <1>3, <1>5
<1> DEFINE new == Behind!RecentlyUsed(behind, g, pair[2])
<1>7. /\ new \in Seq(Tile \X Nat)
      /\ \A i \in 1..Len(new) : new[i] = pair \/ \E j \in 1..Len(behind.versions) : new[i] = behind.versions[j]
  BY <1>1, <1>6, RecentPairs
<1> HIDE DEF new
<1>8. /\ behind' \in BehindState /\ behind'.versions = new
      /\ behind'.settled = behind.settled /\ behind'.pending = behind.pending
      /\ behind'.blank = behind.blank /\ behind'.shown = behind.shown
      /\ behind'.loader = behind.loader /\ behind'.installs = behind.installs
  BY <1>1, <1>3, <1>7 DEF BehindState, new
<1>9. PICK y \in BehindState : y = behind'
  BY <1>8
<1>10. JobsNamed(y) /\ \A h \in behind.settled : Untouched(y, h)
  BY <1>1, <1>8, <1>9 DEF JobsNamed, Sure, Untouched
<1>11. \A h \in behind.settled : Recalled(y, h)
  <2> TAKE h \in behind.settled
  <2>1. Recalled(behind, h)
    BY <1>1 DEF Sure
  <2>2. pair[1] = h => pair[2] = disk[h]
    BY <1>3, <1>4, <2>1 DEF Recalled
  <2> QED BY <1>7, <1>8, <1>9, <2>1, <2>2 DEF Recalled
<1> QED BY <1>1, <1>8, <1>9, <1>10, <1>11, LoopStep

LEMMA BehindNext ==
  ASSUME BehindInv, Behind!Next
  PROVE  BehindInv'
  BY AskSteps, JobEndsStep, CancelStep, FrameKept, JobSteps, VersionsStep DEF Behind!Next

LEMMA BehindPromise ==
  ASSUME BehindInv
  PROVE  Behind!BehindCatchesUp
<1>1. behind.open => \A g \in behind.settled : Told(behind, g) /\ Recalled(behind, g)
  BY DEF BehindInv, Sure
<1>2. DOMAIN behind.versions = 1..Len(behind.versions)
  BY LenProperties DEF BehindInv, BehindState
<1> QED BY <1>1, <1>2 DEF Told, Recalled, Behind!BehindCatchesUp

-----------------------------------------------------------------------------

(***************************************************************************)
(* The two ways to end a game: KillSwitchProofs' invariant.  The part is   *)
(* that module's specification; only what it counts the loads with is told *)
(* apart here, by name, and no invariant is about it.                      *)
(***************************************************************************)

StopP == INSTANCE KillSwitchProofs

LEMMA StopStarts ==
  ASSUME Stop!Init
  PROVE  StopP!IInv
<1>1. StopP!Init
  BY DEF Stop!Init, StopP!Init, Stop!Top, StopP!Top, Stop!Wrapper, StopP!Wrapper
<1> QED BY <1>1, StopP!InitIInv

LEMMA StopWords ==
  /\ Stop!Top = StopP!Top /\ Stop!Wrapper = StopP!Wrapper
  /\ \A n : Stop!GameNo(n) = StopP!GameNo(n) /\ Stop!Child(n) = StopP!Child(n)
  /\ \A p : Stop!descendants(p) = StopP!descendants(p)
  BY DEF Stop!Top, StopP!Top, Stop!Wrapper, StopP!Wrapper, Stop!GameNo, StopP!GameNo, Stop!Child, StopP!Child,
         Stop!descendants, StopP!descendants, Stop!Above, StopP!Above

LEMMA StopNext ==
  ASSUME StopP!IInv, Stop!Next
  PROVE  StopP!IInv'
<1>1. CASE Stop!Start
  <2>1. StopP!Start
    BY <1>1, StopWords DEF Stop!Start, StopP!Start, Stop!At, StopP!At, Stop!Outside, StopP!Outside
  <2> QED BY <2>1, StopP!StartInv
<1>2. CASE Stop!Names
  <2>1. StopP!Names
    BY <1>2, StopWords DEF Stop!Names, StopP!Names, Stop!At, StopP!At, Stop!To, StopP!To, Stop!Outside,
       StopP!Outside
  <2> QED BY <2>1, StopP!NamesInv
<1>3. CASE Stop!Trapped
  <2>1. StopP!Trapped
    BY <1>3, StopWords DEF Stop!Trapped, StopP!Trapped, Stop!At, StopP!At, Stop!Outside, StopP!Outside
  <2> QED BY <2>1, StopP!TrappedInv
<1>4. CASE Stop!Waited
  <2>1. StopP!Waited
    BY <1>4, StopWords DEF Stop!Waited, StopP!Waited, Stop!At, StopP!At, Stop!To, StopP!To, Stop!Outside,
       StopP!Outside
  <2> QED BY <2>1, StopP!WaitedInv
<1>5. CASE Stop!Check
  <2>1. StopP!Check
    BY <1>5, StopWords DEF Stop!Check, StopP!Check, Stop!At, StopP!At, Stop!To, StopP!To, Stop!Outside,
       StopP!Outside, Stop!Dead, StopP!Dead
  <2> QED BY <2>1, StopP!CheckInv
<1>6. CASE Stop!Picks
  <2>1. StopP!Picks
    BY <1>6, StopWords DEF Stop!Picks, StopP!Picks, Stop!At, StopP!At, Stop!To, StopP!To, Stop!Outside,
       StopP!Outside
  <2> QED BY <2>1, StopP!PicksInv
<1>7. CASE Stop!Spawn
  <2>1. StopP!Spawn
    BY <1>7, StopWords DEF Stop!Spawn, StopP!Spawn, Stop!Outside, StopP!Outside
  <2> QED BY <2>1, StopP!SpawnInv
<1>8. CASE Stop!Exit
  <2>1. StopP!Exit
    BY <1>8, StopWords DEF Stop!Exit, StopP!Exit, Stop!Outside, StopP!Outside, Stop!Dead, StopP!Dead
  <2> QED BY <2>1, StopP!ExitInv
<1>9. CASE Stop!TopEnds
  <2>1. StopP!TopEnds
    BY <1>9, StopWords DEF Stop!TopEnds, StopP!TopEnds, Stop!Outside, StopP!Outside, Stop!Dead, StopP!Dead
  <2> QED BY <2>1, StopP!TopEndsInv
<1>10. CASE Stop!StopScope
  <2>1. StopP!StopScope
    BY <1>10, StopWords DEF Stop!StopScope, StopP!StopScope, Stop!Watching, StopP!Watching, Stop!HasScope,
       StopP!HasScope, Stop!Term, StopP!Term, Stop!Around, StopP!Around
  <2> QED BY <2>1, StopP!StopScopeInv
<1>11. CASE Stop!StopTree
  <2>1. StopP!StopTree
    BY <1>11, StopWords DEF Stop!StopTree, StopP!StopTree, Stop!Watching, StopP!Watching, Stop!HasScope,
       StopP!HasScope, Stop!Term, StopP!Term, Stop!Around, StopP!Around, Stop!Signalled, StopP!Signalled
  <2> QED BY <2>1, StopP!StopTreeInv
<1>12. CASE Stop!AskTree
  <2>1. StopP!AskTree
    BY <1>12, StopWords DEF Stop!AskTree, StopP!AskTree, Stop!Term, StopP!Term, Stop!Around, StopP!Around
  <2> QED BY <2>1, StopP!AskTreeInv
<1>13. CASE Stop!Gently
  <2>1. StopP!Gently
    BY <1>13, StopWords DEF Stop!Gently, StopP!Gently, Stop!Left, StopP!Left, Stop!Stopped, StopP!Stopped,
       Stop!Around, StopP!Around
  <2> QED BY <2>1, StopP!GentlyInv
<1>14. CASE Stop!LeftToIt
  <2>1. StopP!LeftToIt
    BY <1>14, StopWords DEF Stop!LeftToIt, StopP!LeftToIt, Stop!Left, StopP!Left, Stop!Stopped, StopP!Stopped,
       Stop!Around, StopP!Around
  <2> QED BY <2>1, StopP!LeftToItInv
<1>15. CASE Stop!Killed
  <2>1. StopP!Killed
    BY <1>15, StopWords DEF Stop!Killed, StopP!Killed, Stop!Left, StopP!Left, Stop!Stopped, StopP!Stopped,
       Stop!Around, StopP!Around, Stop!Reached, StopP!Reached, Stop!ByPid, StopP!ByPid, Stop!Dead, StopP!Dead
  <2> QED BY <2>1, StopP!KilledInv
<1>16. CASE Stop!Pushed
  <2>1. StopP!Pushed
    BY <1>16, StopWords DEF Stop!Pushed, StopP!Pushed, Stop!Around, StopP!Around
  <2> QED BY <2>1, StopP!PushedInv
<1>17. CASE Stop!Unwatched
  <2>1. StopP!Unwatched
    BY <1>17, StopWords DEF Stop!Unwatched, StopP!Unwatched, Stop!Watching, StopP!Watching, Stop!Around,
       StopP!Around
  <2> QED BY <2>1, StopP!UnwatchedInv
<1>18. CASE Stop!Tell
  <2>1. StopP!Tell
    BY <1>18, StopWords DEF Stop!Tell, StopP!Tell
  <2> QED BY <2>1, StopP!TellInv
<1>19. CASE Stop!LoadReads
  <2>1. /\ switch' = [switch EXCEPT !.at = "load", !.game = session.pid] /\ switch.at = "watch"
        /\ UNCHANGED <<launch, wrapper, session, told, procs, termed, loads>>
    BY <1>19 DEF Stop!LoadReads, Stop!Watching, Stop!Around
  <2> QED BY <2>1 DEF StopP!IInv, StopP!Typed, StopP!GamesFollow, StopP!StopFollows, StopP!StopIsWhole
<1>20. CASE Stop!LoadNames
  <2>1. /\ switch' = [switch EXCEPT !.at = "watch", !.game = 0] /\ switch.at = "load"
        /\ session' = [session EXCEPT !.restart = TRUE] \/ session' = session
        /\ UNCHANGED <<launch, procs, termed, wrapper, told>>
    BY <1>20 DEF Stop!LoadNames
  <2> QED BY <2>1 DEF StopP!IInv, StopP!Typed, StopP!GamesFollow, StopP!StopFollows, StopP!StopIsWhole
<1>21. ASSUME NEW l \in loads, Stop!LoadAsks(l) \/ Stop!LoadEnds(l)
      PROVE  StopP!IInv'
  <2>1. StopP!LoadAsks(l) \/ StopP!LoadEnds(l)
    BY <1>21, StopWords DEF Stop!LoadAsks, StopP!LoadAsks, Stop!LoadEnds, StopP!LoadEnds, Stop!Thread, StopP!Thread,
       Stop!Turn, StopP!Turn, Stop!Term, StopP!Term, Stop!Dead, StopP!Dead, Stop!Around, StopP!Around
  <2> QED BY <2>1, StopP!LoadInv
<1>22. CASE Stop!Lists
  <2>1. StopP!Lists
    BY <1>22, StopWords DEF Stop!Lists, StopP!Lists, Stop!Left, StopP!Left, Stop!ByPid, StopP!ByPid,
       Stop!Around, StopP!Around
  <2> QED BY <2>1, StopP!ListsInv
<1>23. CASE Stop!ByHand
  <2>1. StopP!ByHand
    BY <1>23, StopWords DEF Stop!ByHand, StopP!ByHand, Stop!Stopped, StopP!Stopped, Stop!Around, StopP!Around,
       Stop!Dead, StopP!Dead
  <2> QED BY <2>1, StopP!ByHandInv
<1> QED BY <1>1, <1>2, <1>3, <1>4, <1>5, <1>6, <1>7, <1>8, <1>9, <1>10, <1>11, <1>12, <1>13, <1>14, <1>15, <1>16, <1>17, <1>18, <1>19, <1>20, <1>21, <1>22, <1>23
   DEF Stop!Next

LEMMA StopPromise ==
  ASSUME StopP!IInv
  PROVE  Stop!StopIsWhole /\ Stop!PutBackAtRest
<1>1. Stop!StopIsWhole
  BY DEF StopP!IInv, StopP!StopFollows, StopP!StopIsWhole, Stop!StopIsWhole
<1>2. ASSUME Stop!At("restore"), NEW n \in 1..MaxGames
      PROVE  Stop!GameNo(n) \notin procs
  <2>1. n \in Nat /\ wrapper.at = "restore" /\ StopP!Wrapper \in procs
    BY <1>2, StopWords DEF Stop!At
  <2> QED BY <2>1, StopWords DEF StopP!IInv, StopP!GamesFollow
<1> QED BY <1>1, <1>2 DEF Stop!PutBackAtRest

(***************************************************************************)
(* The shelf.  A page and a tile stand while the game they are at is there *)
(* to be at; and every way the library is narrowed, turned or drawn leaves *)
(* them so.                                                                *)
(***************************************************************************)

Known(options) == Shelf!ToSet(options)

Browsers == [platform : Known(Shelf!Platforms), region : Known(Shelf!Regions), presence : Known(Shelf!Presence),
             search : Nat, view : Known(Shelf!Views), page : Nat, sel : Nat]

\* Of n games, the page that x is on has one, and x's tile is one of them.
Stands(n, x) == n > 0 => x.page < Shelf!PagesOf(n, x) /\ x.sel < Shelf!OnPage(n, x)

(* numbers *)

LEMMA DivMod ==
  ASSUME NEW k \in Nat, NEW p \in Nat \ {0}
  PROVE  k \div p \in Nat /\ k % p \in 0..p - 1 /\ (k \div p) * p + (k % p) = k
OBVIOUS

LEMMA Mods ==
  ASSUME NEW k \in Int, NEW p \in Nat \ {0}
  PROVE  k % p \in 0..p - 1
OBVIOUS

LEMMA DivOne ==
  ASSUME NEW k \in Nat
  PROVE  k \div 1 = k /\ k % 1 = 0
OBVIOUS

LEMMA Products ==
  ASSUME NEW k \in Nat, NEW p \in Nat
  PROVE  k * p \in Nat
OBVIOUS

LEMMA MoreProduct ==
  ASSUME NEW k \in Nat, NEW m \in Nat, k < m, NEW p \in Nat \ {0}
  PROVE  k * p + p <= m * p
<1>1. PICK d \in Nat : m = k + 1 + d
  <2>1. m - k - 1 \in Nat /\ m = k + 1 + (m - k - 1)
    OBVIOUS
  <2> QED BY <2>1
<1>2. m * p = k * p + p + d * p
  BY <1>1
<1>3. k * p \in Nat /\ d * p \in Nat
  BY Products
<1> QED BY <1>2, <1>3

\* A page is one of the pages when it begins before the games end.
LEMMA PageBegins ==
  ASSUME NEW n \in Nat, NEW p \in Nat \ {0}, NEW g \in Nat
  PROVE  g < (n + p - 1) \div p <=> g * p < n
<1> DEFINE m == (n + p - 1) \div p
           r == (n + p - 1) % p
<1>1. n + p - 1 \in Nat
  OBVIOUS
<1>2. m \in Nat /\ r \in 0..p - 1 /\ m * p + r = n + p - 1
  BY <1>1, DivMod
<1> HIDE DEF m, r
<1>3. g * p \in Nat /\ m * p \in Nat
  BY <1>2, Products
<1>4. ASSUME g < m PROVE g * p < n
  <2>1. g * p + p <= m * p
    BY <1>2, <1>4, MoreProduct
  <2> QED BY <1>2, <1>3, <2>1
<1>5. ASSUME ~(g < m) PROVE ~(g * p < n)
  <2>1. m * p <= g * p
    <3>1. CASE m = g
      BY <1>3, <3>1
    <3>2. CASE m < g
      <4>1. m * p + p <= g * p
        BY <1>2, <3>2, MoreProduct
      <4> QED BY <1>3, <4>1
    <3> QED BY <1>2, <1>5, <3>1, <3>2
  <2> QED BY <1>2, <1>3, <2>1
<1> QED BY <1>4, <1>5 DEF m

(* the lists *)

LEMMA ShelfSizes ==
  ASSUME NEW S, IsFiniteSet(S)
  PROVE  Shelf!Cardinality(S) \in Nat /\ Shelf!SetToSeq(S) \in Seq(S)
<1>1. Shelf!Cardinality(S) = Cardinality(S)
  BY DEF Shelf!Cardinality, Cardinality, Shelf!IsFiniteSet, IsFiniteSet
<1>2. Cardinality(S) \in Nat /\ ExistsBijection(1..Cardinality(S), S)
  BY FS_CardinalityType
<1>3. \E f \in [1..Cardinality(S) -> S] : Shelf!IsInjective(f)
  BY <1>2 DEF ExistsBijection, Bijection, Injection, IsInjective, Shelf!IsInjective
<1>4. Shelf!SetToSeq(S) \in [1..Cardinality(S) -> S]
  BY <1>1, <1>3 DEF Shelf!SetToSeq
<1> QED BY <1>1, <1>2, <1>4

Options == {Shelf!Platforms, Shelf!Regions, Shelf!Presence, Shelf!Views}

\* What is offered is a list that is not empty, and has what the picker begins with.
LEMMA OptionLists ==
  /\ \A o \in Options : o \in Seq(Known(o)) /\ Len(o) \in Nat \ {0}
  /\ "all" \in Known(Shelf!Platforms) /\ "all" \in Known(Shelf!Regions)
  /\ Known(Shelf!Presence) = {"all", "installed", "not installed"} /\ Known(Shelf!Views) = {"grid", "rows"}
<1>1. IsFiniteSet(DOMAIN Games)
  BY ShelfAssumption, FS_Interval
<1>2. ASSUME NEW S, IsFiniteSet(S) PROVE /\ <<"all">> \o Shelf!SetToSeq(S) \in Seq({"all"} \cup S)
                                         /\ Len(<<"all">> \o Shelf!SetToSeq(S)) \in Nat \ {0}
                                         /\ (<<"all">> \o Shelf!SetToSeq(S))[1] = "all"
  <2>1. Shelf!SetToSeq(S) \in Seq(S)
    BY <1>2, ShelfSizes
  <2> DEFINE s == Shelf!SetToSeq(S)
  <2> HIDE DEF s
  <2>2. s \in Seq({"all"} \cup S) /\ <<"all">> \in Seq({"all"} \cup S) /\ Len(s) \in Nat
    BY <2>1 DEF s
  <2>3. <<"all">> \o s \in Seq({"all"} \cup S) /\ Len(<<"all">> \o s) = 1 + Len(s) /\ (<<"all">> \o s)[1] = "all"
    BY <2>2
  <2> QED BY <2>2, <2>3 DEF s
<1>3. \A o, S : o \in Seq(S) /\ Len(o) # 0 => o \in Seq(Known(o)) /\ Len(o) \in Nat \ {0} /\ o[1] \in Known(o)
  BY DEF Known, Shelf!ToSet
<1>4. IsFiniteSet({Games[i].platform : i \in DOMAIN Games})
  <2> DEFINE T == {Games[i].platform : i \in DOMAIN Games}
             f == [i \in DOMAIN Games |-> Games[i].platform]
  <2>1. f \in Surjection(DOMAIN Games, T)
    BY DEF Surjection
  <2> HIDE DEF f, T
  <2>2. IsFiniteSet(T)
    BY <1>1, <2>1, FS_Surjection
  <2> QED BY <2>2 DEF T
<1>5. IsFiniteSet({Games[i].region : i \in DOMAIN Games})
  <2> DEFINE T == {Games[i].region : i \in DOMAIN Games}
             f == [i \in DOMAIN Games |-> Games[i].region]
  <2>1. f \in Surjection(DOMAIN Games, T)
    BY DEF Surjection
  <2> HIDE DEF f, T
  <2>2. IsFiniteSet(T)
    BY <1>1, <2>1, FS_Surjection
  <2> QED BY <2>2 DEF T
<1>6. \A o \in {Shelf!Platforms, Shelf!Regions} : /\ o \in Seq(Known(o)) /\ Len(o) \in Nat \ {0}
                                                   /\ "all" \in Known(o)
  <2>1. ASSUME NEW S, IsFiniteSet(S), NEW o, o = <<"all">> \o Shelf!SetToSeq(S)
        PROVE  o \in Seq(Known(o)) /\ Len(o) \in Nat \ {0} /\ "all" \in Known(o)
    <3>1. o \in Seq({"all"} \cup S) /\ Len(o) \in Nat \ {0} /\ o[1] = "all"
      BY <1>2, <2>1
    <3>2. Len(o) # 0
      BY <3>1
    <3> QED BY <1>3, <3>1, <3>2
  <2> QED BY <1>4, <1>5, <2>1 DEF Shelf!Platforms, Shelf!Regions, Shelf!ALL
<1>7. /\ Known(Shelf!Presence) = {"all", "installed", "not installed"} /\ Known(Shelf!Views) = {"grid", "rows"}
      /\ Len(Shelf!Presence) = 3 /\ Len(Shelf!Views) = 2
  <2>1. ASSUME NEW u, NEW v, NEW w PROVE Known(<<u, v, w>>) = {u, v, w} /\ Len(<<u, v, w>>) = 3
    <3>1. Len(<<u, v, w>>) = 3 /\ DOMAIN <<u, v, w>> = 1..3
      OBVIOUS
    <3>2. 1..3 = {1, 2, 3}
      OBVIOUS
    <3>3. Known(<<u, v, w>>) = {<<u, v, w>>[i] : i \in {1, 2, 3}}
      BY <3>1, <3>2 DEF Known, Shelf!ToSet
    <3> QED BY <3>1, <3>3
  <2>2. ASSUME NEW u, NEW v PROVE Known(<<u, v>>) = {u, v} /\ Len(<<u, v>>) = 2
    <3>1. Len(<<u, v>>) = 2 /\ DOMAIN <<u, v>> = 1..2
      OBVIOUS
    <3>2. 1..2 = {1, 2}
      OBVIOUS
    <3>3. Known(<<u, v>>) = {<<u, v>>[i] : i \in {1, 2}}
      BY <3>1, <3>2 DEF Known, Shelf!ToSet
    <3> QED BY <3>1, <3>3
  <2> QED BY <2>1, <2>2, Zenon DEF Shelf!Presence, Shelf!Views, Shelf!ALL
<1>8. \A o \in {Shelf!Presence, Shelf!Views} : o \in Seq(Known(o)) /\ Len(o) \in Nat \ {0}
  <2>1. Shelf!Presence \in Seq({"all", "installed", "not installed"})
    BY DEF Shelf!Presence, Shelf!ALL
  <2>2. Shelf!Views \in Seq({"grid", "rows"})
    BY DEF Shelf!Views
  <2>3. 3 \in Nat \ {0} /\ 2 \in Nat \ {0}
    OBVIOUS
  <2> QED BY <1>7, <2>1, <2>2, <2>3, Zenon
<1> QED BY <1>6, <1>7, <1>8 DEF Options

\* The option after one of a list's, and the one before it, are the list's.
LEMMA CycledKnown ==
  ASSUME NEW o \in Options, NEW v \in Known(o), NEW delta \in {-1, 1}
  PROVE  Shelf!Cycled(o, v, delta) \in Known(o)
<1>1. o \in Seq(Known(o)) /\ Len(o) \in Nat \ {0}
  BY OptionLists
<1> DEFINE k == CHOOSE k \in DOMAIN o : o[k] = v
<1>2. k \in 1..Len(o)
  BY <1>1 DEF Known, Shelf!ToSet
<1> HIDE DEF k
<1>3. (k - 1 + delta) % Len(o) \in 0..Len(o) - 1
  <2>1. k - 1 + delta \in Int
    BY <1>1, <1>2
  <2> QED BY <1>1, <2>1, Mods
<1>4. PICK m : m = 1 + ((k - 1 + delta) % Len(o))
  OBVIOUS
<1>5. m \in 1..Len(o)
  BY <1>1, <1>3, <1>4
<1>6. Shelf!Cycled(o, v, delta) = o[m]
  BY <1>4 DEF Shelf!Cycled, k
<1> QED BY <1>1, <1>5, <1>6

\* What the filters leave is a list.
LEMMA FoundIs ==
  ASSUME NEW x, NEW here
  PROVE  /\ Len(Shelf!filter(x, here)) \in Nat /\ DOMAIN Shelf!filter(x, here) = 1..Len(Shelf!filter(x, here))
         /\ Shelf!filter(x, here) # <<>> => Len(Shelf!filter(x, here)) > 0
<1> DEFINE kept == {i \in DOMAIN Games : Shelf!Fits(x, here, i)}
<1>1. IsFiniteSet(kept)
  <2>1. IsFiniteSet(DOMAIN Games)
    BY ShelfAssumption, FS_Interval
  <2> QED BY <2>1, FS_Subset
<1>2. Shelf!Cardinality(kept) \in Nat
  BY <1>1, ShelfSizes
<1>3. \E n \in Nat : \E f : Shelf!filter(x, here) = [k \in 1..n |-> f[k]]
  <2> DEFINE n == Shelf!Cardinality(kept)
             nth(k) == CHOOSE i \in kept : Shelf!Cardinality({j \in kept : j < i}) = k - 1
             f == [k \in 1..n |-> nth(k)]
  <2>1. Shelf!filter(x, here) = f /\ n \in Nat
    BY <1>2, Zenon DEF Shelf!filter
  <2> HIDE DEF n, kept, nth
  <2>2. f = [k \in 1..n |-> f[k]]
    OBVIOUS
  <2> HIDE DEF f
  <2> QED BY <2>1, <2>2
<1> QED BY <1>3

\* What they leave is theirs alone; and what is here matters to one filter.
LEMMA SameFound ==
  ASSUME NEW x, NEW y, NEW here, NEW there,
         y.platform = x.platform, y.region = x.region, y.search = x.search, y.presence = x.presence,
         there = here \/ x.presence = "all"
  PROVE  Shelf!filter(y, there) = Shelf!filter(x, here)
<1>1. ASSUME NEW i PROVE Shelf!Fits(y, there, i) <=> Shelf!Fits(x, here, i)
  <2>1. CASE there = here
    BY <2>1, Zenon DEF Shelf!Fits
  <2>2. CASE x.presence = "all"
    <3>1. "all" # "installed" /\ "all" # "not installed"
      OBVIOUS
    <3> QED BY <2>2, <3>1, Zenon DEF Shelf!Fits
  <2> QED BY <2>1, <2>2
<1> DEFINE kept(z, s) == {i \in DOMAIN Games : Shelf!Fits(z, s, i)}
           nth(K) == [k \in 1..Shelf!Cardinality(K) |-> CHOOSE i \in K : Shelf!Cardinality({j \in K : j < i}) = k - 1]
<1>2. kept(y, there) = kept(x, here)
  BY <1>1, Zenon
<1>3. Shelf!filter(y, there) = nth(kept(y, there)) /\ Shelf!filter(x, here) = nth(kept(x, here))
  BY DEF Shelf!filter
<1> HIDE DEF nth, kept
<1> QED BY <1>2, <1>3, Zenon

\* The filters leave each game that fits once and in the library's order, whatever fits
\* (catalog.py Library.filter, browser.py _reframe).
THEOREM FilterKeepsOrder ==
  ASSUME NEW x, NEW here
  PROVE  LET found == Shelf!filter(x, here) IN
         /\ Known(found) = {i \in DOMAIN Games : Shelf!Fits(x, here, i)}
         /\ \A k, m \in DOMAIN found : k < m => found[k] < found[m]
<1> DEFINE kept == {i \in DOMAIN Games : Shelf!Fits(x, here, i)}
           n == Cardinality(kept)
           below(i) == {j \in kept : j < i}
           rank == [i \in kept |-> Cardinality(below(i))]
           found == Shelf!filter(x, here)
<1>1. IsFiniteSet(kept) /\ kept \subseteq Nat
  <2>1. IsFiniteSet(DOMAIN Games) /\ DOMAIN Games \subseteq Nat
    BY ShelfAssumption, FS_Interval
  <2> QED BY <2>1, FS_Subset
<1>2. \A S : Shelf!Cardinality(S) = Cardinality(S)
  BY DEF Shelf!Cardinality, Cardinality, Shelf!IsFiniteSet, IsFiniteSet
<1>3. found = [k \in 1..Shelf!Cardinality(kept) |-> CHOOSE i \in kept : Shelf!Cardinality(below(i)) = k - 1]
  BY Zenon DEF Shelf!filter
<1>4. \A i \in kept : i \in Nat
  BY <1>1
<1> HIDE DEF kept, found
<1>5. n \in Nat /\ \A i \in kept : below(i) \in SUBSET kept /\ IsFiniteSet(below(i)) /\ Cardinality(below(i)) \in Nat
  <2>1. \A i \in kept : below(i) \in SUBSET kept /\ IsFiniteSet(below(i))
    BY <1>1, FS_Subset
  <2> QED BY <1>1, <2>1, FS_CardinalityType
<1>6. ASSUME NEW S, IsFiniteSet(S), NEW T \in SUBSET S, T # S PROVE Cardinality(T) < Cardinality(S)
  <2>1. Cardinality(T) \in Nat /\ Cardinality(S) \in Nat /\ Cardinality(T) <= Cardinality(S) /\ Cardinality(T) # Cardinality(S)
    BY <1>6, FS_Subset, FS_CardinalityType
  <2> QED BY <2>1
<1>7. ASSUME NEW i \in kept PROVE rank[i] \in 0..n - 1
  <2>1. i \notin below(i)
    BY <1>1
  <2>2. below(i) # kept
    BY <2>1
  <2>3. Cardinality(below(i)) < n
    BY <1>1, <1>5, <1>6, <2>2
  <2> QED BY <1>5, <2>3
<1>8. ASSUME NEW i \in kept, NEW j \in kept, i < j PROVE rank[i] < rank[j]
  <2>1. below(i) \in SUBSET below(j) /\ i \in below(j) /\ i \notin below(i)
    BY <1>8, <1>4
  <2>2. Cardinality(below(i)) < Cardinality(below(j))
    BY <1>5, <1>6, <2>1
  <2> QED BY <2>2
<1>9. \A i \in kept : rank[i] = Cardinality(below(i)) /\ rank[i] \in Int
  BY <1>5
<1>10. rank \in [kept -> 0..n - 1]
  BY <1>7
<1> HIDE DEF rank
<1>11. \A i, j \in kept : rank[i] = rank[j] => i = j
  <2> SUFFICES ASSUME NEW i \in kept, NEW j \in kept, rank[i] = rank[j], i # j PROVE FALSE
    OBVIOUS
  <2>1. i < j \/ j < i
    BY <1>4
  <2>2. rank[i] < rank[j] \/ rank[j] < rank[i]
    BY <1>8, <2>1
  <2>3. rank[i] \in Int /\ rank[j] \in Int
    BY <1>9
  <2> QED BY <2>2, <2>3
<1>12. \A k \in 1..n : \E i \in kept : rank[i] = k - 1
  <2>1. rank \in Injection(kept, 0..n - 1)
    BY <1>10, <1>11 DEF Injection, IsInjective
  <2>2. IsFiniteSet(0..n - 1) /\ Cardinality(0..n - 1) = n
    <3>1. 0 \in Int /\ n - 1 \in Int
      BY <1>5
    <3>2. IsFiniteSet(0..n - 1) /\ Cardinality(0..n - 1) = IF 0 > n - 1 THEN 0 ELSE (n - 1) - 0 + 1
      BY <3>1, FS_Interval
    <3> HIDE DEF n
    <3> QED BY <1>5, <3>2
  <2>3. rank \in Surjection(kept, 0..n - 1)
    BY <2>1, <2>2, FS_Injection
  <2>4. \A t \in 0..n - 1 : \E i \in kept : rank[i] = t
    BY <2>3 DEF Surjection
  <2>5. \A k \in 1..n : k - 1 \in 0..n - 1
    BY <1>5
  <2> QED BY <2>4, <2>5
<1> HIDE DEF n, below
<1>13. DOMAIN found = 1..n /\ \A k \in 1..n : found[k] \in kept /\ rank[found[k]] = k - 1
  <2>1. DOMAIN found = 1..n /\ \A k \in 1..n : found[k] = CHOOSE i \in kept : Shelf!Cardinality(below(i)) = k - 1
    BY <1>2, <1>3 DEF n
  <2>2. \A k \in 1..n : \E i \in kept : Shelf!Cardinality(below(i)) = k - 1
    BY <1>2, <1>9, <1>12
  <2>3. \A k \in 1..n : found[k] \in kept /\ Shelf!Cardinality(below(found[k])) = k - 1
    BY <2>1, <2>2
  <2> QED BY <1>2, <1>9, <2>1, <2>3
<1>14. \A k, m \in 1..n : k < m => found[k] < found[m]
  <2> SUFFICES ASSUME NEW k \in 1..n, NEW m \in 1..n, k < m, ~(found[k] < found[m]) PROVE FALSE
    OBVIOUS
  <2>1. rank[found[k]] = k - 1 /\ rank[found[m]] = m - 1 /\ found[k] \in kept /\ found[m] \in kept
    BY <1>13
  <2>2. found[k] = found[m] \/ found[m] < found[k]
    BY <1>4, <2>1
  <2>3. rank[found[k]] < rank[found[m]]
    BY <2>1
  <2>4. rank[found[m]] < rank[found[k]] \/ rank[found[m]] = rank[found[k]]
    BY <1>8, <2>1, <2>2
  <2> QED BY <1>9, <2>1, <2>3, <2>4
<1>15. Known(found) = kept
  <2>1. ASSUME NEW i \in kept PROVE \E k \in 1..n : found[k] = i
    <3>1. PICK k : k = rank[i] + 1
      OBVIOUS
    <3>2. k \in 1..n /\ rank[i] = k - 1
      BY <1>5, <1>7, <1>9, <3>1
    <3> QED BY <1>11, <1>13, <3>2
  <2> QED BY <1>13, <2>1 DEF Known, Shelf!ToSet
<1> QED BY <1>13, <1>14, <1>15 DEF kept, found

\* y is x but for the page and the tile.
Same(x, y) == /\ y.platform = x.platform /\ y.region = x.region /\ y.presence = x.presence
              /\ y.search = x.search /\ y.view = x.view

Columns(x) == Shape[x.view][1]
Lines(x) == Shape[x.view][2]

LEMMA Cells ==
  ASSUME NEW x \in Browsers
  PROVE  /\ Columns(x) \in Nat \ {0} /\ Lines(x) \in Nat \ {0}
         /\ Shelf!PerPage(x) \in Nat \ {0} /\ Shelf!PerPage(x) = Columns(x) * Lines(x)
         /\ x.view = "rows" => Columns(x) = 1 /\ Shelf!PerPage(x) = Lines(x)
<1>1. x.view \in {"grid", "rows"}
  BY OptionLists DEF Browsers
<1>2. Columns(x) \in Nat \ {0} /\ Lines(x) \in Nat \ {0} /\ (x.view = "rows" => Columns(x) = 1)
  BY <1>1, ShelfAssumption DEF Columns, Lines
<1>3. Shelf!PerPage(x) = Columns(x) * Lines(x)
  BY DEF Shelf!PerPage, Columns, Lines
<1>4. \A p, q \in Nat \ {0} : p * q \in Nat \ {0} /\ 1 * q = q
  OBVIOUS
<1> QED BY <1>2, <1>3, <1>4

LEMMA SameCells ==
  ASSUME NEW x, NEW y, Same(x, y)
  PROVE  Shelf!PerPage(y) = Shelf!PerPage(x) /\ Columns(y) = Columns(x) /\ Lines(y) = Lines(x)
BY DEF Same, Shelf!PerPage, Columns, Lines

\* The page has a game when it begins before they end, and then the tiles with one are
\* those of the games that are left.
LEMMA PageHas ==
  ASSUME NEW x \in Browsers, NEW n \in Nat
  PROVE  LET p == Shelf!PerPage(x) IN
         /\ x.page * p \in Nat /\ Shelf!PagesOf(n, x) \in Nat
         /\ \A g \in Nat : g < Shelf!PagesOf(n, x) <=> g * p < n
         /\ Shelf!OnPage(n, x) = IF p < n - x.page * p THEN p ELSE n - x.page * p
<1>1. PICK p : p = Shelf!PerPage(x)
  OBVIOUS
<1>2. p \in Nat \ {0} /\ x.page \in Nat
  BY <1>1, Cells DEF Browsers
<1>3. x.page * p \in Nat
  BY <1>2, Products
<1>4. (n + p - 1) \div p \in Nat
  <2>1. n + p - 1 \in Nat
    BY <1>2
  <2> QED BY <1>2, <2>1, DivMod
<1>5. \A g \in Nat : g < (n + p - 1) \div p <=> g * p < n
  BY <1>2, PageBegins
<1> QED BY <1>1, <1>3, <1>4, <1>5 DEF Shelf!PagesOf, Shelf!OnPage, Shelf!Least

LEMMA StandsIs ==
  ASSUME NEW x \in Browsers, NEW n \in Nat
  PROVE  Stands(n, x) <=> (n > 0 => x.sel < Shelf!PerPage(x) /\ Shelf!Index(x) < n)
<1>1. PICK p, at, pages, tiles : /\ p = Shelf!PerPage(x) /\ at = x.page * p
                                 /\ pages = Shelf!PagesOf(n, x) /\ tiles = Shelf!OnPage(n, x)
  OBVIOUS
<1>2. x.sel \in Nat /\ x.page \in Nat /\ p \in Nat \ {0}
  BY <1>1, Cells DEF Browsers
<1>3. /\ at \in Nat /\ (x.page < pages <=> at < n)
      /\ tiles = IF p < n - at THEN p ELSE n - at
  BY <1>1, <1>2, PageHas
<1>4. Shelf!Index(x) = at + x.sel
  BY <1>1 DEF Shelf!Index
<1>5. Stands(n, x) <=> (n > 0 => x.page < pages /\ x.sel < tiles)
  BY <1>1 DEF Stands
<1> QED BY <1>1, <1>2, <1>3, <1>4, <1>5

\* Put back on the page it is on, the cursor stands.
LEMMA WithinStands ==
  ASSUME NEW x \in Browsers, NEW n \in Nat \ {0}, x.page * Shelf!PerPage(x) < n
  PROVE  LET y == Shelf!Within(n, x) IN
         /\ y \in Browsers /\ Same(x, y) /\ Stands(n, y) /\ y.page = x.page
         /\ y.sel = IF x.sel < Shelf!OnPage(n, x) - 1 THEN x.sel ELSE Shelf!OnPage(n, x) - 1
<1>1. PICK p, at, tiles : p = Shelf!PerPage(x) /\ at = x.page * p /\ tiles = Shelf!OnPage(n, x)
  OBVIOUS
<1>2. /\ x.sel \in Nat /\ x.page \in Nat /\ p \in Nat \ {0} /\ at \in Nat /\ at < n
      /\ tiles = IF p < n - at THEN p ELSE n - at
  BY <1>1, Cells, PageHas DEF Browsers
<1>3. PICK s : s = IF x.sel < tiles - 1 THEN x.sel ELSE tiles - 1
  OBVIOUS
<1>4. s \in Nat /\ s < p /\ at + s < n
  BY <1>2, <1>3
<1>5. PICK y : y = [x EXCEPT !.sel = s]
  OBVIOUS
<1>6. Shelf!Within(n, x) = y
  BY <1>1, <1>3, <1>5 DEF Shelf!Within, Shelf!Least
<1>7. y \in Browsers /\ Same(x, y) /\ y.page = x.page /\ y.sel = s
  BY <1>4, <1>5 DEF Browsers, Same
<1>8. Stands(n, y)
  <2>1. Shelf!PerPage(y) = p
    BY <1>1, <1>7, SameCells
  <2>2. Shelf!Index(y) = at + s
    BY <1>1, <1>7, <2>1 DEF Shelf!Index
  <2> QED BY <1>4, <1>7, <2>1, <2>2, StandsIs
<1> QED BY <1>1, <1>3, <1>6, <1>7, <1>8

LEMMA TurnLands ==
  ASSUME NEW x \in Browsers, NEW n \in Nat \ {0}, Stands(n, x), NEW delta \in {-1, 1}
  PROVE  LET y == Shelf!turn(n, x, delta) IN
         /\ y \in Browsers /\ Same(x, y) /\ Stands(n, y)
         /\ y.page = IF Shelf!CanTurn(n, x, delta) THEN x.page + delta ELSE x.page
         /\ ~Shelf!CanTurn(n, x, delta) => y = x
         /\ Shelf!CanTurn(n, x, delta) <=> x.page + delta \in Nat /\ (x.page + delta) * Shelf!PerPage(x) < n
<1>1. PICK p, g, pages : p = Shelf!PerPage(x) /\ g = x.page + delta /\ pages = Shelf!PagesOf(n, x)
  OBVIOUS
<1>2. g \in Int /\ pages \in Nat /\ \A h \in Nat : h < pages <=> h * p < n
  BY <1>1, PageHas DEF Browsers
<1>3. Shelf!CanTurn(n, x, delta) <=> g \in Nat /\ g < pages
  <2>1. Shelf!CanTurn(n, x, delta) <=> g \in 0..pages - 1
    BY <1>1 DEF Shelf!CanTurn
  <2> QED BY <1>2, <2>1
<1>4. Shelf!CanTurn(n, x, delta) <=> g \in Nat /\ g * p < n
  BY <1>2, <1>3
<1>5. CASE ~Shelf!CanTurn(n, x, delta)
  <2>1. Shelf!turn(n, x, delta) = x
    BY <1>5 DEF Shelf!turn
  <2> QED BY <1>1, <1>4, <1>5, <2>1 DEF Same
<1>6. CASE Shelf!CanTurn(n, x, delta)
  <2>1. PICK z : z = [x EXCEPT !.page = g]
    OBVIOUS
  <2>2. z \in Browsers /\ Same(x, z) /\ z.page = g
    BY <1>4, <1>6, <2>1 DEF Browsers, Same
  <2>3. z.page * Shelf!PerPage(z) < n
    BY <1>1, <1>4, <1>6, <2>2, SameCells
  <2>4. PICK y : y = Shelf!Within(n, z)
    OBVIOUS
  <2>5. y \in Browsers /\ Same(z, y) /\ Stands(n, y) /\ y.page = g
    BY <2>2, <2>3, <2>4, WithinStands
  <2>6. Same(x, y)
    BY <2>2, <2>5 DEF Same
  <2>7. Shelf!turn(n, x, delta) = y
    BY <1>1, <1>6, <2>1, <2>4 DEF Shelf!turn
  <2> QED BY <1>1, <1>4, <1>6, <2>5, <2>6, <2>7
<1> QED BY <1>5, <1>6

\* At the start the cursor stands, however few there are.
LEMMA AtStart ==
  ASSUME NEW x \in Browsers, x.page = 0, x.sel = 0, NEW n \in Nat
  PROVE  Stands(n, x) /\ Shelf!Index(x) = 0
<1>1. PICK p : p = Shelf!PerPage(x)
  OBVIOUS
<1>2. p \in Nat \ {0} /\ Shelf!Index(x) = 0 * p + 0
  BY <1>1, Cells DEF Shelf!Index
<1>3. Shelf!Index(x) = 0
  BY <1>2
<1> QED BY <1>1, <1>2, <1>3, StandsIs

\* A filter is a new question: the cursor is back at the start.
LEMMA ReframeStands ==
  ASSUME NEW x \in Browsers, NEW n \in Nat
  PROVE  LET y == Shelf!reframe(x) IN
         /\ y \in Browsers /\ Same(x, y) /\ Stands(n, y) /\ Shelf!Index(y) = 0
<1>1. PICK y : y = Shelf!reframe(x)
  OBVIOUS
<1>2. y \in Browsers /\ Same(x, y) /\ y.page = 0 /\ y.sel = 0
  BY <1>1 DEF Shelf!reframe, Browsers, Same
<1> QED BY <1>1, <1>2, AtStart

\* Shown, a game is under the cursor.
LEMMA ShowStands ==
  ASSUME NEW x \in Browsers, NEW found, Len(found) \in Nat, DOMAIN found = 1..Len(found),
         NEW m \in 1..Len(found)
  PROVE  LET y == Shelf!show(x, found[m], found) IN
         /\ y \in Browsers /\ Same(x, y) /\ Stands(Len(found), y)
         /\ Shelf!Index(y) < Len(found) /\ found[Shelf!Index(y) + 1] = found[m]
<1> DEFINE at == {k \in DOMAIN found : found[k] = found[m]}
           q == CHOOSE k \in at : TRUE
<1>1. q \in at /\ at # {}
  OBVIOUS
<1>2. PICK i, c, y : i = q - 1 /\ c = Shelf!PerPage(x) /\ y = [x EXCEPT !.page = i \div c, !.sel = i % c]
  OBVIOUS
<1>3. Shelf!show(x, found[m], found) = y
  BY <1>1, <1>2 DEF Shelf!show
<1> HIDE DEF q
<1>4. i \in Nat /\ i < Len(found) /\ i + 1 = q /\ c \in Nat \ {0}
  BY <1>1, <1>2, Cells
<1>5. PICK g, s : g = i \div c /\ s = i % c
  OBVIOUS
<1>6. g \in Nat /\ s \in Nat /\ s < c /\ g * c + s = i
  <2>1. g \in Nat /\ s \in 0..c - 1 /\ g * c + s = i
    BY <1>4, <1>5, DivMod
  <2> QED BY <1>4, <2>1
<1>7. y \in Browsers /\ Same(x, y) /\ y.page = g /\ y.sel = s
  BY <1>2, <1>5, <1>6 DEF Browsers, Same
<1>8. Shelf!PerPage(y) = c
  BY <1>2, <1>7, SameCells
<1>9. Shelf!Index(y) = i
  BY <1>5, <1>6, <1>7, <1>8 DEF Shelf!Index
<1>10. Stands(Len(found), y)
  BY <1>4, <1>5, <1>6, <1>7, <1>8, <1>9, StandsIs
<1>11. found[Shelf!Index(y) + 1] = found[m]
  BY <1>1, <1>4, <1>9
<1> QED BY <1>3, <1>4, <1>7, <1>9, <1>10, <1>11

(* the cursor moves *)

\* Down or up: the page it lands on has a game, and so has the line.
LEMMA VerticalLands ==
  ASSUME NEW x \in Browsers, NEW n \in Nat \ {0}, Stands(n, x), NEW dy \in {-1, 1}
  PROVE  LET v == Shelf!vertical(n, x, dy) IN
         v.to \in Browsers /\ Same(x, v.to) /\ Stands(n, v.to) /\ v.row \in Nat
<1>1. PICK v, turned, columns, lines, row, tiles :
        /\ v = Shelf!vertical(n, x, dy) /\ turned = Shelf!turn(n, x, dy)
        /\ columns = Columns(x) /\ lines = Lines(x) /\ row = (x.sel \div columns) + dy
        /\ tiles = Shelf!OnPage(n, x)
  OBVIOUS
<1>2. columns \in Nat \ {0} /\ lines \in Nat \ {0} /\ x.sel \in Nat
  BY <1>1, Cells DEF Browsers
<1>3. row \in Int
  <2>1. x.sel \div columns \in Nat
    BY <1>2, DivMod
  <2> QED BY <1>1, <2>1
<1>4. turned \in Browsers /\ Same(x, turned) /\ Stands(n, turned)
  BY <1>1, TurnLands
<1>5. tiles \in Nat \ {0}
  <2>1. x.sel < tiles
    BY <1>1 DEF Stands
  <2>2. PICK p, at : p = Shelf!PerPage(x) /\ at = x.page * p
    OBVIOUS
  <2>3. p \in Nat \ {0} /\ at \in Nat /\ tiles = IF p < n - at THEN p ELSE n - at
    BY <1>1, <2>2, Cells, PageHas
  <2> QED BY <1>2, <2>1, <2>3
<1>6. v = IF columns > 1 THEN [to |-> x, row |-> Shelf!Least(IF row < 0 THEN 0 ELSE row, lines - 1)]
          ELSE IF row < 0 THEN [to |-> turned, row |-> IF Shelf!CanTurn(n, x, dy) THEN lines - 1 ELSE 0]
          ELSE IF row >= lines \/ row >= tiles
          THEN [to |-> turned, row |-> IF Shelf!CanTurn(n, x, dy) THEN 0 ELSE Shelf!Least(row, tiles - 1)]
          ELSE [to |-> x, row |-> row]
  BY <1>1 DEF Shelf!vertical, Columns, Lines
<1>7. v.to \in {x, turned}
  BY <1>6
<1>8. v.row \in Nat
  <2>1. v.row = IF columns > 1 THEN Shelf!Least(IF row < 0 THEN 0 ELSE row, lines - 1)
                ELSE IF row < 0 THEN (IF Shelf!CanTurn(n, x, dy) THEN lines - 1 ELSE 0)
                ELSE IF row >= lines \/ row >= tiles
                THEN (IF Shelf!CanTurn(n, x, dy) THEN 0 ELSE Shelf!Least(row, tiles - 1))
                ELSE row
    BY <1>6
  <2>2. lines - 1 \in Nat /\ tiles - 1 \in Nat /\ (~(row < 0) => row \in Nat)
    BY <1>2, <1>3, <1>5
  <2>3. \A i, j \in Nat : Shelf!Least(i, j) \in Nat
    BY DEF Shelf!Least
  <2>4. Shelf!Least(IF row < 0 THEN 0 ELSE row, lines - 1) \in Nat
    <3>1. (IF row < 0 THEN 0 ELSE row) \in Nat
      BY <2>2
    <3> QED BY <2>2, <2>3, <3>1
  <2>5. ~(row < 0) => Shelf!Least(row, tiles - 1) \in Nat
    BY <2>2, <2>3
  <2> QED BY <2>1, <2>2, <2>4, <2>5
<1>9. Same(x, x)
  BY DEF Same
<1> QED BY <1>1, <1>4, <1>7, <1>8, <1>9

\* Left or right: so it is across.
LEMMA HorizontalLands ==
  ASSUME NEW x \in Browsers, NEW n \in Nat \ {0}, Stands(n, x), NEW dx \in {-1, 0, 1}
  PROVE  LET h == Shelf!horizontal(n, x, dx) IN
         h.to \in Browsers /\ Same(x, h.to) /\ Stands(n, h.to) /\ h.column \in Nat
<1>1. PICK h, turned, columns, column :
        /\ h = Shelf!horizontal(n, x, dx) /\ turned = Shelf!turn(n, x, dx)
        /\ columns = Columns(x) /\ column = (x.sel % columns) + dx
  OBVIOUS
<1>2. columns \in Nat \ {0} /\ x.sel \in Nat
  BY <1>1, Cells DEF Browsers
<1>3. x.sel % columns \in 0..columns - 1
  BY <1>2, DivMod
<1>4. h = IF column \in 0..columns - 1 THEN [to |-> x, column |-> column]
          ELSE [to |-> turned,
                column |-> IF Shelf!CanTurn(n, x, dx) THEN (IF dx < 0 THEN columns - 1 ELSE 0)
                           ELSE IF dx < 0 THEN 0 ELSE columns - 1]
  BY <1>1 DEF Shelf!horizontal, Columns
<1>5. h.column \in Nat
  BY <1>2, <1>4
<1>6. h.to = x \/ (h.to = turned /\ dx \in {-1, 1})
  <2>1. dx = 0 => column \in 0..columns - 1
    BY <1>1, <1>2, <1>3
  <2> QED BY <1>4, <2>1
<1>7. dx \in {-1, 1} => turned \in Browsers /\ Same(x, turned) /\ Stands(n, turned)
  BY <1>1, TurnLands
<1>8. Same(x, x)
  BY DEF Same
<1> QED BY <1>1, <1>5, <1>6, <1>7, <1>8

\* On a page that has a game, a tile is given: the cursor is put on it, or on the last.
LEMMA GivenTile ==
  ASSUME NEW x \in Browsers, NEW n \in Nat \ {0}, NEW y \in Browsers, Same(x, y), Stands(n, y), NEW s \in Nat
  PROVE  LET z == Shelf!Within(n, [y EXCEPT !.sel = s]) IN
         /\ z \in Browsers /\ Same(x, z) /\ Stands(n, z) /\ z.page = y.page
         /\ z.sel = IF s < Shelf!OnPage(n, y) - 1 THEN s ELSE Shelf!OnPage(n, y) - 1
<1>1. PICK w, z : w = [y EXCEPT !.sel = s] /\ z = Shelf!Within(n, w)
  OBVIOUS
<1>2. w \in Browsers /\ Same(y, w) /\ w.page = y.page /\ w.sel = s
  BY <1>1 DEF Browsers, Same
<1>3. Shelf!PerPage(w) = Shelf!PerPage(y) /\ Shelf!OnPage(n, w) = Shelf!OnPage(n, y)
  <2>1. Shelf!PerPage(w) = Shelf!PerPage(y)
    BY <1>2, SameCells
  <2> QED BY <1>2, <2>1, Zenon DEF Shelf!OnPage
<1>4. w.page * Shelf!PerPage(w) < n
  <2>1. y.page < Shelf!PagesOf(n, y) /\ y.page \in Nat
    BY DEF Stands, Browsers
  <2>2. y.page * Shelf!PerPage(y) < n
    BY <2>1, PageHas
  <2> QED BY <1>2, <1>3, <2>2
<1>5. z \in Browsers /\ Same(w, z) /\ Stands(n, z) /\ z.page = w.page
      /\ z.sel = IF w.sel < Shelf!OnPage(n, w) - 1 THEN w.sel ELSE Shelf!OnPage(n, w) - 1
  BY <1>1, <1>2, <1>4, WithinStands
<1>6. Same(x, z)
  BY <1>2, <1>5 DEF Same
<1> QED BY <1>1, <1>2, <1>3, <1>5, <1>6

LEMMA MoveStands ==
  ASSUME NEW x \in Browsers, NEW n \in Nat, Stands(n, x), NEW dx \in {-1, 0, 1}, NEW dy \in {-1, 0, 1}
  PROVE  LET y == Shelf!move(n, x, dx, dy) IN y \in Browsers /\ Same(x, y) /\ Stands(n, y)
<1>1. CASE n = 0
  BY <1>1 DEF Shelf!move, Same
<1>2. CASE n # 0 /\ dy # 0
  <2>1. PICK v, cols : v = Shelf!vertical(n, x, dy) /\ cols = Columns(x)
    OBVIOUS
  <2>2. v.to \in Browsers /\ Same(x, v.to) /\ Stands(n, v.to) /\ v.row \in Nat
    BY <1>2, <2>1, VerticalLands
  <2>3. v.row * cols + (x.sel % cols) \in Nat
    <3>1. cols \in Nat \ {0} /\ x.sel \in Nat
      BY <2>1, Cells DEF Browsers
    <3>2. x.sel % cols \in 0..cols - 1 /\ v.row * cols \in Nat
      BY <2>2, <3>1, DivMod, Products
    <3> QED BY <3>1, <3>2
  <2>4. Shelf!move(n, x, dx, dy) = Shelf!Within(n, [v.to EXCEPT !.sel = v.row * cols + (x.sel % cols)])
    BY <1>2, <2>1 DEF Shelf!move, Columns
  <2> QED BY <1>2, <2>2, <2>3, <2>4, GivenTile
<1>3. CASE n # 0 /\ dy = 0
  <2>1. PICK h, cols : h = Shelf!horizontal(n, x, dx) /\ cols = Columns(x)
    OBVIOUS
  <2>2. h.to \in Browsers /\ Same(x, h.to) /\ Stands(n, h.to) /\ h.column \in Nat
    BY <1>3, <2>1, HorizontalLands
  <2>3. (x.sel \div cols) * cols + h.column \in Nat
    <3>1. cols \in Nat \ {0} /\ x.sel \in Nat
      BY <2>1, Cells DEF Browsers
    <3>2. x.sel \div cols \in Nat
      BY <3>1, DivMod
    <3>3. (x.sel \div cols) * cols \in Nat
      BY <3>1, <3>2, Products
    <3> QED BY <2>2, <3>3
  <2>4. Shelf!move(n, x, dx, dy) = Shelf!Within(n, [h.to EXCEPT !.sel = (x.sel \div cols) * cols + h.column])
    BY <1>3, <2>1 DEF Shelf!move, Columns
  <2> QED BY <1>3, <2>2, <2>3, <2>4, GivenTile
<1> QED BY <1>1, <1>2, <1>3

\* In a list, down and up go one game on, over the end of a page too, and stop at the ends.
LEMMA ListMoves ==
  ASSUME NEW x \in Browsers, NEW n \in Nat \ {0}, Stands(n, x), x.view = "rows", NEW dy \in {-1, 1}
  PROVE  Shelf!Index(Shelf!move(n, x, 0, dy))
           = IF Shelf!Index(x) + dy \in 0..n - 1 THEN Shelf!Index(x) + dy ELSE Shelf!Index(x)
<1>1. PICK v, turned, lines, tiles, at, y :
        /\ v = Shelf!vertical(n, x, dy) /\ turned = Shelf!turn(n, x, dy) /\ lines = Lines(x)
        /\ tiles = Shelf!OnPage(n, x) /\ at = x.page * lines /\ y = Shelf!move(n, x, 0, dy)
  OBVIOUS
<1>2. Columns(x) = 1 /\ Shelf!PerPage(x) = lines /\ lines \in Nat \ {0} /\ x.sel \in Nat /\ x.page \in Nat
  BY <1>1, Cells DEF Browsers
<1>3. at \in Nat /\ tiles = IF lines < n - at THEN lines ELSE n - at
  BY <1>1, <1>2, PageHas
<1>4. Shelf!Index(x) = at + x.sel /\ x.sel < lines /\ at + x.sel < n /\ x.sel < tiles
  <2>1. Shelf!Index(x) = at + x.sel
    BY <1>1, <1>2 DEF Shelf!Index
  <2>2. x.sel < tiles
    BY <1>1 DEF Stands
  <2> QED BY <1>2, <1>3, <2>1, <2>2
<1>5. x.sel \div 1 = x.sel /\ x.sel % 1 = 0
  BY <1>2, DivOne
<1>6. v = IF x.sel + dy < 0 THEN [to |-> turned, row |-> IF Shelf!CanTurn(n, x, dy) THEN lines - 1 ELSE 0]
          ELSE IF x.sel + dy >= lines \/ x.sel + dy >= tiles
          THEN [to |-> turned, row |-> IF Shelf!CanTurn(n, x, dy) THEN 0 ELSE Shelf!Least(x.sel + dy, tiles - 1)]
          ELSE [to |-> x, row |-> x.sel + dy]
  <2>1. ~(1 > 1)
    OBVIOUS
  <2> QED BY <1>1, <1>2, <1>5, <2>1, Zenon DEF Shelf!vertical, Columns, Lines
<1>7. v.to \in Browsers /\ Same(x, v.to) /\ Stands(n, v.to) /\ v.row \in Nat
  BY <1>1, VerticalLands
<1>8. y = Shelf!Within(n, [v.to EXCEPT !.sel = v.row])
  <2>1. y = Shelf!Within(n, [v.to EXCEPT !.sel = v.row * 1 + 0])
    <3>1. n # 0 /\ dy # 0
      OBVIOUS
    <3> QED BY <1>1, <1>2, <1>5, <3>1, Zenon DEF Shelf!move, Columns
  <2>2. v.row * 1 + 0 = v.row
    BY <1>7
  <2> QED BY <2>1, <2>2
<1>9. /\ Same(x, y) /\ y.page = v.to.page
      /\ y.sel = IF v.row < Shelf!OnPage(n, v.to) - 1 THEN v.row ELSE Shelf!OnPage(n, v.to) - 1
  BY <1>7, <1>8, GivenTile
<1>10. Shelf!Index(y) = y.page * lines + y.sel
  <2>1. Shelf!PerPage(y) = lines
    BY <1>2, <1>9, SameCells
  <2> QED BY <2>1 DEF Shelf!Index
<1>11. PICK to, its, held : to = v.to.page * lines /\ its = Shelf!OnPage(n, v.to) /\ held = v.row
  OBVIOUS
<1>12. to \in Nat /\ its = IF lines < n - to THEN lines ELSE n - to
  <2>1. Shelf!PerPage(v.to) = lines
    BY <1>2, <1>7, SameCells
  <2> QED BY <1>7, <1>11, <2>1, PageHas
<1>13. Shelf!Index(y) = to + (IF held < its - 1 THEN held ELSE its - 1)
  BY <1>9, <1>10, <1>11
<1>14. /\ Shelf!CanTurn(n, x, dy) <=> x.page + dy \in Nat /\ (x.page + dy) * lines < n
       /\ Shelf!CanTurn(n, x, dy) => turned.page = x.page + dy
       /\ ~Shelf!CanTurn(n, x, dy) => turned = x
  BY <1>1, <1>2, TurnLands
<1>15. (x.page + dy) * lines = at + dy * lines
  BY <1>1, <1>2
<1>16. PICK next : next = (x.page + dy) * lines
  OBVIOUS
<1>17. CASE x.sel + dy \in Nat /\ x.sel + dy < lines /\ x.sel + dy < tiles
  <2>1. v.to = x /\ held = x.sel + dy
    <3>1. ~(x.sel + dy < 0) /\ ~(x.sel + dy >= lines \/ x.sel + dy >= tiles)
      BY <1>2, <1>3, <1>17
    <3> QED BY <1>6, <1>11, <3>1
  <2>2. to = at /\ its = tiles
    BY <1>1, <1>11, <2>1
  <2> QED BY <1>1, <1>2, <1>3, <1>4, <1>13, <1>17, <2>1, <2>2
<1>18. CASE dy = 1 /\ ~(x.sel + 1 < lines /\ x.sel + 1 < tiles)
  <2>1. next = at + lines
    BY <1>2, <1>3, <1>15, <1>16, <1>18
  <2>2. v.to = turned /\ held = IF Shelf!CanTurn(n, x, dy) THEN 0 ELSE Shelf!Least(x.sel + 1, tiles - 1)
    <3>1. ~(x.sel + dy < 0) /\ (x.sel + dy >= lines \/ x.sel + dy >= tiles)
      BY <1>2, <1>3, <1>18
    <3> QED BY <1>6, <1>11, <1>18, <3>1
  <2>3. Shelf!CanTurn(n, x, dy) <=> next < n
    BY <1>2, <1>14, <1>16, <1>18
  <2>4. CASE next < n
    <3>1. to = next /\ held = 0
      BY <1>11, <1>14, <1>16, <2>2, <2>3, <2>4
    <3>2. at + x.sel + 1 = next /\ Shelf!Index(y) = next
      BY <1>2, <1>3, <1>4, <1>12, <1>13, <1>18, <2>1, <2>4, <3>1
    <3> QED BY <1>1, <1>2, <1>3, <1>4, <1>18, <2>1, <2>4, <3>2
  <2>5. CASE ~(next < n)
    <3>1. to = at /\ its = tiles
      BY <1>1, <1>11, <1>14, <2>2, <2>3, <2>5
    <3>2. held = Shelf!Least(x.sel + 1, tiles - 1)
      BY <2>2, <2>3, <2>5
    <3>3. at + x.sel = n - 1
      BY <1>2, <1>3, <1>4, <1>18, <2>1, <2>5
    <3> QED BY <1>1, <1>2, <1>3, <1>4, <1>13, <1>18, <3>1, <3>2, <3>3 DEF Shelf!Least
  <2> QED BY <2>4, <2>5
<1>19. CASE dy = -1 /\ x.sel = 0
  <2>1. v.to = turned /\ held = IF Shelf!CanTurn(n, x, dy) THEN lines - 1 ELSE 0
    <3>1. x.sel + dy < 0
      BY <1>19
    <3> QED BY <1>6, <1>11, <3>1
  <2>2. next = at - lines
    BY <1>2, <1>3, <1>15, <1>16, <1>19
  <2>3. Shelf!CanTurn(n, x, dy) <=> x.page # 0
    BY <1>2, <1>3, <1>4, <1>14, <1>16, <1>19, <2>2
  <2>4. CASE x.page # 0
    <3>1. to = at - lines /\ held = lines - 1
      BY <1>11, <1>14, <1>16, <2>1, <2>2, <2>3, <2>4
    <3>2. Shelf!Index(y) = at - 1 /\ at - 1 \in Nat
      BY <1>2, <1>3, <1>4, <1>12, <1>13, <1>19, <3>1
    <3> QED BY <1>1, <1>2, <1>3, <1>4, <1>19, <3>2
  <2>5. CASE x.page = 0
    <3>1. at = 0
      BY <1>1, <1>2, <2>5
    <3>2. to = at /\ its = tiles /\ held = 0
      BY <1>1, <1>11, <1>14, <2>1, <2>3, <2>5
    <3>3. Shelf!Index(y) = 0 /\ Shelf!Index(x) = 0
      BY <1>2, <1>3, <1>4, <1>13, <1>19, <3>1, <3>2
    <3>4. Shelf!Index(x) + dy \notin 0..n - 1
      BY <1>19, <3>3
    <3> QED BY <1>1, <3>3, <3>4
  <2> QED BY <2>4, <2>5
<1> QED BY <1>2, <1>3, <1>4, <1>17, <1>18, <1>19

(* what the picker remembers *)

IsData(d) == DOMAIN d = Shelf!Fields /\ d["search"] \in Nat

\* What is read back is known, or as fresh.
LEMMA ApplyTyped ==
  ASSUME NEW d, IsData(d)
  PROVE  Shelf!apply(d) \in Browsers /\ \A n \in Nat : Stands(n, Shelf!apply(d))
<1>1. PICK pl, rg, pr, vw : /\ pl = (IF d["platform"] \in Shelf!ToSet(Shelf!Platforms) THEN d["platform"] ELSE "all")
                            /\ rg = (IF d["region"] \in Shelf!ToSet(Shelf!Regions) THEN d["region"] ELSE "all")
                            /\ pr = (IF d["presence"] \in Shelf!ToSet(Shelf!Presence) THEN d["presence"] ELSE "all")
                            /\ vw = (IF d["view"] \in Shelf!ToSet(Shelf!Views) THEN d["view"] ELSE "grid")
  OBVIOUS
<1>2. /\ pl \in Known(Shelf!Platforms) /\ rg \in Known(Shelf!Regions)
      /\ pr \in Known(Shelf!Presence) /\ vw \in Known(Shelf!Views)
  BY <1>1, OptionLists DEF Known
<1>3. Shelf!apply(d) = [platform |-> pl, region |-> rg, presence |-> pr, search |-> d["search"], view |-> vw,
                        page |-> 0, sel |-> 0]
  <2>1. /\ Shelf!Fresh["platform"] = "all" /\ Shelf!Fresh["region"] = "all"
        /\ Shelf!Fresh["presence"] = "all" /\ Shelf!Fresh["view"] = "grid"
    BY DEF Shelf!Fresh, Shelf!ALL
  <2>2. Shelf!apply(d) = [[Shelf!Fresh EXCEPT !.platform = pl, !.region = rg, !.presence = pr, !.search = d["search"]]
                            EXCEPT !.view = vw]
    BY <1>1, <2>1, Zenon DEF Shelf!apply
  <2> QED BY <2>2 DEF Shelf!Fresh, Shelf!ALL
<1>4. PICK x : x = Shelf!apply(d)
  OBVIOUS
<1>5. x \in Browsers /\ x.page = 0 /\ x.sel = 0
  BY <1>2, <1>3, <1>4 DEF IsData, Browsers
<1>6. ASSUME NEW n \in Nat PROVE Stands(n, x)
  BY <1>5, AtStart
<1> QED BY <1>4, <1>5, <1>6

LEMMA SnapshotIs ==
  ASSUME NEW x
  PROVE  LET d == Shelf!snapshot(x) IN
         /\ DOMAIN d = Shelf!Fields /\ d["platform"] = x.platform /\ d["region"] = x.region
         /\ d["presence"] = x.presence /\ d["search"] = x.search /\ d["view"] = x.view
BY DEF Shelf!snapshot, Shelf!Fields

LEMMA SnapshotSame ==
  ASSUME NEW x, NEW y, Same(x, y)
  PROVE  Shelf!snapshot(y) = Shelf!snapshot(x)
<1>1. ASSUME NEW f \in Shelf!Fields PROVE y[f] = x[f]
  BY Zenon DEF Same, Shelf!Fields
<1> QED BY <1>1, Zenon DEF Shelf!snapshot

\* What is kept of a shelf is read back as it was.
LEMMA ApplyKept ==
  ASSUME NEW x \in Browsers
  PROVE  LET d == Shelf!snapshot(x) IN IsData(d) /\ Shelf!snapshot(Shelf!apply(d)) = d
<1>1. PICK d : d = Shelf!snapshot(x)
  OBVIOUS
<1>2. /\ DOMAIN d = Shelf!Fields /\ d["platform"] = x.platform /\ d["region"] = x.region
      /\ d["presence"] = x.presence /\ d["search"] = x.search /\ d["view"] = x.view
  BY <1>1, SnapshotIs
<1>3. IsData(d)
  BY <1>2 DEF IsData, Browsers
<1>4. PICK y : y = Shelf!apply(d)
  OBVIOUS
<1>5. /\ x.platform \in Shelf!ToSet(Shelf!Platforms) /\ x.region \in Shelf!ToSet(Shelf!Regions)
      /\ x.presence \in Shelf!ToSet(Shelf!Presence) /\ x.view \in Shelf!ToSet(Shelf!Views)
  BY DEF Browsers, Known
<1>6. y = [platform |-> x.platform, region |-> x.region, presence |-> x.presence, search |-> x.search,
           view |-> x.view, page |-> 0, sel |-> 0]
  BY <1>2, <1>4, <1>5 DEF Shelf!apply, Shelf!Fresh, Shelf!ALL
<1>7. Same(x, y)
  BY <1>6 DEF Same
<1> QED BY <1>1, <1>3, <1>4, <1>7, SnapshotSame

\* What the disk has and what the loop believes it has, x being on screen.
FileFine(f, x) ==
  /\ f = [disk |-> f.disk, last |-> f.last, faults |-> f.faults]
  /\ f.faults \in Nat /\ IsData(f.disk) /\ IsData(f.last)
  /\ f.faults = 0 => f.disk = f.last
  /\ Shelf!snapshot(Shelf!apply(f.last)) = Shelf!snapshot(x)

LEMMA SetKeeps ==
  ASSUME NEW x \in Browsers, FileFine(file, b), Shelf!Set(x)
  PROVE  b' = x /\ FileFine(file', x)
<1>1. PICK d : d = Shelf!snapshot(x)
  OBVIOUS
<1>2. IsData(d) /\ Shelf!snapshot(Shelf!apply(d)) = Shelf!snapshot(x)
  BY <1>1, ApplyKept
<1>3. b' = x /\ Shelf!keep(x)
  BY DEF Shelf!Set
<1>4. \/ d = file.last /\ file' = file
      \/ file' = [file EXCEPT !.last = d, !.disk = d]
      \/ file' = [file EXCEPT !.last = d, !.faults = @ + 1]
  BY <1>1, <1>3 DEF Shelf!keep
<1>5. /\ file = [disk |-> file.disk, last |-> file.last, faults |-> file.faults]
      /\ file.faults \in Nat /\ IsData(file.disk) /\ IsData(file.last) /\ (file.faults = 0 => file.disk = file.last)
  BY DEF FileFine
<1>6. CASE d = file.last /\ file' = file
  BY <1>2, <1>3, <1>5, <1>6, Zenon DEF FileFine
<1>7. CASE file' = [file EXCEPT !.last = d, !.disk = d]
  <2>1. file' = [disk |-> d, last |-> d, faults |-> file.faults]
    BY <1>5, <1>7
  <2>2. file' = [disk |-> file'.disk, last |-> file'.last, faults |-> file'.faults]
        /\ file'.disk = d /\ file'.last = d /\ file'.faults = file.faults
    BY <2>1
  <2> QED BY <1>2, <1>3, <1>5, <2>2, Zenon DEF FileFine
<1>8. CASE file' = [file EXCEPT !.last = d, !.faults = @ + 1]
  <2>1. file' = [disk |-> file.disk, last |-> d, faults |-> file.faults + 1]
    BY <1>5, <1>8
  <2>2. file' = [disk |-> file'.disk, last |-> file'.last, faults |-> file'.faults]
        /\ file'.disk = file.disk /\ file'.last = d /\ file'.faults = file.faults + 1
    BY <2>1
  <2>3. file'.faults \in Nat /\ file'.faults # 0
    BY <1>5, <2>2
  <2> QED BY <1>2, <1>3, <1>5, <2>2, <2>3, Zenon DEF FileFine
<1> QED BY <1>4, <1>6, <1>7, <1>8

(* what narrows and draws it *)

\* A filter that is set to what is offered puts the cursor at the start.
LEMMA NarrowedStands ==
  ASSUME NEW x \in Browsers, NEW f, NEW v,
         \/ f = "platform" /\ v \in Known(Shelf!Platforms)
         \/ f = "region" /\ v \in Known(Shelf!Regions)
         \/ f = "presence" /\ v \in Known(Shelf!Presence)
         \/ f = "search" /\ v \in Nat
  PROVE  LET y == Shelf!Narrowed(x, f, v) IN y \in Browsers /\ y.view = x.view /\ \A n \in Nat : Stands(n, y)
<1>1. PICK z : z = [x EXCEPT ![f] = v]
  OBVIOUS
<1>2. z \in Browsers /\ z.view = x.view
  <2>1. CASE f = "platform" /\ v \in Known(Shelf!Platforms)
    BY <1>1, <2>1 DEF Browsers
  <2>2. CASE f = "region" /\ v \in Known(Shelf!Regions)
    BY <1>1, <2>2 DEF Browsers
  <2>3. CASE f = "presence" /\ v \in Known(Shelf!Presence)
    BY <1>1, <2>3 DEF Browsers
  <2>4. CASE f = "search" /\ v \in Nat
    BY <1>1, <2>4 DEF Browsers
  <2> QED BY <2>1, <2>2, <2>3, <2>4
<1>3. PICK y : y = Shelf!reframe(z)
  OBVIOUS
<1>4. y \in Browsers /\ Same(z, y) /\ \A n \in Nat : Stands(n, y)
  BY <1>2, <1>3, ReframeStands
<1> QED BY <1>1, <1>2, <1>3, <1>4 DEF Shelf!Narrowed, Same

\* Drawn in another shape, the game in hand stays in hand.
LEMMA ViewStands ==
  ASSUME NEW x \in Browsers, NEW here, NEW view \in Known(Shelf!Views), Stands(Len(Shelf!filter(x, here)), x)
  PROVE  LET y == Shelf!set_view(x, here, view) IN
         /\ y \in Browsers /\ Stands(Len(Shelf!filter(y, here)), y)
         /\ Shelf!Held(y, here) = Shelf!Held(x, here)
<1>1. PICK found, z, shaped, y :
        /\ found = Shelf!filter(x, here) /\ z = [x EXCEPT !.view = view]
        /\ shaped = Shelf!reframe(z) /\ y = Shelf!set_view(x, here, view)
  OBVIOUS
<1>2. Len(found) \in Nat /\ DOMAIN found = 1..Len(found)
  BY <1>1, FoundIs
<1>3. CASE view = x.view
  <2>1. y = x
    BY <1>1, <1>3 DEF Shelf!set_view
  <2> QED BY <1>1, <2>1
<1>4. CASE view # x.view
  <2>1. /\ z \in Browsers /\ z.platform = x.platform /\ z.region = x.region
        /\ z.search = x.search /\ z.presence = x.presence
    BY <1>1 DEF Browsers
  <2>2. shaped \in Browsers /\ Same(z, shaped) /\ Stands(Len(found), shaped) /\ Shelf!Index(shaped) = 0
    BY <1>1, <1>2, <2>1, ReframeStands
  <2>3. ASSUME NEW w, Same(shaped, w) PROVE Shelf!filter(w, here) = found
    <3>1. w.platform = x.platform /\ w.region = x.region /\ w.search = x.search /\ w.presence = x.presence
      BY <2>1, <2>2, <2>3 DEF Same
    <3> QED BY <1>1, <3>1, SameFound
  <2>4. PICK i : i = Shelf!Index(x)
    OBVIOUS
  <2>5. i \in Nat /\ (Len(found) > 0 => i < Len(found))
    <3>1. PICK p : p = Shelf!PerPage(x)
      OBVIOUS
    <3>2. p \in Nat \ {0} /\ x.page \in Nat /\ x.sel \in Nat
      BY <3>1, Cells DEF Browsers
    <3>3. x.page * p \in Nat
      BY <3>2, Products
    <3>4. i \in Nat
      BY <2>4, <3>1, <3>2, <3>3 DEF Shelf!Index
    <3> QED BY <1>1, <1>2, <2>4, <3>4, StandsIs
  <2>6. CASE Len(found) = 0
    <3>1. i >= Len(found)
      BY <2>5, <2>6
    <3>2. y = shaped
      BY <1>1, <1>4, <2>4, <3>1 DEF Shelf!set_view
    <3>3. Shelf!filter(y, here) = found
      BY <2>3, <3>2 DEF Same
    <3>4. Shelf!Held(y, here) = 0
      BY <2>2, <2>6, <3>2, <3>3 DEF Shelf!Held
    <3>5. Shelf!Held(x, here) = 0
      BY <1>1, <2>4, <2>5, <2>6 DEF Shelf!Held
    <3> QED BY <1>1, <2>2, <3>2, <3>3, <3>4, <3>5
  <2>7. CASE Len(found) > 0
    <3>1. PICK m : m = i + 1
      OBVIOUS
    <3>2. m \in 1..Len(found) /\ ~(i >= Len(found))
      BY <1>2, <2>5, <2>7, <3>1
    <3>3. y = Shelf!show(shaped, found[m], found)
      BY <1>1, <1>4, <2>4, <3>1, <3>2 DEF Shelf!set_view
    <3>4. /\ y \in Browsers /\ Same(shaped, y) /\ Stands(Len(found), y)
          /\ Shelf!Index(y) < Len(found) /\ found[Shelf!Index(y) + 1] = found[m]
      BY <1>2, <2>2, <3>2, <3>3, ShowStands
    <3>5. Shelf!filter(y, here) = found
      BY <2>3, <3>4
    <3>6. Shelf!Held(y, here) = found[m]
      BY <3>4, <3>5 DEF Shelf!Held
    <3>7. Shelf!Held(x, here) = found[m]
      BY <1>1, <2>4, <2>5, <2>7, <3>1 DEF Shelf!Held
    <3> QED BY <1>1, <3>4, <3>5, <3>6, <3>7
  <2> QED BY <1>2, <2>6, <2>7
<1> QED BY <1>3, <1>4

\* The list that a row of the panel offers, if it offers one.
LEMMA Offers ==
  ASSUME NEW row
  PROVE  \/ row = "platform" /\ Shelf!options_for(row) = Shelf!Platforms
         \/ row = "region" /\ Shelf!options_for(row) = Shelf!Regions
         \/ row = "presence" /\ Shelf!options_for(row) = Shelf!Presence
         \/ row = "view" /\ Shelf!options_for(row) = Shelf!Views
         \/ row \notin {"platform", "region", "presence", "view"} /\ Shelf!options_for(row) = <<>>
BY DEF Shelf!options_for

(* the shelf's steps *)

RowNames == {"update", "platform", "region", "presence", "search", "clear", "view"}

Screens == [panel : Nat, rows : Seq(RowNames), choice : Nat, keys : Nat \X Nat, from : Nat]

\* A choice is among what its row offers, and the keyboard's cursor is on a key.
ScreenFine(s) ==
  /\ s \in Screens /\ s.panel <= Len(s.rows)
  /\ s.choice > 0 => s.panel > 0 /\ s.choice <= Len(Shelf!options_for(s.rows[s.panel]))
  /\ s.keys # <<0, 0>> => s.keys[1] \in 1..Len(KeyRows) /\ s.keys[2] \in 1..KeyRows[s.keys[1]]

ShelfInv == /\ b \in Browsers /\ Stands(Len(Shelf!visible), b)
            /\ ScreenFine(screen) /\ FileFine(file, b)

\* Drawn otherwise, the library has the game in hand where it was.
HandHolds == screen.panel > 0 /\ screen'.panel > 0 /\ b'.view # b.view
               => Shelf!Held(b', installed') = Shelf!Held(b, installed)

\* x is shown and kept, and its cursor stands.
Shows(x) == x \in Browsers /\ Shelf!Set(x) /\ Stands(Len(Shelf!filter(x, installed')), x)

LEMMA ShowsInv ==
  ASSUME ShelfInv, NEW x, Shows(x), ScreenFine(screen')
  PROVE  ShelfInv' /\ b' = x
<1>1. b' = x /\ FileFine(file', x)
  BY SetKeeps DEF ShelfInv, Shows
<1>2. Shelf!visible' = Shelf!filter(x, installed')
  BY <1>1 DEF Shelf!visible
<1> QED BY <1>1, <1>2, Zenon DEF ShelfInv, Shows

LEMMA HandSame ==
  ASSUME ShelfInv, b'.view = b.view
  PROVE  HandHolds
BY DEF HandHolds

\* What is on screen but for the cursor stands where the cursor does.
LEMMA SameShows ==
  ASSUME ShelfInv, NEW x \in Browsers, Same(b, x), Stands(Len(Shelf!visible), x), Shelf!Set(x), installed' = installed
  PROVE  Shows(x) /\ x.view = b.view
<1>1. Shelf!filter(x, installed') = Shelf!visible
  BY SameFound DEF Same, Shelf!visible
<1> QED BY <1>1 DEF Shows, Same

LEMMA BrowserShows ==
  ASSUME ShelfInv, Shelf!Set(b), installed' = installed
  PROVE  Shows(b)
<1>1. Same(b, b)
  BY DEF Same
<1> QED BY <1>1, SameShows DEF ShelfInv

\* A filter that is set to what is offered.
LEMMA NarrowedShows ==
  ASSUME ShelfInv, NEW f, NEW v, Shelf!Set(Shelf!Narrowed(b, f, v)),
         \/ f = "platform" /\ v \in Known(Shelf!Platforms)
         \/ f = "region" /\ v \in Known(Shelf!Regions)
         \/ f = "presence" /\ v \in Known(Shelf!Presence)
         \/ f = "search" /\ v \in Nat
  PROVE  Shows(Shelf!Narrowed(b, f, v)) /\ Shelf!Narrowed(b, f, v).view = b.view
<1>1. PICK y : y = Shelf!Narrowed(b, f, v)
  OBVIOUS
<1>2. b \in Browsers
  BY DEF ShelfInv
<1>3. y \in Browsers /\ y.view = b.view /\ \A n \in Nat : Stands(n, y)
  BY <1>1, <1>2, NarrowedStands
<1>4. Len(Shelf!filter(y, installed')) \in Nat
  BY FoundIs
<1> QED BY <1>1, <1>3, <1>4 DEF Shows

LEMMA ScreenShut == ScreenFine(Shelf!Shut)
BY DEF ScreenFine, Screens, Shelf!Shut

LEMMA ShelfStarts ==
  ASSUME Shelf!Init
  PROVE  ShelfInv
<1>1. PICK d : /\ d \in {Shelf!Gone, Shelf!snapshot(Shelf!Fresh)} /\ b = Shelf!apply(d) /\ screen = Shelf!Shut
               /\ file = [disk |-> d, last |-> d, faults |-> 0]
  BY DEF Shelf!Init
<1>2. IsData(d)
  <2>1. IsData(Shelf!Gone)
    BY DEF IsData, Shelf!Gone, Shelf!Fields
  <2>2. IsData(Shelf!snapshot(Shelf!Fresh))
    <3>1. Shelf!Fresh.search = 0
      BY DEF Shelf!Fresh
    <3>2. PICK e : e = Shelf!snapshot(Shelf!Fresh)
      OBVIOUS
    <3>3. DOMAIN e = Shelf!Fields /\ e["search"] = 0
      BY <3>1, <3>2, SnapshotIs
    <3> QED BY <3>2, <3>3 DEF IsData
  <2> QED BY <1>1, <2>1, <2>2
<1>3. Len(Shelf!visible) \in Nat
  BY FoundIs DEF Shelf!visible
<1>4. b \in Browsers /\ Stands(Len(Shelf!visible), b)
  BY <1>1, <1>2, <1>3, ApplyTyped
<1>5. FileFine(file, b)
  <2>1. file.disk = d /\ file.last = d /\ file.faults = 0 /\ file = [disk |-> file.disk, last |-> file.last, faults |-> file.faults]
    BY <1>1
  <2> QED BY <1>1, <1>2, <2>1 DEF FileFine
<1> QED BY <1>1, <1>4, <1>5, ScreenShut DEF ShelfInv

LEMMA ShelfReopen ==
  ASSUME ShelfInv, Shelf!Reopen
  PROVE  ShelfInv' /\ HandHolds
<1>1. b' = Shelf!apply(file.disk) /\ screen' = Shelf!Shut /\ file' = [file EXCEPT !.last = file.disk]
  BY DEF Shelf!Reopen
<1>2. /\ file = [disk |-> file.disk, last |-> file.last, faults |-> file.faults]
      /\ file.faults \in Nat /\ IsData(file.disk)
  BY DEF ShelfInv, FileFine
<1>3. Len(Shelf!visible') \in Nat
  BY FoundIs DEF Shelf!visible
<1>4. b' \in Browsers /\ Stands(Len(Shelf!visible'), b')
  BY <1>1, <1>2, <1>3, ApplyTyped
<1>5. FileFine(file', b')
  <2>1. file' = [disk |-> file.disk, last |-> file.disk, faults |-> file.faults]
    BY <1>1, <1>2
  <2>2. file' = [disk |-> file'.disk, last |-> file'.last, faults |-> file'.faults]
        /\ file'.disk = file.disk /\ file'.last = file.disk /\ file'.faults = file.faults
    BY <2>1
  <2> QED BY <1>1, <1>2, <2>2, Zenon DEF FileFine
<1>6. screen'.panel = 0
  BY <1>1 DEF Shelf!Shut
<1>7. HandHolds
  BY <1>6 DEF HandHolds
<1> QED BY <1>1, <1>4, <1>5, <1>7, ScreenShut DEF ShelfInv

LEMMA ShelfMove ==
  ASSUME ShelfInv, NEW dx \in {-1, 0, 1}, NEW dy \in {-1, 0, 1}, Shelf!Move(dx, dy)
  PROVE  ShelfInv' /\ HandHolds
<1>1. PICK n, x : n = Len(Shelf!visible) /\ x = Shelf!move(n, b, dx, dy)
  OBVIOUS
<1>2. Shelf!Set(x) /\ installed' = installed /\ screen' = screen
  BY <1>1 DEF Shelf!Move, Shelf!OnGrid
<1>3. n \in Nat
  BY <1>1, FoundIs DEF Shelf!visible
<1>4. x \in Browsers /\ Same(b, x) /\ Stands(n, x)
  BY <1>1, <1>3, MoveStands DEF ShelfInv
<1>5. Shows(x) /\ x.view = b.view
  BY <1>1, <1>2, <1>4, SameShows
<1>6. ScreenFine(screen')
  BY <1>2 DEF ShelfInv
<1> QED BY <1>5, <1>6, ShowsInv, HandSame

LEMMA ShelfPoint ==
  ASSUME ShelfInv, Shelf!Point
  PROVE  ShelfInv' /\ HandHolds
<1>1. PICK n : n = Len(Shelf!visible)
  OBVIOUS
<1>2. n \in Nat
  BY <1>1, FoundIs DEF Shelf!visible
<1>3. b \in Browsers /\ Stands(n, b) /\ screen' = screen /\ installed' = installed /\ ScreenFine(screen')
  BY <1>1 DEF ShelfInv, Shelf!Point, Shelf!OnGrid
<1>4. ASSUME NEW x \in Browsers, Same(b, x), Stands(n, x), Shelf!Set(x) PROVE ShelfInv' /\ HandHolds
  <2>1. Shows(x) /\ x.view = b.view
    BY <1>1, <1>3, <1>4, SameShows
  <2> QED BY <1>3, <2>1, ShowsInv, HandSame
<1>5. ASSUME NEW i \in 0..Shelf!OnPage(n, b) - 1, Shelf!Set([b EXCEPT !.sel = i]) PROVE ShelfInv' /\ HandHolds
  <2>1. PICK x : x = [b EXCEPT !.sel = i]
    OBVIOUS
  <2>2. PICK tiles : tiles = Shelf!OnPage(n, b)
    OBVIOUS
  <2>3. tiles \in Int
    <3>1. PICK p, at : p = Shelf!PerPage(b) /\ at = b.page * p
      OBVIOUS
    <3>2. p \in Nat /\ at \in Nat /\ tiles = IF p < n - at THEN p ELSE n - at
      BY <1>2, <1>3, <2>2, <3>1, Cells, PageHas
    <3> QED BY <1>2, <3>2
  <2>4. i \in Nat /\ i < tiles
    BY <2>2, <2>3
  <2>5. x \in Browsers /\ Same(b, x) /\ x.page = b.page /\ x.sel = i
    BY <1>3, <2>1, <2>4 DEF Browsers, Same
  <2>6. Shelf!PerPage(x) = Shelf!PerPage(b)
    BY <2>5, SameCells
  <2>7. Shelf!PagesOf(n, x) = Shelf!PagesOf(n, b) /\ Shelf!OnPage(n, x) = tiles
    BY <2>2, <2>5, <2>6, Zenon DEF Shelf!PagesOf, Shelf!OnPage
  <2>8. Stands(n, x)
    BY <1>3, <2>4, <2>5, <2>7, Zenon DEF Stands
  <2> QED BY <1>4, <1>5, <2>1, <2>5, <2>8
<1>6. ASSUME NEW delta \in {-1, 1}, Shelf!Set(Shelf!turn(n, b, delta)) PROVE ShelfInv' /\ HandHolds
  <2>1. CASE n = 0
    <3>1. ~Shelf!CanTurn(n, b, delta)
      <4>1. PICK p, pages : p = Shelf!PerPage(b) /\ pages = Shelf!PagesOf(n, b)
        OBVIOUS
      <4>2. p \in Nat /\ pages \in Nat /\ (0 < pages <=> 0 * p < n)
        BY <1>2, <1>3, <4>1, Cells, PageHas
      <4>3. pages = 0
        BY <2>1, <4>2
      <4> QED BY <4>1, <4>3 DEF Shelf!CanTurn
    <3>2. Shelf!turn(n, b, delta) = b /\ Same(b, b)
      BY <3>1 DEF Shelf!turn, Same
    <3> QED BY <1>3, <1>4, <1>6, <3>2
  <2>2. CASE n # 0
    <3>1. PICK x : x = Shelf!turn(n, b, delta)
      OBVIOUS
    <3>2. x \in Browsers /\ Same(b, x) /\ Stands(n, x)
      BY <1>2, <1>3, <2>2, <3>1, TurnLands
    <3> QED BY <1>4, <1>6, <3>1, <3>2
  <2> QED BY <2>1, <2>2
<1> QED BY <1>1, <1>5, <1>6 DEF Shelf!Point

LEMMA ShelfShortcut ==
  ASSUME ShelfInv, Shelf!Shortcut
  PROVE  ShelfInv' /\ HandHolds
<1>1. ScreenFine(screen') /\ b.platform \in Known(Shelf!Platforms)
  BY DEF ShelfInv, Shelf!Shortcut, Shelf!OnGrid, Browsers
<1>2. ASSUME NEW f, NEW v, Shelf!Set(Shelf!Narrowed(b, f, v)),
             (f = "platform" /\ v \in Known(Shelf!Platforms)) \/ (f = "presence" /\ v \in Known(Shelf!Presence))
      PROVE  ShelfInv' /\ HandHolds
  <2>1. Shows(Shelf!Narrowed(b, f, v)) /\ Shelf!Narrowed(b, f, v).view = b.view
    BY <1>2, NarrowedShows
  <2> QED BY <1>1, <2>1, ShowsInv, HandSame
<1>3. Shelf!Cycled(Shelf!Platforms, b.platform, 1) \in Known(Shelf!Platforms)
  BY <1>1, CycledKnown DEF Options
<1>4. (IF b.presence = "installed" THEN Shelf!ALL ELSE "installed") \in Known(Shelf!Presence)
  BY OptionLists DEF Shelf!ALL
<1>5. \/ Shelf!Set(Shelf!Narrowed(b, "platform", Shelf!Cycled(Shelf!Platforms, b.platform, 1)))
      \/ Shelf!Set(Shelf!Narrowed(b, "presence", IF b.presence = "installed" THEN Shelf!ALL ELSE "installed"))
  BY DEF Shelf!Shortcut
<1> QED BY <1>2, <1>3, <1>4, <1>5

\* The keyboard comes up on a key.
LEMMA KeysUp ==
  ASSUME NEW s, ScreenFine(s), NEW from \in Nat
  PROVE  ScreenFine([s EXCEPT !.keys = <<2, 1>>, !.from = from])
<1>1. PICK t : t = [s EXCEPT !.keys = <<2, 1>>, !.from = from]
  OBVIOUS
<1>2. t \in Screens /\ t.panel = s.panel /\ t.rows = s.rows /\ t.choice = s.choice /\ t.keys = <<2, 1>>
  BY <1>1 DEF ScreenFine, Screens
<1>3. t.keys[1] \in 1..Len(KeyRows) /\ t.keys[2] \in 1..KeyRows[t.keys[1]]
  <2>1. Len(KeyRows) \in Nat /\ Len(KeyRows) >= 2 /\ KeyRows[2] \in Nat \ {0}
    BY ShelfAssumption
  <2>2. t.keys[1] = 2 /\ t.keys[2] = 1
    BY <1>2
  <2> QED BY <2>1, <2>2
<1> QED BY <1>1, <1>2, <1>3 DEF ScreenFine

LEMMA PanelUp ==
  ASSUME NEW offer \in {<<>>, <<"update">>}
  PROVE  ScreenFine([Shelf!Shut EXCEPT !.panel = 1, !.rows = offer \o Shelf!PanelRows])
<1>1. PICK rows : rows = offer \o Shelf!PanelRows
  OBVIOUS
<1>2. rows \in Seq(RowNames) /\ Len(rows) >= 1
  <2>1. Shelf!PanelRows \in Seq(RowNames) /\ Len(Shelf!PanelRows) = 6
    BY DEF Shelf!PanelRows, RowNames
  <2>2. offer \in Seq(RowNames)
    <3>1. \A S : <<>> \in Seq(S) /\ \A u \in S : <<u>> \in Seq(S)
      OBVIOUS
    <3>2. "update" \in RowNames
      BY DEF RowNames
    <3> QED BY <3>1, <3>2, Zenon
  <2> QED BY <1>1, <2>1, <2>2
<1>3. PICK t : t = [Shelf!Shut EXCEPT !.panel = 1, !.rows = rows]
  OBVIOUS
<1>4. t = [panel |-> 1, rows |-> rows, choice |-> 0, keys |-> <<0, 0>>, from |-> 0]
  BY <1>3 DEF Shelf!Shut
<1>5. t \in Screens /\ t.panel = 1 /\ t.rows = rows /\ t.choice = 0 /\ t.keys = <<0, 0>>
  BY <1>2, <1>4 DEF Screens
<1>6. Len(rows) \in Nat /\ ~(t.choice > 0)
  BY <1>2, <1>5
<1> QED BY <1>1, <1>2, <1>3, <1>5, <1>6 DEF ScreenFine

LEMMA ShelfOpen ==
  ASSUME ShelfInv, Shelf!Open
  PROVE  ShelfInv' /\ HandHolds
<1>1. Shelf!Set(b) /\ installed' = installed /\ b.search \in Nat
  BY DEF ShelfInv, Shelf!Open, Shelf!OnGrid, Browsers
<1>2. ScreenFine(screen')
  <2>1. CASE \E offer \in {<<>>, <<"update">>} : screen' = [Shelf!Shut EXCEPT !.panel = 1, !.rows = offer \o Shelf!PanelRows]
    BY <2>1, PanelUp
  <2>2. CASE screen' = [Shelf!Shut EXCEPT !.keys = <<2, 1>>, !.from = b.search]
    BY <1>1, <2>2, KeysUp, ScreenShut
  <2> QED BY <2>1, <2>2 DEF Shelf!Open
<1>3. Shows(b)
  BY <1>1, BrowserShows
<1> QED BY <1>2, <1>3, ShowsInv, HandSame

(* the panel *)

\* The cursor of a list that goes round stays in it.
LEMMA Round ==
  ASSUME NEW i \in Nat, NEW size \in Nat \ {0}, NEW delta \in {-1, 1}
  PROVE  1 + ((i - 1 + delta) % size) \in 1..size
<1>1. PICK m : m = (i - 1 + delta) % size
  OBVIOUS
<1>2. m \in 0..size - 1
  <2>1. i - 1 + delta \in Int
    OBVIOUS
  <2> QED BY <1>1, <2>1, Mods
<1> QED BY <1>1, <1>2

\* What a row of the panel is set to, of what it offers, is shown; and the hand holds.
LEMMA SetValueShows ==
  ASSUME ShelfInv, NEW row, Shelf!options_for(row) # <<>>, NEW v \in Known(Shelf!options_for(row)),
         Shelf!Set(Shelf!set_value(b, row, v)), installed' = installed, ScreenFine(screen')
  PROVE  ShelfInv' /\ HandHolds
<1>1. CASE row = "view"
  <2>1. PICK y : y = Shelf!set_view(b, installed, v)
    OBVIOUS
  <2>2. v \in Known(Shelf!Views)
    BY <1>1, Offers
  <2>3. y = Shelf!set_value(b, row, v)
    BY <1>1, <2>1 DEF Shelf!set_value
  <2>4. /\ y \in Browsers /\ Stands(Len(Shelf!filter(y, installed)), y)
        /\ Shelf!Held(y, installed) = Shelf!Held(b, installed)
    BY <2>1, <2>2, ViewStands DEF ShelfInv, Shelf!visible
  <2>5. Shows(y)
    BY <2>3, <2>4 DEF Shows
  <2>6. ShelfInv' /\ b' = y
    BY <2>5, ShowsInv
  <2> QED BY <2>4, <2>6 DEF HandHolds
<1>2. CASE row # "view"
  <2>1. /\ row \in {"platform", "region", "presence"} /\ Shelf!set_value(b, row, v) = Shelf!Narrowed(b, row, v)
        /\ \/ row = "platform" /\ v \in Known(Shelf!Platforms)
           \/ row = "region" /\ v \in Known(Shelf!Regions)
           \/ row = "presence" /\ v \in Known(Shelf!Presence)
    BY <1>2, Offers DEF Shelf!set_value
  <2>2. Shows(Shelf!Narrowed(b, row, v)) /\ Shelf!Narrowed(b, row, v).view = b.view
    BY <2>1, NarrowedShows
  <2> QED BY <2>2, ShowsInv, HandSame
<1> QED BY <1>1, <1>2

\* A row that offers a list offers a list of the picker's, with what is chosen in it.
LEMMA OfferHas ==
  ASSUME ShelfInv, NEW row, Shelf!options_for(row) # <<>>
  PROVE  LET o == Shelf!options_for(row) IN
         o \in Options /\ o \in Seq(Known(o)) /\ Len(o) \in Nat \ {0} /\ b[row] \in Known(o)
<1>1. /\ b.platform \in Known(Shelf!Platforms) /\ b.region \in Known(Shelf!Regions)
      /\ b.presence \in Known(Shelf!Presence) /\ b.view \in Known(Shelf!Views)
  BY DEF ShelfInv, Browsers
<1>2. Shelf!options_for(row) \in Options /\ b[row] \in Known(Shelf!options_for(row))
  BY <1>1, Offers, Zenon DEF Options
<1> QED BY <1>2, OptionLists

LEMMA ShelfPanelStep ==
  ASSUME ShelfInv, Shelf!PanelStep
  PROVE  ShelfInv' /\ HandHolds
<1>1. PICK row, o : row = Shelf!Row /\ o = Shelf!options_for(row)
  OBVIOUS
<1>2. /\ screen \in Screens /\ screen.panel > 0 /\ screen.panel <= Len(screen.rows) /\ screen.keys = <<0, 0>>
      /\ screen.choice > 0 => screen.choice <= Len(o)
      /\ ScreenFine(screen) /\ installed' = installed
  BY <1>1 DEF ShelfInv, ScreenFine, Shelf!PanelStep, Shelf!OnPanel, Shelf!Row
<1>3. screen.panel \in Nat /\ screen.choice \in Nat /\ Len(screen.rows) \in Nat
  BY <1>2 DEF Screens
<1>4. PICK delta \in {-1, 1} :
       \/ /\ screen.choice > 0 /\ Shelf!Set(b)
          /\ screen' = [screen EXCEPT !.choice = 1 + ((screen.choice - 1 + delta) % Len(o))]
       \/ /\ screen.choice = 0 /\ Shelf!Set(b)
          /\ screen' = [screen EXCEPT !.panel = 1 + ((screen.panel - 1 + delta) % Len(screen.rows))]
       \/ /\ screen.choice = 0 /\ screen' = screen
          /\ Shelf!Set(IF o = <<>> THEN b ELSE Shelf!set_value(b, row, Shelf!Cycled(o, b[row], delta)))
  BY <1>1 DEF Shelf!PanelStep
<1>5. ASSUME Shelf!Set(b), ScreenFine(screen') PROVE ShelfInv' /\ HandHolds
  <2>1. Shows(b)
    BY <1>2, <1>5, BrowserShows
  <2> QED BY <1>5, <2>1, ShowsInv, HandSame
<1>6. CASE /\ screen.choice > 0 /\ Shelf!Set(b)
           /\ screen' = [screen EXCEPT !.choice = 1 + ((screen.choice - 1 + delta) % Len(o))]
  <2>1. o # <<>>
    <3>1. Len(<<>>) = 0
      OBVIOUS
    <3> QED BY <1>2, <1>3, <1>6, <3>1
  <2>2. Len(o) \in Nat \ {0}
    BY <1>1, <2>1, OfferHas
  <2>3. PICK c : c = 1 + ((screen.choice - 1 + delta) % Len(o))
    OBVIOUS
  <2>4. c \in 1..Len(o)
    BY <1>3, <2>2, <2>3, Round
  <2>5. /\ screen' \in Screens /\ screen'.panel = screen.panel /\ screen'.rows = screen.rows
        /\ screen'.choice = c /\ screen'.keys = <<0, 0>>
    BY <1>2, <1>6, <2>3, <2>4 DEF Screens
  <2>6. ScreenFine(screen')
    <3>1. Shelf!options_for(screen'.rows[screen'.panel]) = o
      BY <1>1, <2>5 DEF Shelf!Row
    <3>2. c <= Len(o)
      BY <2>2, <2>4
    <3> QED BY <1>2, <2>5, <3>1, <3>2 DEF ScreenFine
  <2> QED BY <1>5, <1>6, <2>6
<1>7. CASE /\ screen.choice = 0 /\ Shelf!Set(b)
           /\ screen' = [screen EXCEPT !.panel = 1 + ((screen.panel - 1 + delta) % Len(screen.rows))]
  <2>1. PICK p : p = 1 + ((screen.panel - 1 + delta) % Len(screen.rows))
    OBVIOUS
  <2>2. Len(screen.rows) \in Nat \ {0}
    BY <1>2, <1>3
  <2>3. p \in 1..Len(screen.rows)
    BY <1>3, <2>1, <2>2, Round
  <2>4. p \in Nat /\ p <= Len(screen.rows)
    BY <2>2, <2>3
  <2>5. /\ screen' \in Screens /\ screen'.panel = p /\ screen'.rows = screen.rows
        /\ screen'.choice = 0 /\ screen'.keys = <<0, 0>>
    BY <1>2, <1>7, <2>1, <2>4 DEF Screens
  <2>6. ~(screen'.choice > 0)
    BY <2>5
  <2>7. ScreenFine(screen')
    BY <2>4, <2>5, <2>6 DEF ScreenFine
  <2> QED BY <1>5, <1>7, <2>7
<1>8. CASE /\ screen.choice = 0 /\ screen' = screen
           /\ Shelf!Set(IF o = <<>> THEN b ELSE Shelf!set_value(b, row, Shelf!Cycled(o, b[row], delta)))
  <2>1. ScreenFine(screen')
    BY <1>2, <1>8
  <2>2. CASE o = <<>>
    BY <1>5, <1>8, <2>1, <2>2
  <2>3. CASE o # <<>>
    <3>1. o \in Options /\ b[row] \in Known(o)
      BY <1>1, <2>3, OfferHas
    <3>2. PICK v : v = Shelf!Cycled(o, b[row], delta)
      OBVIOUS
    <3>3. v \in Known(o)
      BY <3>1, <3>2, CycledKnown
    <3>4. Shelf!Set(Shelf!set_value(b, row, v))
      BY <1>8, <2>3, <3>2
    <3> QED BY <1>1, <1>2, <2>1, <2>3, <3>3, <3>4, SetValueShows
  <2> QED BY <2>2, <2>3
<1> QED BY <1>4, <1>6, <1>7, <1>8

\* A choice that is put down, or typing that is.
LEMMA Downs ==
  ASSUME NEW s, ScreenFine(s)
  PROVE  ScreenFine([s EXCEPT !.choice = 0]) /\ ScreenFine([s EXCEPT !.keys = <<0, 0>>, !.from = 0])
<1>1. PICK t, u : t = [s EXCEPT !.choice = 0] /\ u = [s EXCEPT !.keys = <<0, 0>>, !.from = 0]
  OBVIOUS
<1>2. /\ t \in Screens /\ t.panel = s.panel /\ t.rows = s.rows /\ t.choice = 0 /\ t.keys = s.keys
      /\ u \in Screens /\ u.panel = s.panel /\ u.rows = s.rows /\ u.choice = s.choice /\ u.keys = <<0, 0>>
  BY <1>1 DEF ScreenFine, Screens
<1>3. ~(t.choice > 0)
  BY <1>2
<1> QED BY <1>1, <1>2, <1>3 DEF ScreenFine

LEMMA ShelfPanelPress ==
  ASSUME ShelfInv, Shelf!PanelPress
  PROVE  ShelfInv' /\ HandHolds
<1>1. PICK row, o : row = Shelf!Row /\ o = Shelf!options_for(row)
  OBVIOUS
<1>2. /\ screen \in Screens /\ screen.panel > 0 /\ screen.keys = <<0, 0>>
      /\ screen.choice > 0 => screen.choice <= Len(o)
      /\ ScreenFine(screen) /\ installed' = installed /\ b \in Browsers /\ b.search \in Nat
  BY <1>1 DEF ShelfInv, Browsers, ScreenFine, Shelf!PanelPress, Shelf!OnPanel, Shelf!Row
<1>3. screen.panel \in Nat /\ screen.choice \in Nat
  BY <1>2 DEF Screens
<1>4. \/ /\ screen.choice > 0 /\ screen' = [screen EXCEPT !.choice = 0]
         /\ Shelf!Set(Shelf!set_value(b, row, o[screen.choice]))
      \/ /\ o # <<>> /\ Shelf!Set(b)
         /\ screen' = [screen EXCEPT !.choice = CHOOSE k \in DOMAIN o : o[k] = b[row]]
      \/ screen' = screen /\ Shelf!Set(Shelf!clear(b))
      \/ Shelf!Set(b) /\ screen' = [screen EXCEPT !.keys = <<2, 1>>, !.from = b.search]
      \/ Shelf!Set(b) /\ screen' = Shelf!Shut
  BY <1>1 DEF Shelf!PanelPress
<1>5. ASSUME Shelf!Set(b), ScreenFine(screen') PROVE ShelfInv' /\ HandHolds
  <2>1. Shows(b)
    BY <1>2, <1>5, BrowserShows
  <2> QED BY <1>5, <2>1, ShowsInv, HandSame
<1>6. CASE /\ screen.choice > 0 /\ screen' = [screen EXCEPT !.choice = 0]
           /\ Shelf!Set(Shelf!set_value(b, row, o[screen.choice]))
  <2>1. o # <<>>
    <3>1. Len(<<>>) = 0
      OBVIOUS
    <3> QED BY <1>2, <1>3, <1>6, <3>1
  <2>2. o \in Seq(Known(o)) /\ Len(o) \in Nat \ {0}
    BY <1>1, <2>1, OfferHas
  <2>3. o[screen.choice] \in Known(o)
    BY <1>2, <1>3, <1>6, <2>2
  <2>4. ScreenFine(screen')
    BY <1>2, <1>6, Downs
  <2> QED BY <1>1, <1>2, <1>6, <2>1, <2>3, <2>4, SetValueShows
<1>7. CASE /\ o # <<>> /\ Shelf!Set(b)
           /\ screen' = [screen EXCEPT !.choice = CHOOSE k \in DOMAIN o : o[k] = b[row]]
  <2>1. o \in Seq(Known(o)) /\ Len(o) \in Nat \ {0} /\ b[row] \in Known(o)
    BY <1>1, <1>7, OfferHas
  <2>2. PICK c : c = CHOOSE k \in DOMAIN o : o[k] = b[row]
    OBVIOUS
  <2>3. c \in DOMAIN o
    BY <2>1, <2>2 DEF Known, Shelf!ToSet
  <2>4. c \in Nat /\ c <= Len(o)
    BY <2>1, <2>3
  <2>5. /\ screen' \in Screens /\ screen'.panel = screen.panel /\ screen'.rows = screen.rows
        /\ screen'.choice = c /\ screen'.keys = <<0, 0>>
    BY <1>2, <1>7, <2>2, <2>4 DEF Screens
  <2>6. Shelf!options_for(screen'.rows[screen'.panel]) = o
    BY <1>1, <2>5 DEF Shelf!Row
  <2>7. ScreenFine(screen')
    BY <1>2, <2>4, <2>5, <2>6 DEF ScreenFine
  <2> QED BY <1>5, <1>7, <2>7
<1>8. CASE screen' = screen /\ Shelf!Set(Shelf!clear(b))
  <2>1. PICK z, y : /\ z = [b EXCEPT !.platform = "all", !.region = "all", !.search = 0, !.presence = "all"]
                    /\ y = Shelf!reframe(z)
    OBVIOUS
  <2>2. y = Shelf!clear(b)
    BY <2>1 DEF Shelf!clear, Shelf!ALL
  <2>3. z \in Browsers /\ z.view = b.view
    <3>1. "all" \in Known(Shelf!Presence)
      BY OptionLists
    <3> QED BY <1>2, <2>1, <3>1, OptionLists DEF Browsers
  <2>4. y \in Browsers /\ Same(z, y) /\ \A n \in Nat : Stands(n, y)
    BY <2>1, <2>3, ReframeStands
  <2>5. Len(Shelf!filter(y, installed')) \in Nat
    BY FoundIs
  <2>6. Shows(y) /\ y.view = b.view
    BY <1>8, <2>2, <2>3, <2>4, <2>5 DEF Shows, Same
  <2>7. ScreenFine(screen')
    BY <1>2, <1>8
  <2> QED BY <2>6, <2>7, ShowsInv, HandSame
<1>9. CASE Shelf!Set(b) /\ screen' = [screen EXCEPT !.keys = <<2, 1>>, !.from = b.search]
  <2>1. ScreenFine(screen')
    BY <1>2, <1>9, KeysUp
  <2> QED BY <1>5, <1>9, <2>1
<1>10. CASE Shelf!Set(b) /\ screen' = Shelf!Shut
  BY <1>5, <1>10, ScreenShut
<1> QED BY <1>4, <1>6, <1>7, <1>8, <1>9, <1>10

LEMMA ShelfPanelBack ==
  ASSUME ShelfInv, Shelf!PanelBack
  PROVE  ShelfInv' /\ HandHolds
<1>1. /\ Shelf!Set(b) /\ installed' = installed /\ ScreenFine(screen)
      /\ screen' = [screen EXCEPT !.choice = 0] \/ screen' = Shelf!Shut
  BY DEF ShelfInv, Shelf!PanelBack, Shelf!OnPanel
<1>2. ScreenFine(screen')
  BY <1>1, Downs, ScreenShut
<1>3. Shows(b)
  BY <1>1, BrowserShows
<1> QED BY <1>2, <1>3, ShowsInv, HandSame

(* the keyboard *)

LEMMA ShelfKeyMove ==
  ASSUME ShelfInv, Shelf!KeyMove
  PROVE  ShelfInv' /\ HandHolds
<1>1. PICK step \in {<<-1, 0>>, <<1, 0>>, <<0, -1>>, <<0, 1>>} :
        screen' = [screen EXCEPT !.keys = Shelf!KeyStep(screen.keys, step[1], step[2])]
  BY DEF Shelf!KeyMove
<1>2. /\ Shelf!Set(b) /\ installed' = installed /\ ScreenFine(screen) /\ screen.keys # <<0, 0>>
  BY DEF ShelfInv, Shelf!KeyMove, Shelf!OnTyping
<1>3. /\ screen \in Screens /\ screen.keys[1] \in 1..Len(KeyRows) /\ screen.keys[2] \in 1..KeyRows[screen.keys[1]]
      /\ screen.panel <= Len(screen.rows)
      /\ screen.choice > 0 => screen.panel > 0 /\ screen.choice <= Len(Shelf!options_for(screen.rows[screen.panel]))
  BY <1>2 DEF ScreenFine
<1>4. PICK r, c, size, dx, dy : /\ r = screen.keys[1] /\ c = screen.keys[2] /\ size = Len(KeyRows)
                                /\ dx = step[1] /\ dy = step[2]
  OBVIOUS
<1>5. dx \in {-1, 0, 1} /\ dy \in {-1, 0, 1}
  BY <1>4
<1>6. KeyRows \in Seq(Nat \ {0}) /\ size \in Nat \ {0} /\ r \in 1..size /\ c \in 1..KeyRows[r]
  BY <1>3, <1>4, ShelfAssumption
<1>7. PICK row : row = 1 + ((r - 1 + dy) % size)
  OBVIOUS
<1>8. row \in 1..size
  <2>1. PICK m : m = (r - 1 + dy) % size
    OBVIOUS
  <2>2. m \in 0..size - 1
    <3>1. r - 1 + dy \in Int
      BY <1>5, <1>6
    <3> QED BY <1>6, <2>1, <3>1, Mods
  <2> QED BY <1>6, <1>7, <2>1, <2>2
<1>9. PICK width, was : width = KeyRows[row] /\ was = KeyRows[r]
  OBVIOUS
<1>10. width \in Nat \ {0} /\ was \in Nat \ {0} /\ c \in 1..was
  BY <1>4, <1>6, <1>8, <1>9
<1>11. PICK col : col = IF width = was THEN c - 1 ELSE ((c - 1) * width) \div was
  OBVIOUS
<1>12. col \in Nat
  <2>1. c - 1 \in Nat
    BY <1>10
  <2>2. (c - 1) * width \in Nat
    BY <1>10, <2>1, Products
  <2>3. ((c - 1) * width) \div was \in Nat
    BY <1>10, <2>2, DivMod
  <2> QED BY <1>11, <2>1, <2>3
<1>13. PICK at : at = (col + dx) % width
  OBVIOUS
<1>14. at \in 0..width - 1
  <2>1. col + dx \in Int
    BY <1>5, <1>12
  <2> QED BY <1>10, <1>13, <2>1, Mods
<1>15. Shelf!KeyStep(screen.keys, dx, dy) = <<row, 1 + at>>
  BY <1>4, <1>7, <1>9, <1>11, <1>13, Zenon DEF Shelf!KeyStep
<1>16. screen' = [screen EXCEPT !.keys = <<row, 1 + at>>]
  BY <1>1, <1>4, <1>15
<1>17. row \in Nat /\ 1 + at \in 1..width
  BY <1>6, <1>8, <1>10, <1>14
<1>18. /\ screen' \in Screens /\ screen'.panel = screen.panel /\ screen'.rows = screen.rows
       /\ screen'.choice = screen.choice /\ screen'.keys[1] = row /\ screen'.keys[2] = 1 + at
  <2>1. PICK key : key = <<row, 1 + at>>
    OBVIOUS
  <2>2. key \in Nat \X Nat /\ key[1] = row /\ key[2] = 1 + at
    BY <1>10, <1>17, <2>1
  <2>3. screen' = [screen EXCEPT !.keys = key]
    BY <1>16, <2>1
  <2>4. /\ screen' \in Screens /\ screen'.panel = screen.panel /\ screen'.rows = screen.rows
        /\ screen'.choice = screen.choice /\ screen'.keys = key
    BY <1>3, <2>2, <2>3 DEF Screens
  <2> QED BY <2>2, <2>4
<1>19. ScreenFine(screen')
  BY <1>3, <1>4, <1>8, <1>9, <1>17, <1>18 DEF ScreenFine
<1>20. Shows(b)
  BY <1>2, BrowserShows
<1> QED BY <1>19, <1>20, ShowsInv, HandSame

\* What is typed narrows the grid under it.
LEMMA SearchedShows ==
  ASSUME ShelfInv, NEW n \in Nat, Shelf!Searched(n), installed' = installed, ScreenFine(screen')
  PROVE  ShelfInv' /\ HandHolds
<1>1. CASE n = b.search
  <2>1. Shelf!Set(b)
    BY <1>1 DEF Shelf!Searched
  <2>2. Shows(b)
    BY <2>1, BrowserShows
  <2> QED BY <2>2, ShowsInv, HandSame
<1>2. CASE n # b.search
  <2>1. Shelf!Set(Shelf!Narrowed(b, "search", n))
    BY <1>2 DEF Shelf!Searched
  <2>2. Shows(Shelf!Narrowed(b, "search", n)) /\ Shelf!Narrowed(b, "search", n).view = b.view
    BY <2>1, NarrowedShows
  <2> QED BY <2>2, ShowsInv, HandSame
<1> QED BY <1>1, <1>2

LEMMA ShelfKeyPress ==
  ASSUME ShelfInv, Shelf!KeyPress
  PROVE  ShelfInv' /\ HandHolds
<1>1. /\ installed' = installed /\ ScreenFine(screen) /\ screen.keys # <<0, 0>> /\ b.search \in Nat
  BY DEF ShelfInv, Shelf!KeyPress, Shelf!OnTyping, Browsers
<1>2. PICK r, c, word : r = screen.keys[1] /\ c = screen.keys[2] /\ word = b.search
  OBVIOUS
<1>3. r \in 1..Len(KeyRows) /\ c \in 1..KeyRows[r] /\ Len(KeyRows) \in Nat /\ KeyRows[Len(KeyRows)] = 4
  BY <1>1, <1>2, ShelfAssumption DEF ScreenFine
<1>4. CASE r < Len(KeyRows) \/ c = 1
  <2>1. Shelf!Searched(Shelf!Least(word + 1, Word)) /\ screen' = screen
    BY <1>2, <1>4 DEF Shelf!KeyPress
  <2>2. Shelf!Least(word + 1, Word) \in Nat
    BY <1>1, <1>2, ShelfAssumption DEF Shelf!Least
  <2> QED BY <1>1, <2>1, <2>2, SearchedShows
<1>5. CASE ~(r < Len(KeyRows) \/ c = 1)
  <2>1. c \in {2, 3, 4}
    <3>1. r = Len(KeyRows)
      BY <1>3, <1>5
    <3>2. c \in 1..4
      BY <1>3, <3>1
    <3> QED BY <1>5, <3>2
  <2>2. (CASE c = 2 -> Shelf!Searched(IF word = 0 THEN 0 ELSE word - 1) /\ screen' = screen
           [] c = 3 -> Shelf!Searched(0) /\ screen' = screen
           [] c = 4 -> Shelf!Set(b) /\ screen' = Shelf!Down)
    BY <1>2, <1>5, Zenon DEF Shelf!KeyPress
  <2>3. CASE c = 2
    <3>1. Shelf!Searched(IF word = 0 THEN 0 ELSE word - 1) /\ screen' = screen
      BY <2>2, <2>3
    <3>2. (IF word = 0 THEN 0 ELSE word - 1) \in Nat
      BY <1>1, <1>2
    <3> QED BY <1>1, <3>1, <3>2, SearchedShows
  <2>4. CASE c = 3
    <3>1. Shelf!Searched(0) /\ screen' = screen
      BY <2>2, <2>4
    <3> QED BY <1>1, <3>1, SearchedShows
  <2>5. CASE c = 4
    <3>1. Shelf!Set(b) /\ screen' = [screen EXCEPT !.keys = <<0, 0>>, !.from = 0]
      BY <2>2, <2>5 DEF Shelf!Down
    <3>2. ScreenFine(screen')
      BY <1>1, <3>1, Downs
    <3>3. Shows(b)
      BY <1>1, <3>1, BrowserShows
    <3> QED BY <3>2, <3>3, ShowsInv, HandSame
  <2> QED BY <2>1, <2>3, <2>4, <2>5
<1> QED BY <1>4, <1>5

LEMMA ShelfKeyLeave ==
  ASSUME ShelfInv, Shelf!KeyLeave
  PROVE  ShelfInv' /\ HandHolds
<1>1. /\ installed' = installed /\ ScreenFine(screen) /\ screen' = [screen EXCEPT !.keys = <<0, 0>>, !.from = 0]
      /\ Shelf!Set(b) \/ Shelf!Set(Shelf!Narrowed(b, "search", screen.from))
  BY DEF ShelfInv, Shelf!KeyLeave, Shelf!OnTyping, Shelf!Down
<1>2. ScreenFine(screen') /\ screen.from \in Nat
  BY <1>1, Downs DEF ScreenFine, Screens
<1>3. CASE Shelf!Set(b)
  <2>1. Shows(b)
    BY <1>1, <1>3, BrowserShows
  <2> QED BY <1>2, <2>1, ShowsInv, HandSame
<1>4. CASE Shelf!Set(Shelf!Narrowed(b, "search", screen.from))
  <2>1. PICK n : n = screen.from
    OBVIOUS
  <2>2. Shows(Shelf!Narrowed(b, "search", n)) /\ Shelf!Narrowed(b, "search", n).view = b.view
    BY <1>2, <1>4, <2>1, NarrowedShows
  <2> QED BY <1>2, <2>2, ShowsInv, HandSame
<1> QED BY <1>1, <1>3, <1>4

\* An answer lands: with no filter on what is here, what is shown stays.
LEMMA ShelfInstalled ==
  ASSUME ShelfInv, Shelf!set_installed
  PROVE  ShelfInv' /\ HandHolds
<1>1. screen' = screen /\ ScreenFine(screen) /\ b \in Browsers
      /\ Shelf!Set(IF b.presence = "all" THEN b ELSE Shelf!reframe(b))
  BY DEF ShelfInv, Shelf!set_installed, Shelf!ALL
<1>2. CASE b.presence = "all"
  <2>1. Shelf!filter(b, installed') = Shelf!visible
    BY <1>2, SameFound DEF Shelf!visible
  <2>2. Shows(b)
    BY <1>1, <1>2, <2>1 DEF Shows, ShelfInv
  <2> QED BY <1>1, <2>2, ShowsInv, HandSame
<1>3. CASE b.presence # "all"
  <2>1. PICK y : y = Shelf!reframe(b)
    OBVIOUS
  <2>2. y \in Browsers /\ Same(b, y) /\ \A n \in Nat : Stands(n, y)
    BY <1>1, <2>1, ReframeStands
  <2>3. Len(Shelf!filter(y, installed')) \in Nat
    BY FoundIs
  <2>4. Shows(y) /\ y.view = b.view
    BY <1>1, <1>3, <2>1, <2>2, <2>3 DEF Shows, Same
  <2> QED BY <1>1, <2>4, ShowsInv, HandSame
<1> QED BY <1>2, <1>3

LEMMA ShelfNext ==
  ASSUME ShelfInv, Shelf!Next
  PROVE  ShelfInv' /\ HandHolds
<1>1. ASSUME NEW step \in {<<-1, 0>>, <<1, 0>>, <<0, -1>>, <<0, 1>>}, Shelf!Move(step[1], step[2])
      PROVE  ShelfInv' /\ HandHolds
  <2>1. PICK dx, dy : dx = step[1] /\ dy = step[2]
    OBVIOUS
  <2>2. dx \in {-1, 0, 1} /\ dy \in {-1, 0, 1}
    BY <2>1
  <2> QED BY <1>1, <2>1, <2>2, ShelfMove
<1> QED BY <1>1, ShelfReopen, ShelfPoint, ShelfShortcut, ShelfOpen, ShelfPanelStep, ShelfPanelPress, ShelfPanelBack,
           ShelfKeyMove, ShelfKeyPress, ShelfKeyLeave, ShelfInstalled DEF Shelf!Next

\* On a page with a game the cursor is on one; and the next picker opens as this one is.
LEMMA ShelfPromise ==
  ASSUME ShelfInv
  PROVE  Shelf!CursorStands /\ Shelf!ReopensAsLeft
<1>1. Shelf!CursorStands
  <2> SUFFICES ASSUME Shelf!visible # <<>>
               PROVE  b.page < Shelf!PagesOf(Len(Shelf!visible), b) /\ b.sel < Shelf!OnPage(Len(Shelf!visible), b)
    BY DEF Shelf!CursorStands
  <2>1. Len(Shelf!visible) > 0
    BY FoundIs DEF Shelf!visible
  <2> QED BY <2>1 DEF ShelfInv, Stands
<1>2. Shelf!ReopensAsLeft
  BY DEF ShelfInv, FileFine, Shelf!ReopensAsLeft
<1> QED BY <1>1, <1>2

\* A step changes the shape with the game in hand, and moves in the list by one.
LEMMA ShelfSteps ==
  ASSUME ShelfInv, Shelf!Next
  PROVE  Shelf!Steps
<1>1. HandHolds
  BY ShelfNext
<1>2. ASSUME NEW dy \in {-1, 1}, Shelf!Move(0, dy), b.view = "rows", Shelf!visible # <<>>
      PROVE  Shelf!Index(b') = (IF Shelf!Index(b) + dy \in 0..Len(Shelf!visible) - 1
                                THEN Shelf!Index(b) + dy ELSE Shelf!Index(b))
  <2>1. PICK n : n = Len(Shelf!visible)
    OBVIOUS
  <2>2. n \in Nat \ {0}
    <3>1. n \in Nat /\ n > 0
      BY <1>2, <2>1, FoundIs DEF Shelf!visible
    <3> QED BY <3>1
  <2>3. b \in Browsers /\ Stands(n, b)
    BY <2>1 DEF ShelfInv
  <2>4. b' = Shelf!move(n, b, 0, dy)
    BY <1>2, <2>1 DEF Shelf!Move, Shelf!Set
  <2> QED BY <1>2, <2>1, <2>2, <2>3, <2>4, ListMoves
<1> QED BY <1>1, <1>2 DEF HandHolds, Shelf!Steps

(***************************************************************************)
(* What the parts promise, of the picker's behaviors: each part's          *)
(* invariant holds of the behaviors that are of that part.                 *)
(***************************************************************************)

HushKept == part = "hush" => HushInv

LEMMA HushStays == PartsSpec => []HushKept
<1>1. PartsInit => HushKept
  BY HushStarts DEF PartsInit, HushKept
<1>2. HushKept /\ [PartsNext]_PartsVars => HushKept'
  <2> SUFFICES ASSUME HushKept, [PartsNext]_PartsVars, part' = "hush" PROVE HushInv'
    BY DEF HushKept
  <2>1. CASE PartsNext
    BY <2>1, HushNext DEF PartsNext, HushKept
  <2>2. CASE UNCHANGED PartsVars
    <3>1. UNCHANGED hushVars /\ HushInv
      BY <2>2 DEF PartsVars, HushKept
    <3> QED BY <3>1 DEF hushVars, HushInv, HushTyped, HeldApart
  <2> QED BY <2>1, <2>2
<1> QED BY <1>1, <1>2, PTL DEF PartsSpec

SeatsKept == part = "seats" => SeatsInv

LEMMA SeatsStays == PartsSpec => []SeatsKept
<1>1. PartsInit => SeatsKept
  BY SeatsStarts DEF PartsInit, SeatsKept
<1>2. SeatsKept /\ [PartsNext]_PartsVars => SeatsKept'
  <2> SUFFICES ASSUME SeatsKept, [PartsNext]_PartsVars, part' = "seats" PROVE SeatsInv'
    BY DEF SeatsKept
  <2>1. CASE PartsNext
    BY <2>1, SeatsNext DEF PartsNext, SeatsKept
  <2>2. CASE UNCHANGED PartsVars
    <3>1. UNCHANGED seatsVars /\ SeatsInv
      BY <2>2 DEF PartsVars, SeatsKept
    <3> QED BY <3>1 DEF seatsVars, SeatsInv, SeatsTyped, EndsLast, SaidLast, Seats!Linked
  <2> QED BY <2>1, <2>2
<1> QED BY <1>1, <1>2, PTL DEF PartsSpec

PadsKept == part = "pads" => PadsInv

LEMMA PadsStays == PartsSpec => []PadsKept
<1>1. PartsInit => PadsKept
  BY PadsStarts DEF PartsInit, PadsKept
<1>2. PadsKept /\ [PartsNext]_PartsVars => PadsKept'
  <2> SUFFICES ASSUME PadsKept, [PartsNext]_PartsVars, part' = "pads" PROVE PadsInv'
    BY DEF PadsKept
  <2>1. CASE PartsNext
    BY <2>1, PadsNext DEF PartsNext, PadsKept
  <2>2. CASE UNCHANGED PartsVars
    <3>1. UNCHANGED padsVars /\ PadsInv
      BY <2>2 DEF PartsVars, PadsKept
    <3> QED BY <3>1 DEF padsVars, PadsInv, PadsTyped, Announced, HeldSo, OneKind, Lets, Moves, Pads!may_drive,
                    Pads!OnlyClonesDrive
  <2> QED BY <2>1, <2>2
<1> QED BY <1>1, <1>2, PTL DEF PartsSpec

ArtKept == part = "art" => ArtInv

LEMMA ArtStays == PartsSpec => []ArtKept
<1>1. PartsInit => ArtKept
  BY ArtStarts DEF PartsInit, ArtKept
<1>2. ArtKept /\ [PartsNext]_PartsVars => ArtKept'
  <2> SUFFICES ASSUME ArtKept, [PartsNext]_PartsVars, part' = "art" PROVE ArtInv'
    BY DEF ArtKept
  <2>1. CASE PartsNext
    BY <2>1, ArtNext DEF PartsNext, ArtKept
  <2>2. CASE UNCHANGED PartsVars
    <3>1. UNCHANGED artVars /\ ArtInv
      BY <2>2 DEF PartsVars, ArtKept
    <3> QED BY <3>1 DEF artVars, ArtInv, ArtTyped, Working, WorksOn, Drawn, Decoding, InFlight, Awaits, Once
  <2> QED BY <2>1, <2>2
<1> QED BY <1>1, <1>2, PTL DEF PartsSpec

BehindKept == part = "behind" => BehindInv

LEMMA BehindStays == PartsSpec => []BehindKept
<1>1. PartsInit => BehindKept
  BY BehindStarts DEF PartsInit, BehindKept
<1>2. BehindKept /\ [PartsNext]_PartsVars => BehindKept'
  <2> SUFFICES ASSUME BehindKept, [PartsNext]_PartsVars, part' = "behind" PROVE BehindInv'
    BY DEF BehindKept
  <2>1. CASE PartsNext
    BY <2>1, BehindNext DEF PartsNext, BehindKept
  <2>2. CASE UNCHANGED PartsVars
    <3>1. UNCHANGED behindVars /\ BehindInv
      BY <2>2 DEF PartsVars, BehindKept
    <3> QED BY <3>1 DEF behindVars, BehindInv, JobsNamed, Sure, Untouched, Told, Recalled
  <2> QED BY <2>1, <2>2
<1> QED BY <1>1, <1>2, PTL DEF PartsSpec

ShelfKept == part = "shelf" => ShelfInv

LEMMA ShelfStays == PartsSpec => []ShelfKept
<1>1. PartsInit => ShelfKept
  BY ShelfStarts DEF PartsInit, ShelfKept
<1>2. ShelfKept /\ [PartsNext]_PartsVars => ShelfKept'
  <2> SUFFICES ASSUME ShelfKept, [PartsNext]_PartsVars, part' = "shelf" PROVE ShelfInv'
    BY DEF ShelfKept
  <2>1. CASE PartsNext
    BY <2>1, ShelfNext DEF PartsNext, ShelfKept
  <2>2. CASE UNCHANGED PartsVars
    <3>1. UNCHANGED shelfVars /\ ShelfInv
      BY <2>2 DEF PartsVars, ShelfKept
    <3> QED BY <3>1 DEF shelfVars, ShelfInv, Shelf!visible
  <2> QED BY <2>1, <2>2
<1> QED BY <1>1, <1>2, PTL DEF PartsSpec

\* The cursor is on a game of the page that is shown whenever a filter leaves one, and a
\* picker that is closed at any moment opens on the shelf it was left on, unless keeping
\* it failed (browser.py, grid.py, remembered.py).
THEOREM ShelfAlwaysStands == PartsSpec => []ShelfStands
<1>1. ShelfKept => ShelfStands
  BY ShelfPromise DEF ShelfKept, ShelfStands
<1> QED BY <1>1, ShelfStays, PTL

\* A pad that nobody seated never drives the picker, and a direction that repeats is
\* held; who is shown as seated is who the daemon has seated, once what it said is
\* read; and what is grabbed is the controllers' keyboards (pads.py, seats.py, hush.py).
THEOREM DriversStand == PartsSpec => []DriversAreTrue
<1>1. PadsKept /\ SeatsKept /\ HushKept => DriversAreTrue
  BY PadsPromise, SeatsPromise, HushPromise, DeviceAssumption DEF PadsKept, SeatsKept, HushKept, DriversAreTrue
<1> QED BY <1>1, PadsStays, SeatsStays, HushStays, PTL

\* A picture on a tile is whole, whatever worker or process wrote it and wherever
\* each was killed, and it is asked for once in a launch (art.py).
THEOREM PicturesStand == PartsSpec => []PicturesAreWhole
<1>1. ArtKept => PicturesAreWhole
  BY ArtPromise DEF ArtKept, PicturesAreWhole
<1> QED BY <1>1, ArtStays, PTL

\* Once no question about a game is open, its tile and the version remembered of it
\* are the disk's, whatever jobs ended behind the grid and in whatever order their
\* answers came (installs.py, badges.py, versions.py).
THEOREM GridCatchesUp == PartsSpec => []BehindCatchesUp
<1>1. BehindKept => BehindCatchesUp
  BY BehindPromise DEF BehindKept, BehindCatchesUp
<1> QED BY <1>1, BehindStays, PTL

StopKept == part = "stop" => StopP!IInv

\* A stop of a contained launch that was not told to leave it leaves nothing of it, and
\* a save picked from the menu is put back under no game (gotg-killswitch, gotg-play).
THEOREM GamesEnd == PartsSpec => []GamesEndWhole
<1>1. PartsInit => StopKept
  BY StopStarts DEF PartsInit, StopKept
<1>2. StopKept /\ [PartsNext]_PartsVars => StopKept'
  <2> SUFFICES ASSUME StopKept, [PartsNext]_PartsVars, part' = "stop" PROVE StopP!IInv'
    BY DEF StopKept
  <2>1. CASE PartsNext
    BY <2>1, StopNext DEF PartsNext, StopKept
  <2>2. CASE UNCHANGED PartsVars
    <3>1. UNCHANGED StopP!vars /\ StopP!IInv
      BY <2>2 DEF PartsVars, stopVars, StopP!vars, StopKept
    <3> QED BY <3>1, StopP!NextInv
  <2> QED BY <2>1, <2>2
<1>3. StopKept => GamesEndWhole
  BY StopPromise DEF StopKept, GamesEndWhole
<1> QED BY <1>1, <1>2, <1>3, PTL DEF PartsSpec

\* The parts take nothing from the loop: a behavior of the picker is one of its loop's,
\* and what is proved of the loop holds of it (PlayIsAskedFor, KeptBeforePlayed).
THEOREM LoopRuns == PartsSpec => Spec
<1>1. PartsInit => Init
  BY DEF PartsInit
<1>2. [PartsNext]_PartsVars => [Next]_vars
  BY DEF PartsNext, PartsVars, vars
<1> QED BY <1>1, <1>2, PTL DEF PartsSpec, Spec

\* Changing how the library is drawn keeps the game in hand, and down and up in the list
\* move one game on and stop at its ends (browser.py set_shape, grid.py move); and the
\* picker updates itself, or restarts into another, only with no install going.
THEOREM StepsAlwaysStand == PartsSpec => StepsStand
<1>1. IInv /\ ShelfKept /\ [PartsNext]_PartsVars
        => [(part = "shelf" => Shelf!Steps) /\ (part = "loop" => OneWriter)]_<<vars, shelfVars>>
  <2> SUFFICES ASSUME IInv, ShelfKept, PartsNext
               PROVE  (part = "shelf" => Shelf!Steps) /\ (part = "loop" => OneWriter)
    BY DEF PartsVars
  <2>1. CASE part = "shelf"
    <3>1. Shelf!Next /\ ShelfInv /\ part # "loop"
      BY <2>1 DEF PartsNext, ShelfKept
    <3> QED BY <3>1, ShelfSteps
  <2>2. CASE part = "loop"
    <3>1. Next /\ part # "shelf"
      BY <2>2 DEF PartsNext
    <3> QED BY <3>1, OneWriterStep
  <2> QED BY <2>1, <2>2
<1> QED BY <1>1, LoopRuns, IInvHolds, ShelfStays, PTL DEF PartsSpec, StepsStand
=============================================================================
