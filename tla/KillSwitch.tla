----------------------------- MODULE KillSwitch ------------------------------
(***************************************************************************)
(* How a running game is stopped (gotg-killswitch), and started again on a *)
(* save picked from its menu (gotg-play, the launch's wrapper).  Above the *)
(* wrapper is the process the switch guards (danstick's exec), below it    *)
(* the game and what the game starts.  The switch stops the whole launch,  *)
(* a load the game alone, each from a thread of its own; processes end     *)
(* when they like, asked or not, and a grace is as long as it takes.       *)
(***************************************************************************)
EXTENDS Naturals, FiniteSets

CONSTANTS MaxGames,  \* bound on the games the wrapper starts
          MaxLoads   \* bound on the saves picked

VARIABLES launch,   \* [contained, leads, atonce]: in a game scope; the guarded pid leads its
                    \* group; the kernel has cgroup.kill
          procs,    \* the launch's processes that have not exited
          termed,   \* those of them that have had a SIGTERM
          wrapper,  \* gotg-play: [at, game], and the game it started last
          session,  \* the session's directory: [restart, pid], a save named, game.pid
          switch,   \* the loop: [at, how, tree, why, end, game], told to go or not
          told,
          loads     \* threads of load_save: [n, game, at, tree]

vars == <<launch, procs, termed, wrapper, session, switch, told, loads>>

Top == <<"top", 0>>
Wrapper == <<"wrapper", 0>>
GameNo(n) == <<"game", n>>
Child(n) == <<"child", n>>

Above(p) == CASE p = Top -> {}
              [] p = Wrapper -> {Top}
              [] p[1] = "game" -> {Top, Wrapper}
              [] OTHER -> {Top, Wrapper, GameNo(p[2])}

\* Whoever lost a parent has left the tree.
descendants(p) == {p} \cup {q \in procs : p \in Above(q) /\ Above(q) \ Above(p) \subseteq procs}

Init == /\ launch \in [contained : BOOLEAN, leads : BOOLEAN, atonce : BOOLEAN]
        /\ procs = {Top, Wrapper} /\ termed = {}
        /\ wrapper = [at |-> "start", game |-> 0]
        /\ session = [restart |-> FALSE, pid |-> 0]
        /\ switch = [at |-> "watch", how |-> "", tree |-> {}, why |-> "", end |-> "", game |-> 0]
        /\ told = FALSE /\ loads = {}

\* SIGTERM to each of S: the wrapper traps it while it waits, and dies otherwise.
Term(S) ==
  LET dies == IF wrapper.at = "wait" THEN {} ELSE S \cap {Wrapper}
  IN /\ procs' = procs \ dies
     /\ termed' = (termed \cup (S \cap procs)) \ dies

Dead(S) == procs' = procs \ S /\ termed' = termed \ S

(* gotg-play *)

At(a) == wrapper.at = a /\ Wrapper \in procs
To(a) == wrapper' = [wrapper EXCEPT !.at = a]
Outside == UNCHANGED <<launch, switch, told, loads>>

Start == /\ At("start") /\ wrapper.game < MaxGames
         /\ session' = [session EXCEPT !.restart = FALSE]
         /\ wrapper' = [at |-> "named", game |-> wrapper.game + 1]
         /\ procs' = procs \cup {GameNo(wrapper.game + 1)}
         /\ Outside /\ UNCHANGED termed

Names == /\ At("named") /\ To("wait")
         /\ session' = [session EXCEPT !.pid = wrapper.game]
         /\ Outside /\ UNCHANGED <<procs, termed>>

\* As a wait that its trap ended would go on.
TrappedOnce == /\ At("wait") /\ Wrapper \in termed /\ To("check")
               /\ termed' = (termed \ {Wrapper}) \cup ({GameNo(wrapper.game)} \cap procs)
               /\ Outside /\ UNCHANGED <<procs, session>>

\* The trap passes the signal on and interrupts the wait, which is taken up again
\* for as long as the game is there.
Trapped == /\ At("wait") /\ Wrapper \in termed
           /\ termed' = (termed \ {Wrapper}) \cup ({GameNo(wrapper.game)} \cap procs)
           /\ Outside /\ UNCHANGED <<procs, wrapper, session>>

Waited == /\ At("wait") /\ GameNo(wrapper.game) \notin procs /\ To("check")
          /\ termed' = termed \ {Wrapper}
          /\ Outside /\ UNCHANGED <<procs, session>>

Check == /\ At("check")
         /\ \/ session.restart /\ To("picked") /\ UNCHANGED <<procs, termed>>
            \/ ~session.restart /\ To("over") /\ Dead({Wrapper})
         /\ Outside /\ UNCHANGED session

\* What was played is pushed and the pick put back, or not; either way it starts over
\* as the same process.  (What the two commands do is SavesSync's.)
Picks == /\ \/ At("picked") /\ To("push") /\ session' = [session EXCEPT !.restart = FALSE]
            \/ At("push") /\ To("restore") /\ UNCHANGED session
            \/ At("restore") /\ To("start") /\ UNCHANGED session
         /\ Outside /\ UNCHANGED <<procs, termed>>

(* the processes: a game ends of itself or on its SIGTERM, or never *)

Spawn == /\ \E n \in 1..MaxGames : GameNo(n) \in procs /\ procs' = procs \cup {Child(n)}
         /\ Outside /\ UNCHANGED <<termed, wrapper, session>>

Exit == /\ \E p \in procs \ {Top, Wrapper} : Dead({p})
        /\ Outside /\ UNCHANGED <<wrapper, session>>

\* danstick's exec goes with the wrapper, or on its SIGTERM, and then the sandbox
\* between the two takes with it what it takes.
TopEnds == /\ Top \in procs /\ (Top \in termed \/ Wrapper \notin procs)
           /\ \E S \in SUBSET (procs \ {Top}) : Dead(S \cup {Top})
           /\ Outside /\ UNCHANGED <<wrapper, session>>

(* the switch: Game::stop, and the loop around it *)

Watching == switch.at = "watch"
Around == UNCHANGED <<launch, wrapper, session, told>>

\* The scope is read off the guarded pid, which may be gone but not yet reaped.
HasScope(yes) == IF Top \in procs THEN yes = launch.contained ELSE yes => launch.contained

\* The group, when the guarded pid leads one (a zombie does until it is reaped).
Signalled(S) == \/ S = {Top} /\ ~(launch.leads /\ Top \in procs)
                \/ S = procs /\ launch.leads

StopScope ==
  /\ Watching /\ HasScope(TRUE) /\ Term(procs)
  /\ \E why \in {"chord", "menu"} :
       switch' = [switch EXCEPT !.at = "grace", !.how = "scope", !.why = why, !.tree = descendants(Top)]
  /\ Around /\ UNCHANGED loads

\* In no scope: the guarded pid or its group first, and then the tree as it is read.
StopTree ==
  /\ Watching /\ HasScope(FALSE)
  /\ \E S \in {{Top}, procs} : Signalled(S) /\ Term(S)
  /\ \E why \in {"chord", "menu"} :
       switch' = [switch EXCEPT !.at = "ask", !.how = "tree", !.why = why]
  /\ Around /\ UNCHANGED loads

AskTree ==
  /\ switch.at = "ask" /\ Term(descendants(Top))
  /\ switch' = [switch EXCEPT !.at = "grace", !.tree = descendants(Top)]
  /\ Around /\ UNCHANGED loads

\* As for any launch: the wait is on the tree.
LeftInTree == switch.tree \cap procs

Left == IF switch.how = "scope" THEN procs ELSE switch.tree \cap procs

\* After the menu's Exit the saves go up, however the stop ended.
Stopped(end) == switch' = [switch EXCEPT !.end = end, !.tree = {},
                                         !.at = IF switch.why = "menu" THEN "push" ELSE "gone"]

Gently == /\ switch.at = "grace" /\ Left = {} /\ Stopped("gently")
          /\ Around /\ UNCHANGED <<procs, termed, loads>>

LeftToIt == /\ switch.at = "grace" /\ Left # {} /\ told /\ Stopped("left")
            /\ Around /\ UNCHANGED <<procs, termed, loads>>

\* cgroup.kill, and the wait for it; or the tree, and the group where there is one
\* to be reached still.
Reached(S) == IF switch.how = "scope" THEN S = procs
              ELSE S = switch.tree \/ (S = procs /\ launch.leads)

ByPid == switch.how = "scope" /\ ~launch.atonce
Killed == /\ switch.at = "grace" /\ Left # {} /\ ~told /\ ~ByPid /\ Stopped("killed")
          /\ \E S \in {switch.tree, procs} : Reached(S) /\ Dead(S)
          /\ Around /\ UNCHANGED loads

\* An older kernel: the scope's pids are read, and each killed; what started between
\* is not.  It is said to be killed all the same.
Lists == /\ switch.at = "grace" /\ Left # {} /\ ~told /\ ByPid
         /\ switch' = [switch EXCEPT !.at = "kill", !.tree = procs]
         /\ Around /\ UNCHANGED <<procs, termed, loads>>

ByHand == /\ switch.at = "kill" /\ Stopped("killed") /\ Dead(switch.tree)
          /\ Around /\ UNCHANGED loads

Pushed == /\ switch.at = "push" /\ switch' = [switch EXCEPT !.at = "gone"]
          /\ Around /\ UNCHANGED <<procs, termed, loads>>

\* The loop's end, and with it of the loads' threads.
Unwatched == /\ Watching /\ (told \/ Top \notin procs)
             /\ switch' = [switch EXCEPT !.at = "gone"]
             /\ Around /\ UNCHANGED <<procs, termed, loads>>

Tell == /\ ~told /\ told' = TRUE
        /\ UNCHANGED <<launch, procs, termed, wrapper, session, switch, loads>>

(* load_save: the game's pid is read, the pick is named, a thread stops the game *)

LoadReads == /\ Watching /\ session.pid # 0 /\ Cardinality(loads) < MaxLoads
             /\ switch' = [switch EXCEPT !.at = "load", !.game = session.pid]
             /\ Around /\ UNCHANGED <<procs, termed, loads>>

\* Named whole, or not at all where the directory cannot be written.
LoadNames == /\ switch.at = "load" /\ switch' = [switch EXCEPT !.at = "watch", !.game = 0]
             /\ \/ /\ session' = [session EXCEPT !.restart = TRUE]
                   /\ loads' = loads \cup {[n |-> Cardinality(loads) + 1, game |-> switch.game,
                                            at |-> "begin", tree |-> {}]}
                \/ UNCHANGED <<session, loads>>
             /\ UNCHANGED <<launch, procs, termed, wrapper, told>>

Turn(l, new) == loads' = (loads \ {l}) \cup {new}
Thread(l, at) == switch.at # "gone" /\ l \in loads /\ l.at = at

LoadAsks(l) == LET tree == descendants(GameNo(l.game)) IN
  /\ Thread(l, "begin") /\ Term(tree)
  /\ Turn(l, [l EXCEPT !.at = "grace", !.tree = tree])
  /\ Around /\ UNCHANGED switch

LoadEnds(l) ==
  /\ Thread(l, "grace")
  /\ \/ l.tree \cap procs = {} /\ UNCHANGED <<procs, termed>>
     \/ l.tree \cap procs # {} /\ Dead(l.tree)
  /\ Turn(l, [l EXCEPT !.at = "done", !.tree = {}])
  /\ Around /\ UNCHANGED switch

Next == \/ Start \/ Names \/ Trapped \/ Waited \/ Check \/ Picks
        \/ Spawn \/ Exit \/ TopEnds
        \/ StopScope \/ StopTree \/ AskTree \/ Gently \/ LeftToIt \/ Killed \/ Lists \/ ByHand
        \/ Pushed \/ Unwatched \/ Tell \/ LoadReads \/ LoadNames
        \/ \E l \in loads : LoadAsks(l) \/ LoadEnds(l)

Spec == Init /\ [][Next]_vars

\* A stop of a contained launch that was not told to leave it leaves nothing of
\* it: not what a load started again under the stop, nor what left the tree
\* (contain.rs stop_scope_unless); but for a kill by hand, on a kernel without
\* cgroup.kill, which misses what its list was too early for.
StopIsWhole ==
  switch.how = "scope" /\ (switch.end = "gently" \/ (switch.end = "killed" /\ launch.atonce)) => procs = {}

\* A pick is put back with no game of the play running, whichever of a load, the
\* switch and the game itself ended the one before (env/machinery/lib.nix gotg-play).
PutBackAtRest == At("restore") => \A n \in 1..MaxGames : GameNo(n) \notin procs
=============================================================================
