------------------------------- MODULE Indexer -------------------------------
(***************************************************************************)
(* Import runs over one library (gotg/indexer: run.py, execute.py,         *)
(* manifest.py, publish.py) against the catalog service, whose upsert is   *)
(* one transaction (module Catalog).  A run reads the whole catalog,       *)
(* enumerates the payloads that seed, links each under the games root,     *)
(* saves the manifest, publishes it; then the games tree, the touch of     *)
(* what it found unchanged, the sweep.  A scheduled run and a --match run  *)
(* by hand may overlap, and either may be killed anywhere.                 *)
(***************************************************************************)
EXTENDS Integers, FiniteSets

CONSTANTS Game,
          Base,    \* payloads that are a game of their own
          Extra,   \* updates and DLC, attached to a game
          Of,      \* the game of a payload
          Before,  \* the order of the directory, as a set of pairs of payloads
          Full, Matching,     \* the runs: of the whole library, and with --match
          SweepLimit,         \* percent of the catalog a sweep may report
          MaxRuns, MaxTurns, MaxFaults, MaxDrops  \* bounds

Payload == Base \cup Extra
Runner == Full \cup Matching
Local == "local"  \* the games tree's own name for the bytes

VARIABLES seeds,    \* payloads on the disk
          linked,   \* the payload a game's hardlink was made from, or none
          manifest, \* the games manifest.json has
          rows,     \* the catalog
          runs,     \* per runner: its memory
          reported, \* history: games a sweep reported that had bytes all along
          stale,    \* history: games an undisturbed run left wrong
          count, turns, faults, drops

vars == <<seeds, linked, manifest, rows, runs, reported, stale, count, turns, faults, drops>>

NoRow == [path |-> "", extras |-> {}]
Idle == [at |-> "idle", rows |-> [g \in Game |-> NoRow], todo |-> {}, entries |-> {},
         done |-> {}, unchanged |-> {}, fresh |-> {}, lacked |-> {}, clean |-> TRUE, alone |-> TRUE]

Init == /\ seeds = {} /\ linked = [g \in Game |-> {}] /\ manifest = {}
        /\ rows = [g \in Game |-> NoRow]
        /\ runs = [r \in Runner |-> Idle]
        /\ reported = {} /\ stale = {}
        /\ count = 0 /\ turns = 0 /\ faults = 0 /\ drops = 0

Listed == {g \in Game : rows[g] # NoRow}
Running == {r \in Runner : runs[r].at # "idle"}
Goes(r, run) == runs' = [runs EXCEPT ![r] = run]
Bytes(g, path) == IF path = Local THEN linked[g] # {} ELSE path \in seeds
HasBytes(g) == linked[g] # {} /\ \E s \in seeds \cap Base : Of[s] = g /\ linked[g] = {s}

\* main: the Publisher reads the whole catalog, and since is taken.
Begin(r) ==
  /\ runs[r].at = "idle" /\ count < MaxRuns
  /\ count' = count + 1
  /\ runs' = [q \in Runner |->
                IF q = r THEN [Idle EXCEPT !.at = "plan", !.rows = rows, !.alone = Running = {},
                                           !.lacked = {g \in Game : ~HasBytes(g)}]
                ELSE [runs[q] EXCEPT !.alone = FALSE]]
  /\ UNCHANGED <<seeds, linked, manifest, rows, reported, stale, turns, faults, drops>>

\* discover, _plan_all; the manifest is read.  A --match run takes a part.
Plan(r) ==
  /\ runs[r].at = "plan"
  /\ \E chosen \in IF r \in Full THEN {seeds} ELSE {{s} : s \in seeds} :
       Goes(r, [runs[r] EXCEPT !.at = "link", !.todo = chosen, !.entries = manifest])
  /\ UNCHANGED <<seeds, linked, manifest, rows, reported, stale, count, turns, faults, drops>>

\* The games before what attaches to them, each in the directory's order.
Next1(r, s) == /\ s \in runs[r].todo
               /\ \A u \in runs[r].todo \ {s} :
                    \/ s \in Base /\ u \in Extra
                    \/ (s \in Base) = (u \in Base) /\ <<s, u>> \in Before

\* execute: _link never clobbers; then the manifest is replaced by this run's
\* memory of it.  An attach touches nothing.
Link(r, s) ==
  LET g == Of[s]
      ok == s \in Extra \/ (s \in seeds /\ linked[g] \in {{}, {s}}) IN
  /\ runs[r].at = "link" /\ Next1(r, s)
  /\ linked' = IF s \in Base /\ ok THEN [linked EXCEPT ![g] = {s}] ELSE linked
  /\ LET kept == IF s \in Base /\ ok THEN runs[r].entries \cup {g} ELSE runs[r].entries IN
       /\ manifest' = kept
       /\ Goes(r, IF ok THEN [runs[r] EXCEPT !.at = "publish", !.entries = kept]
                  ELSE [runs[r] EXCEPT !.todo = @ \ {s}, !.clean = FALSE])
  /\ UNCHANGED <<seeds, rows, reported, stale, count, turns, faults, drops>>

\* The service's answer to a PUT: other game bytes under this id are a 409.
Accepts(g, new) == rows[g] = NoRow \/ rows[g].path = new.path

\* One row as this run would have it, against what it remembers: unchanged,
\* or written, or refused, or lost on the way, or written with the answer lost,
\* which the run takes for an error too.
Publishes(r, g, new, run) ==
  IF new = runs[r].rows[g]
  THEN /\ Goes(r, [run EXCEPT !.done = @ \cup {g}, !.unchanged = @ \cup {g}])
       /\ UNCHANGED <<rows, faults>>
  ELSE \/ /\ Accepts(g, new)
          /\ rows' = [rows EXCEPT ![g] = new]
          /\ runs' = [q \in Runner |->
                        IF q = r THEN [run EXCEPT !.done = @ \cup {g}, !.rows[g] = new, !.fresh = @ \cup {g}]
                        ELSE [runs[q] EXCEPT !.fresh = @ \cup {g}]]
          /\ UNCHANGED faults
       \/ ~Accepts(g, new) /\ Goes(r, [run EXCEPT !.clean = FALSE]) /\ UNCHANGED <<rows, faults>>
       \/ /\ faults < MaxFaults /\ faults' = faults + 1
          /\ \/ Goes(r, [run EXCEPT !.clean = FALSE]) /\ UNCHANGED rows
             \/ /\ Accepts(g, new)
                /\ rows' = [rows EXCEPT ![g] = new]
                /\ runs' = [q \in Runner |->
                              IF q = r THEN [run EXCEPT !.clean = FALSE, !.fresh = @ \cup {g}]
                              ELSE [runs[q] EXCEPT !.fresh = @ \cup {g}]]

\* A slip of _kept_extras: a base published again brings only itself.
KeptNone(r, g) == {}

\* _kept_extras: what the remembered row has that still exists.
Kept(r, g) == runs[r].rows[g].extras \cap seeds

\* publish: a payload pruned since is an error of its own; an update needs the
\* remembered row of its game, whatever the catalog has by now.
Publish(r, s) ==
  LET g == Of[s]
      run == [runs[r] EXCEPT !.at = "link", !.todo = @ \ {s}] IN
  /\ runs[r].at = "publish" /\ Next1(r, s)
  /\ IF s \notin seeds \/ (s \in Extra /\ runs[r].rows[g] = NoRow)
     THEN Goes(r, [run EXCEPT !.clean = FALSE]) /\ UNCHANGED <<rows, faults>>
     ELSE Publishes(r, g, IF s \in Base THEN [path |-> s, extras |-> Kept(r, g)]
                          ELSE [path |-> runs[r].rows[g].path, extras |-> Kept(r, g) \cup {s}], run)
  /\ UNCHANGED <<seeds, linked, manifest, reported, stale, count, turns, drops>>

\* The torrents are through: a --match run is over, a full one turns to the tree.
Torrents(r) ==
  /\ runs[r].at = "link" /\ runs[r].todo = {}
  /\ Goes(r, IF r \in Full THEN [runs[r] EXCEPT !.at = "tree", !.entries = manifest] ELSE Idle)
  /\ UNCHANGED <<seeds, linked, manifest, rows, reported, stale, count, turns, faults, drops>>

\* publish_games_root: every entry of the manifest not published already.
Tree(r, g) ==
  LET run == [runs[r] EXCEPT !.entries = @ \ {g}] IN
  /\ runs[r].at = "tree" /\ g \in runs[r].entries
  /\ IF g \in runs[r].done THEN Goes(r, run) /\ UNCHANGED <<rows, faults>>
     ELSE Publishes(r, g, [path |-> Local, extras |-> Kept(r, g)], run)
  /\ UNCHANGED <<seeds, linked, manifest, reported, stale, count, turns, drops>>

\* touch: one request for all that was found unchanged; it, or its answer, is
\* lost, and the run has an error.
Touches(r, last) ==
  runs' = [q \in Runner |-> IF q = r THEN [last EXCEPT !.fresh = @ \cup runs[r].unchanged]
                            ELSE [runs[q] EXCEPT !.fresh = @ \cup runs[r].unchanged]]
Touch(r) ==
  LET run == [runs[r] EXCEPT !.at = "sweep"] IN
  /\ runs[r].at = "tree" /\ runs[r].entries = {}
  /\ \/ Touches(r, run) /\ UNCHANGED faults
     \/ /\ faults < MaxFaults /\ faults' = faults + 1
        /\ LET failed == [run EXCEPT !.clean = FALSE] IN Goes(r, failed) \/ Touches(r, failed)
  /\ UNCHANGED <<seeds, linked, manifest, rows, reported, stale, count, turns, drops>>

Wrong(g) == \/ rows[g] = NoRow \/ rows[g].extras # {s \in seeds \cap Extra : Of[s] = g}
            \/ ~Bytes(g, rows[g].path)

\* The sweep, of a run in which nothing failed: what no request confirmed since
\* it began is reported, unless that is too much of the catalog.
Sweep(r) ==
  LET run == runs[r]
      vanished == Listed \ run.fresh
      says == run.clean /\ 100 * Cardinality(vanished) <= SweepLimit * Cardinality(Listed) IN
  /\ run.at = "sweep"
  /\ reported' = IF says THEN reported \cup (vanished \ run.lacked) ELSE reported
  /\ stale' = IF run.alone /\ run.clean
              THEN stale \cup {g \in Game : HasBytes(g) /\ Wrong(g)} ELSE stale
  /\ Goes(r, Idle)
  /\ UNCHANGED <<seeds, linked, manifest, rows, count, turns, faults, drops>>

\* The run is killed; what it wrote stays.
Kill(r) ==
  /\ runs[r].at # "idle" /\ drops < MaxDrops
  /\ drops' = drops + 1
  /\ Goes(r, Idle)
  /\ UNCHANGED <<seeds, linked, manifest, rows, reported, stale, count, turns, faults>>

\* A payload arrives, or is pruned; the runs under way are disturbed.
Turn(s) ==
  /\ turns < MaxTurns
  /\ turns' = turns + 1
  /\ seeds' = IF s \in seeds THEN seeds \ {s} ELSE seeds \cup {s}
  /\ runs' = [r \in Runner |-> [runs[r] EXCEPT !.alone = FALSE, !.lacked = @ \cup {Of[s]}]]
  /\ UNCHANGED <<linked, manifest, rows, reported, stale, count, faults, drops>>

Next ==
  \/ \E r \in Runner : \/ Begin(r) \/ Plan(r) \/ Torrents(r) \/ Touch(r) \/ Sweep(r) \/ Kill(r)
                       \/ \E s \in Payload : Link(r, s) \/ Publish(r, s)
                       \/ \E g \in Game : Tree(r, g)
  \/ \E s \in Payload : Turn(s)

Spec == Init /\ [][Next]_vars

-----------------------------------------------------------------------------
\* A sweep never reports a game whose bytes seeded, under the link made from
\* them, for as long as the run took, whatever runs beside it ("skipping
\* identical writes would report the library as gone").
SweepIsTrue == reported = {}

\* A run that nothing disturbed and nothing failed in leaves every game that
\* seeds with a row whose bytes are there, and with the updates that are there.
RunSettles == stale = {}

\* The games tree is the source of what no longer seeds (publish_games_root):
\* so a full run after which no run is under way leaves no row of the manifest
\* without bytes.
PrunedIsServed ==
  \A r \in Full : runs[r].at = "sweep" /\ runs[r].alone /\ faults = 0 =>
    \A g \in manifest : rows[g] # NoRow /\ Bytes(g, rows[g].path)

=============================================================================
