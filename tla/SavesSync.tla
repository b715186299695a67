------------------------------ MODULE SavesSync ------------------------------
(***************************************************************************)
(* The client's saves of one environment on each machine, against the      *)
(* service's head (saves.sh, saves-sync.sh, saves-history.sh, cmd-saves.sh *)
(* and remote.sh under src/client/lib).  On one machine run the game, the  *)
(* watcher beside it, and commands: the launch's sync, the picker's, and   *)
(* what a person or the overlay asks for.  They share the save files, the  *)
(* journal and the local archives; only a sync and the watcher's push take *)
(* the lock.  Each step below is what happens between two points where     *)
(* another process, the network or the service can come in between.        *)
(*                                                                         *)
(* A save file's content is the number of the write that made it, 0 when   *)
(* there is no such file; a bundle is the content of every file, and,      *)
(* bundling being deterministic, is its own hash.  The service is          *)
(* SavesHead's compare-and-set, which SavesStore implements.               *)
(***************************************************************************)
EXTENDS Naturals, Sequences, FiniteSets

CONSTANTS Machine, Slot,   \* machines, and what runs commands on each
          File,            \* the files an environment declares as saves
          OpsOff,          \* commands that may start with no game,
          OpsPaused,       \* between a game's stop and its restart on a save,
          OpsOn,           \* and beside a running game
          LocalKeep,       \* archives kept here (GOTG_SAVES_KEEP)
          Keep,            \* generations the service keeps
          Others,          \* whether some other machine plays too
          MaxVer, MaxGen, MaxAsked,  \* bounds: writes, generations, and
                                     \* commands a person asks for
          MaxLost,         \* bound: answers the network loses
          MaxKilled,       \* bound: syncs killed part way
          MaxBroken,       \* bound: file operations the disk fails
          MaxFaults        \* bound: all of these together

ASSUME SyncAssumption ==
  /\ {"watch", "free"} \cap Slot = {} /\ "other" \notin Machine
  /\ Machine # {} /\ File # {}
  /\ OpsOff \cup OpsPaused \cup OpsOn
       \subseteq {"sync", "launch", "push", "keepHere", "pull", "restore"}
  /\ LocalKeep \in Nat \ {0} /\ Keep \in Nat \ {0}
  /\ Others \in BOOLEAN
  /\ {MaxVer, MaxGen, MaxAsked, MaxLost, MaxKilled, MaxBroken, MaxFaults} \subseteq Nat

VARIABLES files,     \* per machine, the content of every save file
          journal,   \* per machine, what it believes of the service
          archives,  \* per machine, bundles archived here, oldest first
          game,      \* per machine: "off", "on" or "paused"
          lock,      \* per machine, who holds saves-<env>.lock
          proc,      \* per machine and slot, the command there
          watch,     \* per machine, the watcher's own two variables
          gens,      \* the service: every generation's bundle
          late,      \* pushes given up on that may still arrive
          ver, asked, lost, killed, broken,  \* the bounds' counters
          by,        \* history: who pushed each generation
          whole,     \* history: bundles that were a save someone could load
          chosen     \* history: per machine, the save a person put back here,
                     \* the head it was put back over, and whether no
                     \* watcher was beside it

local == <<files, journal, archives>>
counts == <<ver, asked, lost, killed, broken>>
service == <<gens, by>>
history == <<whole, chosen>>
vars == <<files, journal, archives, game, lock, proc, watch, gens, late,
          ver, asked, lost, killed, broken, by, whole, chosen>>

Bundle == [File -> 0..MaxVer]
Empty == [f \in File |-> 0]
Ops == OpsOff \cup OpsPaused \cup OpsOn
Watch == "watch"
Procs == Slot \cup {Watch}
Free == "free"
Other == "other"   \* who pushes when it is none of Machine

Synced == {"sync", "launch"}      \* what saves_sync_one runs for
Asked == {"push", "keepHere", "pull", "restore"}  \* what a person asks for
NoHead == [gen |-> 0, hash |-> Empty]
IdleProc == [pc |-> "idle", op |-> "none", hash |-> Empty, head |-> NoHead,
             changed |-> FALSE, todo |-> {}, rc |-> 0]

NoChoice == [save |-> Empty, over |-> 0, alone |-> FALSE]
NoWatch == [sig |-> Empty, seen |-> Empty, last |-> FALSE]

OneMoreFault == lost + killed + broken < MaxFaults

Current == IF gens = <<>> THEN NoHead
           ELSE [gen |-> Len(gens), hash |-> gens[Len(gens)]]
OnService == {gens[i] : i \in DOMAIN gens}
Kept == {i \in DOMAIN gens : i > Len(gens) - Keep}

Init == /\ files \in [Machine -> {Empty}]
        /\ journal = [m \in Machine |-> [gen |-> 0, hash |-> Empty, pushed |-> Empty]]
        /\ archives = [m \in Machine |-> <<>>]
        /\ game = [m \in Machine |-> "off"]
        /\ lock = [m \in Machine |-> Free]
        /\ proc = [m \in Machine |-> [s \in Procs |-> IdleProc]]
        /\ watch = [m \in Machine |-> NoWatch]
        /\ gens = <<>> /\ by = <<>> /\ late = {}
        /\ ver = 0 /\ asked = 0 /\ lost = 0 /\ killed = 0 /\ broken = 0
        /\ whole = {} /\ chosen = [m \in Machine |-> NoChoice]

-----------------------------------------------------------------------------
(* Steps of a command *)

At(m, s, pc) == proc[m][s].pc = pc
Step(m, s, p) == proc' = [proc EXCEPT ![m][s] = p]
Goto(m, s, pc) == Step(m, s, [proc[m][s] EXCEPT !.pc = pc])

\* The same, with nothing of what it knew so far.
Enter(m, s, pc) == Step(m, s, [IdleProc EXCEPT !.pc = pc, !.op = proc[m][s].op])

\* A command ends, with its status; ended is where the lock is given back.
End(m, s, rc) ==
  Step(m, s, [IdleProc EXCEPT !.pc = "ended", !.op = proc[m][s].op, !.rc = rc])


\* Mutant: the signature is taken when the push is through.
SigAfterPush(m, p) == IF p.rc = 1 THEN watch[m].sig ELSE files[m]

\* What the watcher takes as pushed: the files as they were before the push,
\* unless it did not go through.
SigAfter(m, p) == IF p.rc = 1 THEN watch[m].sig ELSE watch[m].seen

\* The last thing a command's process does: the lock goes with it.  A launch
\* goes on into the game, synced or not; a watcher's tick says whether its
\* push went through, and the last one ends the watcher.  (Bound: the next
\* play's watcher starts when the last one's is done.)
Ended(m, s) ==
  LET p == proc[m][s] IN
  /\ At(m, s, "ended")
  /\ lock' = [lock EXCEPT ![m] = IF @ = s THEN Free ELSE @]
  /\ IF p.op = "launch"
     THEN /\ proc[m][Watch].pc \in {"idle", "done"}
          /\ game' = [game EXCEPT ![m] = "on"]
          /\ watch' = [watch EXCEPT ![m] = NoWatch]
          /\ proc' = [proc EXCEPT ![m][s] = IdleProc,
                                  ![m][Watch] = [IdleProc EXCEPT !.pc = "sleep"]]
     ELSE /\ UNCHANGED game
          /\ IF p.op = "tick"
             THEN /\ watch' = [watch EXCEPT ![m].seen = Empty, ![m].sig = SigAfter(m, p)]
                  /\ Step(m, s, [IdleProc EXCEPT
                       !.pc = IF watch[m].last THEN "done" ELSE "sleep",
                       !.rc = p.rc])
             ELSE UNCHANGED watch /\ Step(m, s, IdleProc)
  /\ UNCHANGED <<local, service, late, counts, history>>

FirstStep == [sync |-> "lock", launch |-> "lock", push |-> "bundle",
              keepHere |-> "bundle", pull |-> "meta", restore |-> "choose"]

Start(m, s, op) ==
  /\ At(m, s, "idle")
  /\ op \in CASE game[m] = "off" -> OpsOff
              [] game[m] = "paused" -> OpsPaused
              [] game[m] = "on" -> OpsOn
  /\ op = "launch" => \A o \in Slot : proc[m][o].op # "launch"
  /\ op \in Asked => asked < MaxAsked
  /\ asked' = IF op \in Asked THEN asked + 1 ELSE asked
  /\ Step(m, s, [IdleProc EXCEPT !.pc = FirstStep[op], !.op = op])
  /\ UNCHANGED <<local, game, lock, watch, service, late, ver, lost, killed, broken,
                 history>>

\* with_lock: taken, or given up on after thirty seconds of somebody else.
TakeLock(m, s) ==
  /\ At(m, s, "lock")
  /\ \/ /\ lock[m] = Free
        /\ lock' = [lock EXCEPT ![m] = s]
        /\ Goto(m, s, IF s = Watch THEN "bundle" ELSE "look")
     \/ /\ lock[m] # Free
        /\ End(m, s, 1)
        /\ UNCHANGED lock
  /\ UNCHANGED <<local, game, watch, service, late, counts, history>>

\* saves_check_one: what is here, whether it changed since this machine last
\* agreed with the service, then the service's word.
Look(m, s) ==
  LET h == files[m]
      j == journal[m]
  IN  /\ At(m, s, "look")
      /\ Step(m, s, [proc[m][s] EXCEPT !.pc = "ask", !.hash = h,
                       !.head = [gen |-> j.gen, hash |-> j.hash],
                       !.changed = h # Empty /\ h # j.hash /\ h # j.pushed])
      /\ UNCHANGED <<local, game, lock, watch, service, late, counts, history>>

InConflict(p) == /\ Current.gen > 0 /\ p.hash \notin {Empty, Current.hash}
                 /\ Current.gen > p.head.gen /\ p.changed

\* Mutants: a newer head is pulled whatever changed here; and only once it is
\* two ahead.
RemoteNewerAnyway(p) == /\ Current.gen > 0 /\ p.hash # Current.hash
                        /\ p.hash = Empty \/ Current.gen > p.head.gen
RemoteNewerByTwo(p) == /\ Current.gen > 0 /\ p.hash # Current.hash
                       /\ \/ p.hash = Empty
                          \/ Current.gen > p.head.gen + 1 /\ ~p.changed

RemoteNewer(p) == /\ Current.gen > 0 /\ p.hash # Current.hash
                  /\ \/ p.hash = Empty
                     \/ Current.gen > p.head.gen /\ ~p.changed

\* Mutant: nothing is pushed where there is no head yet.
HereNewerThanHead(p) == /\ Current.gen > 0 /\ p.hash \notin {Empty, Current.hash}
                        /\ Current.gen <= p.head.gen /\ p.changed

HereNewer(p) == \/ Current.gen = 0 /\ p.hash # Empty
                \/ /\ Current.gen > 0 /\ p.hash \notin {Empty, Current.hash}
                   /\ Current.gen <= p.head.gen /\ p.changed

Compare(m, s) ==
  LET p == proc[m][s] IN
  /\ At(m, s, "ask")
  /\ CASE HereNewer(p) -> Enter(m, s, "bundle")
       [] RemoteNewer(p) -> Enter(m, s, "meta")
       [] InConflict(p) -> End(m, s, 2)
       [] OTHER -> End(m, s, 0)
  /\ UNCHANGED <<local, game, lock, watch, service, late, counts, history>>

-----------------------------------------------------------------------------
(* A push: saves_push_try and store_save *)

PushBundle(m, s) ==
  /\ At(m, s, "bundle")
  /\ IF files[m] = Empty
     THEN End(m, s, 3)
     ELSE Step(m, s, [proc[m][s] EXCEPT !.pc = "send", !.hash = files[m]])
  /\ UNCHANGED <<local, game, lock, watch, service, late, counts, history>>

\* The bytes of the last push are not sent again; anything else goes out with
\* the hash it descends from.
PushSend(m, s) ==
  LET p == proc[m][s] IN
  /\ At(m, s, "send")
  /\ IF p.hash = journal[m].pushed
     THEN End(m, s, 4)
     ELSE Step(m, s, [p EXCEPT !.pc = "put", !.head.hash = journal[m].hash])
  /\ UNCHANGED <<local, game, lock, watch, service, late, counts, history>>

\* The service's side of a push (SavesHead): its status, and the generations
\* it leaves.
Put(m, p) == [by |-> m, body |-> p.hash, parent |-> p.head.hash,
              force |-> p.op = "keepHere"]
Same(r) == gens # <<>> /\ r.body = Current.hash
Refused(r) == /\ gens # <<>> /\ ~Same(r)
              /\ ~r.force /\ r.parent # Current.hash
Serve(r) ==
  IF Same(r) \/ Refused(r) THEN UNCHANGED service
  ELSE /\ Len(gens) < MaxGen
       /\ gens' = Append(gens, r.body) /\ by' = Append(by, r.by)

PutArrives(m, s) ==
  LET r == Put(m, proc[m][s]) IN
  /\ At(m, s, "put")
  /\ Serve(r)
  /\ IF Refused(r) THEN End(m, s, 2)
     ELSE Step(m, s, [proc[m][s] EXCEPT !.pc = "reply", !.head.gen = Len(gens')])
  /\ UNCHANGED <<local, game, lock, watch, late, counts, history>>

\* A push whose answer never comes: it was not sent, it may still arrive, or
\* it was served.
PutLost(m, s) ==
  /\ At(m, s, "put") \/ At(m, s, "reply")
  /\ lost < MaxLost /\ OneMoreFault /\ lost' = lost + 1
  /\ \/ UNCHANGED late
     \/ At(m, s, "put") /\ late' = late \cup {Put(m, proc[m][s])}
  /\ End(m, s, 1)
  /\ UNCHANGED <<local, game, lock, watch, service, ver, asked, killed, broken,
                 history>>

PutArrivesLate(r) ==
  /\ r \in late
  /\ Serve(r)
  /\ late' = late \ {r}
  /\ UNCHANGED <<local, game, lock, proc, watch, counts, history>>


\* Mutants: the base stays where it was; and only its hash moves.
PushReplyNoBase(m, s) ==
  LET p == proc[m][s] IN
  /\ At(m, s, "reply")
  /\ journal' = [journal EXCEPT ![m].pushed = p.hash]
  /\ End(m, s, 0)
  /\ UNCHANGED <<files, archives, game, lock, watch, service, late, counts, history>>
PushReplyNoGen(m, s) ==
  LET p == proc[m][s] IN
  /\ At(m, s, "reply")
  /\ journal' = [journal EXCEPT ![m].hash = p.hash, ![m].pushed = p.hash]
  /\ End(m, s, 0)
  /\ UNCHANGED <<files, archives, game, lock, watch, service, late, counts, history>>

PushReply(m, s) ==
  LET p == proc[m][s] IN
  /\ At(m, s, "reply")
  /\ journal' = [journal EXCEPT ![m] =
       [gen |-> p.head.gen, hash |-> p.hash, pushed |-> p.hash]]
  /\ End(m, s, 0)
  /\ UNCHANGED <<files, archives, game, lock, watch, service, late, counts, history>>

-----------------------------------------------------------------------------
(* A pull: saves_pull_one *)

\* store_meta, and what is here is held against it: the same bytes only move
\* the journal's base.
PullMeta(m, s) ==
  /\ At(m, s, "meta")
  /\ IF gens = <<>> THEN End(m, s, 0)
     ELSE Step(m, s, [proc[m][s] EXCEPT !.pc = "compare", !.head = Current])
  /\ UNCHANGED <<local, game, lock, watch, service, late, counts, history>>

PullCompare(m, s) ==
  LET head == proc[m][s].head IN
  /\ At(m, s, "compare")
  /\ IF files[m] = head.hash
     THEN /\ journal' = [journal EXCEPT ![m].gen = head.gen, ![m].hash = head.hash]
          /\ End(m, s, 0)
     ELSE UNCHANGED journal /\ Enter(m, s, "snapshot")
  /\ UNCHANGED <<files, archives, game, lock, watch, service, late, counts, history>>


\* saves_snapshot and saves_prune_local: what is here joins the archives, and
\* only the last few stay.
Archived(a, b) ==
  LET all == Append(a, b)
  IN  IF Len(all) <= LocalKeep THEN all
      ELSE SubSeq(all, Len(all) - LocalKeep + 1, Len(all))

Snapshot(m, s) ==
  /\ At(m, s, "snapshot")
  /\ archives' = [archives EXCEPT ![m] =
       IF files[m] = Empty THEN @ ELSE Archived(@, files[m])]
  /\ Goto(m, s, IF proc[m][s].op = "restore" THEN "remove" ELSE "fetch")
  /\ UNCHANGED <<files, journal, game, lock, watch, service, late, counts, history>>


\* Mutant: the journal has the new head before its files are in place.
PullFetchRecorded(m, s) ==
  /\ At(m, s, "fetch")
  /\ Step(m, s, [proc[m][s] EXCEPT !.pc = "place", !.head = Current,
       !.todo = {f \in File : Current.hash[f] # 0}])
  /\ journal' = [journal EXCEPT ![m] =
       [gen |-> Current.gen, hash |-> Current.hash, pushed |-> Current.hash]]
  /\ UNCHANGED <<files, archives, game, lock, watch, service, late, counts, history>>

\* store_retrieve: the head there is by now, which is what the journal will
\* record; its bytes are verified before anything here is touched.
PullFetch(m, s) ==
  /\ At(m, s, "fetch")
  /\ Step(m, s, [proc[m][s] EXCEPT !.pc = "place", !.head = Current,
       !.todo = {f \in File : Current.hash[f] # 0}])
  /\ UNCHANGED <<local, game, lock, watch, service, late, counts, history>>

\* All of bundle b is in place.
Has(fs, b) == \A f \in File : b[f] # 0 => fs[f] = b[f]

\* saves_extract moves the files in one at a time, and removes none.
Place(m, s) ==
  /\ At(m, s, "place")
  /\ \E f \in proc[m][s].todo :
       /\ files' = [files EXCEPT ![m][f] = proc[m][s].head.hash[f]]
       /\ Step(m, s, [proc[m][s] EXCEPT !.todo = @ \ {f}])
       /\ whole' = IF Has(files'[m], proc[m][s].head.hash)
                   THEN whole \cup {files'[m]} ELSE whole
  /\ UNCHANGED <<journal, archives, game, lock, watch, service, late, counts, chosen>>

PullDone(m, s) ==
  LET p == proc[m][s] IN
  /\ At(m, s, "place") /\ p.todo = {} /\ p.op # "restore"
  /\ journal' = [journal EXCEPT ![m] =
       [gen |-> p.head.gen, hash |-> p.head.hash, pushed |-> p.head.hash]]
  /\ End(m, s, 0)
  /\ chosen' = [chosen EXCEPT ![m] = IF p.op = "pull" THEN NoChoice ELSE @]
  /\ UNCHANGED <<files, archives, game, lock, watch, service, late, counts, whole>>

\* A question the service does not answer: the check says offline, a pull
\* dies, and a restore leaves the journal alone.
Unanswered(m, s) ==
  /\ proc[m][s].pc \in {"ask", "meta", "fetch", "choose", "agree"}
  /\ lost < MaxLost /\ OneMoreFault /\ lost' = lost + 1
  /\ End(m, s, IF proc[m][s].pc \in {"ask", "agree"} THEN 0 ELSE 1)
  /\ UNCHANGED <<local, game, lock, watch, service, late, ver, asked, killed, broken,
                 history>>

-----------------------------------------------------------------------------
(* Putting one save back: saves_restore_one *)

Chosen(m, b) ==
  [chosen EXCEPT ![m] = [save |-> b, over |-> Current.gen,
                         alone |-> proc[m][Watch].pc \in {"idle", "done"}]]

\* A generation the service keeps or an archive of this machine, in hand and
\* verified; the same as what is here, only the journal moves.
Choose(m, s) ==
  /\ At(m, s, "choose")
  /\ \E b \in {gens[i] : i \in Kept} \cup
             {archives[m][i] : i \in DOMAIN archives[m]} :
       /\ Step(m, s, [proc[m][s] EXCEPT
         !.pc = IF files[m] = b THEN "agree" ELSE "snapshot",
         !.hash = files[m], !.head.hash = b,
         !.todo = {f \in File : b[f] # 0}])
       /\ chosen' = IF files[m] = b THEN Chosen(m, b) ELSE chosen
  /\ UNCHANGED <<local, game, lock, watch, service, late, counts, whole>>

\* Save files made since the one put back are removed.
Remove(m, s) ==
  LET p == proc[m][s]
      since == {f \in File : p.hash[f] # 0 /\ p.head.hash[f] = 0}
  IN  /\ At(m, s, "remove")
      /\ files' = [files EXCEPT ![m] = [f \in File |-> IF f \in since THEN 0 ELSE @[f]]]
      /\ Goto(m, s, "place")
      /\ UNCHANGED <<journal, archives, game, lock, watch, service, late, counts, history>>

\* saves_restore_journal: the head is where this machine now stands, what is
\* here a change on top of it.
Placed(m, s) ==
  /\ At(m, s, "place") /\ proc[m][s].todo = {} /\ proc[m][s].op = "restore"
  /\ chosen' = Chosen(m, proc[m][s].head.hash)
  /\ Enter(m, s, "agree")
  /\ UNCHANGED <<local, game, lock, watch, service, late, counts, whole>>

Agree(m, s) ==
  /\ At(m, s, "agree")
  /\ IF gens = <<>> THEN End(m, s, 0)
     ELSE Step(m, s, [proc[m][s] EXCEPT !.pc = "record", !.head = Current])
  /\ UNCHANGED <<local, game, lock, watch, service, late, counts, history>>


\* Mutant: the journal is left alone, as it is offline.
RecordNothing(m, s) ==
  /\ At(m, s, "record")
  /\ End(m, s, 0)
  /\ UNCHANGED <<local, game, lock, watch, service, late, counts, history>>

RecordAgreed(m, s) ==
  LET head == proc[m][s].head IN
  /\ At(m, s, "record")
  /\ journal' = [journal EXCEPT ![m] =
       [gen |-> head.gen, hash |-> head.hash, pushed |-> Empty]]
  /\ End(m, s, 0)
  /\ UNCHANGED <<files, archives, game, lock, watch, service, late, counts, history>>

-----------------------------------------------------------------------------
(* What goes wrong on a machine *)

\* A file operation fails.  A bundle that cannot be made dies wherever it is.
\* Elsewhere errexit ends a command a person ran, but it is off under the || of
\* saves_cmd_sync and of the launch: there an archive not moved into place, or
\* a file not extracted, is passed over and the next step runs.
Broken(m, s) ==
  LET p == proc[m][s] IN
  /\ broken < MaxBroken /\ OneMoreFault /\ broken' = broken + 1
  /\ \/ /\ At(m, s, "snapshot")
        /\ IF p.op \in Synced THEN Goto(m, s, "fetch") ELSE End(m, s, 1)
     \/ /\ At(m, s, "place")
        /\ \E f \in p.todo :
             IF p.op \in Synced THEN Step(m, s, [p EXCEPT !.todo = @ \ {f}])
             ELSE End(m, s, 1)
     \/ /\ p.pc \in {"look", "bundle", "compare", "choose"}
        /\ End(m, s, 1)
  /\ UNCHANGED <<local, game, lock, watch, service, late, ver, asked, lost, killed,
                 history>>

\* The picker hands over to a game and stops its sync, wherever it is.
Kill(m, s) ==
  /\ proc[m][s].op = "sync" /\ proc[m][s].pc # "ended"
  /\ killed < MaxKilled /\ OneMoreFault /\ killed' = killed + 1
  /\ End(m, s, 1)
  /\ UNCHANGED <<local, game, lock, watch, service, late, ver, asked, lost, broken,
                 history>>

-----------------------------------------------------------------------------
(* The game and the watcher beside it *)

GameWrites(m) ==
  /\ game[m] = "on" /\ ver < MaxVer
  /\ ver' = ver + 1
  /\ \E f \in File : files' = [files EXCEPT ![m][f] = ver']
  /\ whole' = whole \cup {files'[m]}
  /\ chosen' = [chosen EXCEPT ![m] = NoChoice]
  /\ UNCHANGED <<journal, archives, game, lock, proc, watch, service, late, asked,
                 lost, killed, broken>>

\* The game ends; or is stopped to start again on a save picked from the
\* overlay, once the wrapper's push and restore are through.
GameStops(m) ==
  /\ game[m] = "on"
  /\ \E g \in {"off"} \cup (IF OpsPaused = {} THEN {} ELSE {"paused"}) :
       game' = [game EXCEPT ![m] = g]
  /\ UNCHANGED <<local, lock, proc, watch, service, late, counts, history>>

GameResumes(m) ==
  /\ game[m] = "paused" /\ \A s \in Slot : proc[m][s].op \notin OpsPaused
  /\ game' = [game EXCEPT ![m] = "on"]
  /\ UNCHANGED <<local, lock, proc, watch, service, late, counts, history>>

\* A tick pushes unless the files are as they were when the last push that
\* went through began; once more when the play is over.
Tick(m) ==
  LET last == game[m] = "off" IN
  /\ At(m, Watch, "sleep")
  /\ last \/ files[m] # watch[m].sig
  /\ watch' = [watch EXCEPT ![m].seen = files[m], ![m].last = last]
  /\ Step(m, Watch, [IdleProc EXCEPT
       !.pc = IF files[m] # watch[m].sig THEN "lock" ELSE "done", !.op = "tick"])
  /\ UNCHANGED <<local, game, lock, service, late, counts, history>>

\* Some other machine plays and its push is accepted.
Elsewhere ==
  /\ Others /\ ver < MaxVer /\ Len(gens) < MaxGen
  /\ ver' = ver + 1
  /\ \E b \in {[f \in File |-> ver']} \cup
             {[Current.hash EXCEPT ![f] = ver'] : f \in File} :
       gens' = Append(gens, b) /\ by' = Append(by, Other) /\ whole' = whole \cup {b}
  /\ UNCHANGED <<local, game, lock, proc, watch, late, asked, lost, killed, broken,
                 chosen>>

-----------------------------------------------------------------------------

Command(m, s) ==
  \/ TakeLock(m, s) \/ Look(m, s) \/ Compare(m, s) \/ Ended(m, s)
  \/ PushBundle(m, s) \/ PushSend(m, s) \/ PutArrives(m, s) \/ PushReply(m, s)
  \/ PullMeta(m, s) \/ PullCompare(m, s) \/ Snapshot(m, s) \/ PullFetch(m, s)
  \/ Place(m, s) \/ PullDone(m, s)
  \/ Choose(m, s) \/ Remove(m, s) \/ Placed(m, s) \/ Agree(m, s)
  \/ RecordAgreed(m, s)

Faults(m, s) ==
  PutLost(m, s) \/ Unanswered(m, s) \/ Broken(m, s) \/ Kill(m, s)

Next == \/ \E m \in Machine :
             \/ \E s \in Slot, op \in Ops : Start(m, s, op)
             \/ \E s \in Procs : Command(m, s) \/ Faults(m, s)
             \/ GameWrites(m) \/ GameStops(m) \/ GameResumes(m) \/ Tick(m)
        \/ \E r \in late : PutArrivesLate(r)
        \/ Elsewhere

Spec == Init /\ [][Next]_vars

\* What the client and the network do by themselves: a process that runs goes
\* on, the picker syncs every ten minutes, the watcher looks every ten seconds,
\* and a game that was stopped for a save starts again.
Fair ==
  \A m \in Machine :
    /\ \A s \in Procs : WF_vars(Command(m, s))
    /\ WF_vars(Tick(m)) /\ WF_vars(GameResumes(m))
    /\ WF_vars(\E s \in Slot : Start(m, s, "sync"))

FairSpec == Spec /\ Fair

-----------------------------------------------------------------------------
(* What has to hold *)

TypeOK ==
  /\ files \in [Machine -> Bundle]
  /\ journal \in [Machine -> [gen : 0..MaxGen, hash : Bundle, pushed : Bundle]]
  /\ \A m \in Machine : archives[m] \in Seq(Bundle) /\ Len(archives[m]) <= LocalKeep
  /\ game \in [Machine -> {"off", "on", "paused"}]
  /\ lock \in [Machine -> Procs \cup {Free}]
  /\ \A m \in Machine, s \in Procs :
       /\ proc[m][s].pc \in {"idle", "lock", "look", "ask", "bundle", "send", "put",
            "reply", "meta", "compare", "snapshot", "fetch", "place", "choose",
            "remove", "agree", "record", "ended", "sleep", "done"}
       /\ proc[m][s].todo \subseteq File /\ proc[m][s].hash \in Bundle
  /\ gens \in Seq(Bundle) /\ Len(gens) <= MaxGen
  /\ whole \subseteq Bundle

\* The journal's base is a real generation: its number and its hash belong
\* together, whatever was pushed, pulled, restored or lost in between.
JournalIsTrue ==
  \A m \in Machine :
    LET j == journal[m]
    IN  IF j.gen = 0 THEN j.hash = Empty
        ELSE j.gen \in DOMAIN gens /\ gens[j.gen] = j.hash

\* "A half-written save pushed whole would be a generation nobody can load":
\* while no file operation failed and nobody ran a command beside the syncs,
\* every generation is a state some game or a finished placing left.
GenerationsAreWhole == broken = 0 /\ asked = 0 => OnService \subseteq whole

\* A file as it is here can be had again: from an archive or the service.
SavedElsewhere(m, f) ==
  \/ files[m][f] = 0
  \/ \E i \in DOMAIN archives[m] : archives[m][i][f] = files[m][f]
  \/ \E i \in Kept : gens[i][f] = files[m][f]

\* "A pull is the one operation that can destroy local work, so it never
\* happens without [an archive] first": what a command, rather than the game,
\* writes over or removes is kept somewhere.  Not so: a launch that gives up on
\* another sync's lock starts the game between that sync's archive and its
\* placing; and under the || a sync goes on without the archive it failed to make.
WorkIsKept ==
  [][\A m \in Machine, f \in File :
       files'[m][f] # files[m][f] /\ ver' = ver => SavedElsewhere(m, f)]_vars

\* "It pulls when the server is ahead and nothing local changed": a sync only
\* ever writes over files the service has as a whole.
SyncPlacesOnlyOverSynced ==
  \A m \in Machine, s \in Slot :
    LET p == proc[m][s]
    IN  /\ p.op \in Synced /\ p.pc = "place"
        /\ p.todo = {f \in File : p.head.hash[f] # 0}
        => files[m] \in OnService \cup {Empty}

\* "A launch does not pull the head back over" a save somebody put back: the
\* head that was there then is not placed over it by a sync.  (Of saves put
\* back with no watcher beside: a push that is under way then rewrites the
\* journal after the restore did.)
RestoreStands ==
  \A m \in Machine, s \in Slot :
    LET p == proc[m][s]
    IN  /\ p.op \in Synced /\ p.pc = "place" /\ p.head.gen = chosen[m].over
        /\ p.todo = {f \in File : p.head.hash[f] # 0} /\ chosen[m].alone
        => files[m] # chosen[m].save

\* The same while the service answers.
RestoreStandsOnline == lost = 0 => RestoreStands

\* "both moved on since they last agreed: somebody chooses": a sync or a
\* watcher's push only reports a conflict when somebody else has pushed since
\* this machine's base.
ConflictIsReal ==
  \A m \in Machine, s \in Procs :
    At(m, s, "ended") /\ proc[m][s].rc = 2
      => \E i \in DOMAIN gens : i > journal[m].gen /\ by[i] # m

\* What is here is on the service, or the two have parted and a person has to
\* choose.
Settled(m) == \/ files[m] \in OnService \cup {Empty}
              \/ Len(gens) > journal[m].gen

\* The same while no answer is lost, no sync is killed and nobody has a hand in it.
Undisturbed == lost = 0 /\ killed = 0 /\ asked = 0
ConflictIsRealAlone == Undisturbed => ConflictIsReal

\* The watcher's last look leaves nothing behind that a push could have taken.
WatcherLeavesNothing ==
  \A m \in Machine :
    /\ game[m] = "off" /\ At(m, Watch, "done") /\ proc[m][Watch].rc # 1
    /\ \A s \in Slot : proc[m][s].op \notin Asked
    /\ asked = 0 /\ \A s \in Slot : ~At(m, s, "place")
    => Settled(m)

\* A save does not stay on one machine: whatever was written here reaches the
\* service, or somebody else's got there first and a person is asked.
EventuallySettled == \A m \in Machine : []<>Settled(m)

\* Machines that are not being played on come to hold the head, all of them,
\* or one has a save of its own that a person has to choose about.
Together(m) ==
  \/ game[m] # "off"
  \/ files[m] = Current.hash
  \/ Current.gen > journal[m].gen /\ files[m] \notin {Empty, journal[m].hash}

EventuallyTogether == []<>(\A m \in Machine : Together(m))
=============================================================================
