--------------------------- MODULE SavesSyncProofs ---------------------------
(***************************************************************************)
(* What a machine's journal says of the service is true, and its syncs     *)
(* exclude each other, for any machines, commands, files, archives and     *)
(* faults.  The invariant IInv says of each step that knows a head that    *)
(* the service had it, which holds on because the service forgets none.    *)
(*                                                                         *)
(* The rest builds on it, a part of the invariant for each property, and   *)
(* each part kept by what begins and ends a command (Rests), by a step of  *)
(* one (Command), by what goes wrong (Faults) and by what is beside it     *)
(* (Beside):                                                               *)
(*   ShapeOK   which steps a command has,                                  *)
(*   SyncOK    a sync places over what it knows the service to have,       *)
(*   SavesOK   no save that is kept or sent is an empty one,               *)
(*   ChoiceOK  a save put back is a change on top of the head there was,   *)
(*   MineOK    a machine's own pushes are in its journal,                  *)
(*   WholeOK   each generation has the last one's files or newer, whole,   *)
(*   WatchOK   what the watcher took as pushed is settled.                 *)
(***************************************************************************)
EXTENDS SavesSync, SequenceTheorems, TLAPS

Pcs == {"idle", "lock", "look", "ask", "bundle", "send", "put", "reply", "meta", "compare",
        "snapshot", "fetch", "place", "choose", "remove", "agree", "record", "ended", "sleep", "done"}
AllOps == {"none", "tick", "sync", "launch", "push", "keepHere", "pull", "restore"}
HeadRecord == [gen : 0..MaxGen, hash : Bundle]
Proc == [pc : Pcs, op : AllOps, hash : Bundle, head : HeadRecord, changed : BOOLEAN,
         todo : SUBSET File, rc : Nat]
Request == [by : Machine, body : Bundle, parent : Bundle, force : BOOLEAN]

\* Generation gen has this hash, generation 0 being none.
Of(gs, gen, hash) == IF gen = 0 THEN hash = Empty ELSE gen \in DOMAIN gs /\ gs[gen] = hash

\* What a command knows of the service at its step.
Fits(gs, p) ==
  /\ p.pc \in {"compare", "record"} \/ (p.pc = "place" /\ p.op # "restore")
       => Of(gs, p.head.gen, p.head.hash)
  /\ p.pc = "reply" => p.head.gen > 0 /\ Of(gs, p.head.gen, p.hash)
  /\ p.pc = "remove" => p.op = "restore"

\* A sync or a watcher's push past its lock.
Resting == {"idle", "lock", "ended", "sleep", "done"}
Locked(p) == p.op \in Synced \cup {"tick"} /\ p.pc \notin Resting

DataOK ==
  /\ files \in [Machine -> Bundle]
  /\ journal \in [Machine -> [gen : 0..MaxGen, hash : Bundle, pushed : Bundle]]
  /\ archives \in [Machine -> Seq(Bundle)] /\ \A m \in Machine : Len(archives[m]) <= LocalKeep
  /\ game \in [Machine -> {"off", "on", "paused"}]
  /\ lock \in [Machine -> Procs \cup {Free}]
  /\ gens \in Seq(Bundle) /\ Len(gens) <= MaxGen
  /\ late \subseteq Request
  /\ ver \in 0..MaxVer /\ whole \subseteq Bundle

ProcsOK ==
  /\ proc \in [Machine -> [Procs -> Proc]]
  /\ \A m \in Machine, s \in Procs :
       /\ Fits(gens, proc[m][s])
       /\ Locked(proc[m][s]) => lock[m] = s

IInv == DataOK /\ ProcsOK /\ JournalIsTrue

\* The service only ever adds a generation.
Grows == gens' = gens \/ \E b \in Bundle : gens' = Append(gens, b)

-----------------------------------------------------------------------------
(* What the parts of the state are *)

LEMMA Types ==
  ASSUME SyncAssumption
  PROVE  /\ Empty \in Bundle /\ NoHead \in HeadRecord /\ IdleProc \in Proc
         /\ Free \notin Procs /\ Watch \in Procs /\ Slot \subseteq Procs
<1>1. Empty \in Bundle /\ NoHead \in HeadRecord
  BY DEF SyncAssumption, Empty, Bundle, NoHead, HeadRecord
<1>2. IdleProc \in Proc
  BY <1>1 DEF IdleProc, Proc, Pcs, AllOps
<1> QED BY <1>1, <1>2 DEF SyncAssumption, Free, Procs, Watch

LEMMA CurrentType ==
  ASSUME SyncAssumption, DataOK
  PROVE  Current \in HeadRecord /\ Of(gens, Current.gen, Current.hash)
         /\ (gens # <<>> => Current.gen > 0)
<1>1. CASE gens = <<>>
  BY <1>1, Types DEF Current, NoHead, Of
<1>2. CASE gens # <<>>
  <2>1. Len(gens) \in DOMAIN gens /\ Len(gens) \in 1..MaxGen /\ gens[Len(gens)] \in Bundle
    BY <1>2 DEF DataOK, SyncAssumption
  <2> QED BY <1>2, <2>1 DEF Current, HeadRecord, Of
<1> QED BY <1>1, <1>2

LEMMA OfStands ==
  ASSUME DataOK, Grows, NEW g \in Nat, NEW h, Of(gens, g, h)
  PROVE  Of(gens', g, h)
<1>1. CASE \E b \in Bundle : gens' = Append(gens, b)
  <2>1. PICK b \in Bundle : gens' = Append(gens, b)
    BY <1>1
  <2>2. \A i \in 1..Len(gens) : i \in DOMAIN gens' /\ gens'[i] = gens[i]
    BY <2>1 DEF DataOK
  <2>3. DOMAIN gens = 1..Len(gens)
    BY DEF DataOK
  <2> QED BY <2>2, <2>3 DEF Of
<1>2. CASE gens' = gens
  BY <1>2 DEF Of
<1> QED BY <1>1, <1>2 DEF Grows

LEMMA FitsStands ==
  ASSUME DataOK, Grows, NEW p \in Proc, Fits(gens, p)
  PROVE  Fits(gens', p)
<1>1. p.head.gen \in Nat
  BY DEF Proc, HeadRecord
<1> QED BY <1>1, OfStands DEF Fits

LEMMA JournalStands ==
  ASSUME DataOK, JournalIsTrue, Grows, journal' = journal
  PROVE  JournalIsTrue'
<1>1. \A m \in Machine : journal[m].gen \in Nat /\ Of(gens, journal[m].gen, journal[m].hash)
  BY DEF DataOK, JournalIsTrue, Of
<1>2. \A m \in Machine : Of(gens', journal[m].gen, journal[m].hash)
  BY <1>1, OfStands
<1> QED BY <1>2 DEF JournalIsTrue, Of

\* What a step records of the service it knew to be so.
LEMMA JournalMoves ==
  ASSUME DataOK, JournalIsTrue, gens' = gens, NEW m \in Machine,
         NEW j \in [gen : 0..MaxGen, hash : Bundle, pushed : Bundle],
         journal' = [journal EXCEPT ![m] = j], Of(gens, j.gen, j.hash)
  PROVE  JournalIsTrue' /\ journal' \in [Machine -> [gen : 0..MaxGen, hash : Bundle, pushed : Bundle]]
  BY DEF DataOK, JournalIsTrue, Of

\* One command moves on, and no other is concerned.
LEMMA MoveKeeps ==
  ASSUME SyncAssumption, DataOK, ProcsOK, Grows, NEW m \in Machine, NEW s \in Procs, NEW p \in Proc,
         Step(m, s, p), Fits(gens', p), Locked(p) => lock'[m] = s,
         \/ lock' = lock
         \/ lock[m] = Free /\ lock' = [lock EXCEPT ![m] = s]
         \/ lock' = [lock EXCEPT ![m] = IF @ = s THEN Free ELSE @]
  PROVE  ProcsOK'
<1>1. proc' \in [Machine -> [Procs -> Proc]]
  BY DEF Step, ProcsOK
<1>2. \A n \in Machine, t \in Procs :
        proc'[n][t] = IF n = m /\ t = s THEN p ELSE proc[n][t]
  BY DEF Step, ProcsOK
<1>3. \A n \in Machine, t \in Procs : Fits(gens', proc[n][t])
  BY FitsStands DEF ProcsOK
<1>4. ASSUME NEW n \in Machine, NEW t \in Procs, ~(n = m /\ t = s), Locked(proc[n][t])
      PROVE  lock'[n] = t
  <2>1. lock[n] = t /\ t # Free
    BY <1>4, Types DEF ProcsOK
  <2> QED BY <1>4, <2>1 DEF DataOK
<1> QED BY <1>1, <1>2, <1>3, <1>4 DEF ProcsOK

\* The same, keeping its operation and, if it was past it, its lock.
LEMMA StepKeeps ==
  ASSUME SyncAssumption, DataOK, ProcsOK, Grows, lock' = lock, NEW m \in Machine, NEW s \in Procs,
         NEW p \in Proc, Step(m, s, p), p.op = proc[m][s].op, Fits(gens', p),
         proc[m][s].pc \notin Resting \/ p.pc \in Resting
  PROVE  ProcsOK'
<1>1. Locked(p) => lock'[m] = s
  BY DEF Locked, ProcsOK
<1> QED BY <1>1, MoveKeeps

LEMMA EndKeeps ==
  ASSUME SyncAssumption, DataOK, ProcsOK, Grows, lock' = lock, NEW m \in Machine, NEW s \in Procs,
         NEW rc \in Nat, End(m, s, rc)
  PROVE  ProcsOK'
<1> DEFINE p == [IdleProc EXCEPT !.pc = "ended", !.op = proc[m][s].op, !.rc = rc]
<1>1. proc[m][s].op \in AllOps
  BY DEF ProcsOK, Proc
<1>2. p \in Proc /\ p.pc = "ended" /\ p.op = proc[m][s].op
  BY <1>1, Types DEF Proc, Pcs
<1>3. Step(m, s, p)
  BY DEF End
<1> HIDE DEF p
<1>4. Fits(gens', p)
  BY <1>2 DEF Fits
<1> QED BY <1>2, <1>3, <1>4, StepKeeps DEF Resting

\* A step that only hands on to one that knows nothing of the service.
Blank == {"lock", "look", "ask", "bundle", "send", "put", "meta", "snapshot", "fetch", "choose", "agree"}

LEMMA EnterKeeps ==
  ASSUME SyncAssumption, DataOK, ProcsOK, Grows, lock' = lock, NEW m \in Machine, NEW s \in Procs,
         NEW pc \in Blank, Enter(m, s, pc), proc[m][s].pc \notin Resting
  PROVE  ProcsOK'
<1> DEFINE p == [IdleProc EXCEPT !.pc = pc, !.op = proc[m][s].op]
<1>1. proc[m][s].op \in AllOps
  BY DEF ProcsOK, Proc
<1>2. p \in Proc /\ p.pc = pc /\ p.op = proc[m][s].op
  BY <1>1, Types DEF Proc, Pcs, Blank
<1>3. Step(m, s, p)
  BY DEF Enter
<1> HIDE DEF p
<1>4. Fits(gens', p)
  BY <1>2 DEF Fits, Blank
<1> QED BY <1>2, <1>3, <1>4, StepKeeps

\* A step of one command alone.
LEMMA AloneKeeps ==
  ASSUME IInv, UNCHANGED <<local, game, lock, gens, late, ver, whole>>, ProcsOK'
  PROVE  IInv'
<1>1. DataOK'
  BY DEF IInv, DataOK, local
<1>2. JournalIsTrue'
  BY JournalStands DEF IInv, Grows, local
<1> QED BY <1>1, <1>2 DEF IInv

-----------------------------------------------------------------------------
(* Commands begin, wait, look and end *)

LEMMA StartStep ==
  ASSUME SyncAssumption, IInv, NEW m \in Machine, NEW s \in Slot, NEW op \in Ops, Start(m, s, op)
  PROVE  IInv'
<1> DEFINE p == [IdleProc EXCEPT !.pc = FirstStep[op], !.op = op]
<1>1. op \in AllOps \ {"none", "tick"} /\ s \in Procs
  BY Types DEF SyncAssumption, Ops, AllOps
<1>2. /\ FirstStep[op] \in {"lock", "bundle", "meta", "choose"}
      /\ op \in Synced => FirstStep[op] = "lock"
  BY <1>1 DEF FirstStep, AllOps, Synced
<1>3. p \in Proc /\ p.pc = FirstStep[op] /\ p.op = op
  BY <1>1, <1>2, Types DEF Proc, Pcs
<1>4. Step(m, s, p) /\ UNCHANGED <<local, game, lock, gens, late, ver, whole>>
  BY DEF Start, service, history
<1> HIDE DEF p
<1>5. Fits(gens', p) /\ ~Locked(p)
  BY <1>1, <1>2, <1>3 DEF Fits, Locked, Resting
<1>6. ProcsOK'
  BY <1>1, <1>3, <1>4, <1>5, MoveKeeps DEF IInv, Grows
<1> QED BY <1>4, <1>6, AloneKeeps

LEMMA TakeLockStep ==
  ASSUME SyncAssumption, IInv, NEW m \in Machine, NEW s \in Procs, TakeLock(m, s)
  PROVE  IInv'
<1>1. proc[m][s] \in Proc /\ UNCHANGED <<local, game, gens, late, ver, whole>>
  BY DEF TakeLock, service, counts, history, IInv, ProcsOK
<1>2. CASE End(m, s, 1) /\ UNCHANGED lock
  <2>1. ProcsOK'
    BY <1>1, <1>2, EndKeeps DEF IInv, Grows
  <2> QED BY <1>1, <1>2, <2>1, AloneKeeps
<1>3. CASE /\ lock[m] = Free /\ lock' = [lock EXCEPT ![m] = s]
           /\ \E pc \in {"bundle", "look"} : Goto(m, s, pc)
  <2>1. PICK pc \in {"bundle", "look"} : Goto(m, s, pc)
    BY <1>3
  <2> DEFINE p == [proc[m][s] EXCEPT !.pc = pc]
  <2>2. p \in Proc /\ p.pc = pc /\ Step(m, s, p)
    BY <1>1, <2>1 DEF Proc, Pcs, Goto
  <2> HIDE DEF p
  <2>3. Fits(gens', p)
    BY <2>2 DEF Fits
  <2>4. lock'[m] = s
    BY <1>3 DEF IInv, DataOK
  <2>5. ProcsOK'
    BY <1>1, <1>3, <2>2, <2>3, <2>4, MoveKeeps DEF IInv, Grows
  <2>6. DataOK'
    BY <1>1, <1>3 DEF IInv, DataOK, local
  <2>7. JournalIsTrue'
    BY <1>1, JournalStands DEF IInv, Grows, local
  <2> QED BY <2>5, <2>6, <2>7 DEF IInv
<1> QED BY <1>2, <1>3 DEF TakeLock

LEMMA LookStep ==
  ASSUME SyncAssumption, IInv, NEW m \in Machine, NEW s \in Procs, Look(m, s)
  PROVE  IInv'
<1> DEFINE changed == files[m] # Empty /\ files[m] # journal[m].hash /\ files[m] # journal[m].pushed
           p == [proc[m][s] EXCEPT !.pc = "ask", !.hash = files[m],
                       !.head = [gen |-> journal[m].gen, hash |-> journal[m].hash], !.changed = changed]
<1>1. /\ proc[m][s] \in Proc /\ UNCHANGED <<local, game, lock, gens, late, ver, whole>>
      /\ proc[m][s].pc = "look"
  BY DEF Look, At, service, counts, history, IInv, ProcsOK
<1>2. Step(m, s, p)
  BY DEF Look
<1>3. changed \in BOOLEAN /\ files[m] \in Bundle /\ journal[m].gen \in 0..MaxGen /\ journal[m].hash \in Bundle
  BY DEF IInv, DataOK
<1> HIDE DEF changed
<1>4. p \in Proc /\ p.pc = "ask" /\ p.op = proc[m][s].op
  BY <1>1, <1>3 DEF Proc, Pcs, HeadRecord
<1> HIDE DEF p
<1>5. Fits(gens', p)
  BY <1>4 DEF Fits
<1>6. ProcsOK'
  BY <1>1, <1>2, <1>4, <1>5, StepKeeps DEF IInv, Grows, Resting
<1> QED BY <1>1, <1>6, AloneKeeps

LEMMA CompareStep ==
  ASSUME SyncAssumption, IInv, NEW m \in Machine, NEW s \in Procs, Compare(m, s)
  PROVE  IInv'
<1>1. UNCHANGED <<local, game, lock, gens, late, ver, whole>> /\ proc[m][s].pc = "ask"
  BY DEF Compare, At, service, counts, history
<1>2. Enter(m, s, "bundle") \/ Enter(m, s, "meta") \/ End(m, s, 2) \/ End(m, s, 0)
  BY DEF Compare
<1>3. ProcsOK'
  <2>1. CASE \E pc \in {"bundle", "meta"} : Enter(m, s, pc)
    BY <1>1, <2>1, EnterKeeps DEF IInv, Grows, Resting, Blank
  <2>2. CASE \E rc \in Nat : End(m, s, rc)
    BY <1>1, <2>2, EndKeeps DEF IInv, Grows
  <2> QED BY <1>2, <2>1, <2>2
<1> QED BY <1>1, <1>3, AloneKeeps

LEMMA EndedStep ==
  ASSUME SyncAssumption, IInv, NEW m \in Machine, NEW s \in Procs, Ended(m, s)
  PROVE  IInv'
<1>1. /\ proc[m][s] \in Proc /\ UNCHANGED <<local, gens, late, ver, whole>>
      /\ lock' = [lock EXCEPT ![m] = IF @ = s THEN Free ELSE @]
      /\ game' = game \/ game' = [game EXCEPT ![m] = "on"]
  BY DEF Ended, service, counts, history, IInv, ProcsOK
<1>2. DataOK'
  BY <1>1 DEF IInv, DataOK, local
<1>3. JournalIsTrue'
  BY <1>1, JournalStands DEF IInv, Grows, local
<1>4. CASE \E p \in Proc : p.pc \in {"idle", "sleep", "done"} /\ Step(m, s, p)
  <2>1. PICK p \in Proc : p.pc \in {"idle", "sleep", "done"} /\ Step(m, s, p)
    BY <1>4
  <2>2. Fits(gens', p) /\ ~Locked(p)
    BY <2>1 DEF Fits, Locked, Resting
  <2>3. ProcsOK'
    BY <1>1, <2>1, <2>2, MoveKeeps DEF IInv, Grows
  <2> QED BY <1>2, <1>3, <2>3 DEF IInv
<1>5. CASE proc' = [proc EXCEPT ![m][s] = IdleProc, ![m][Watch] = [IdleProc EXCEPT !.pc = "sleep"]]
  <2> DEFINE w == [IdleProc EXCEPT !.pc = "sleep"]
  <2>1. w \in Proc /\ w.pc = "sleep" /\ IdleProc.pc = "idle" /\ IdleProc \in Proc
    BY Types DEF Proc, Pcs, IdleProc
  <2> HIDE DEF w
  <2>2. proc' = [proc EXCEPT ![m] = [[proc[m] EXCEPT ![s] = IdleProc] EXCEPT ![Watch] = w]]
        /\ proc \in [Machine -> [Procs -> Proc]] /\ Watch \in Procs
    BY <1>5, Types DEF IInv, ProcsOK, w
  <2>3. proc' \in [Machine -> [Procs -> Proc]]
    BY <2>1, <2>2
  <2>4. \A n \in Machine, t \in Procs :
          proc'[n][t] \in {IdleProc, w} \/ (proc'[n][t] = proc[n][t] /\ ~(n = m /\ t = s))
    BY <2>2
  <2>5. ASSUME NEW n \in Machine, NEW t \in Procs
        PROVE  Fits(gens', proc'[n][t]) /\ (Locked(proc'[n][t]) => lock'[n] = t)
    <3>1. CASE proc'[n][t] \in {IdleProc, w}
      BY <2>1, <3>1 DEF Fits, Locked, Resting
    <3>2. CASE proc'[n][t] = proc[n][t] /\ ~(n = m /\ t = s)
      BY <1>1, <3>2 DEF IInv, DataOK, ProcsOK
    <3> QED BY <2>4, <3>1, <3>2
  <2>6. ProcsOK'
    BY <2>3, <2>5 DEF ProcsOK
  <2> QED BY <1>2, <1>3, <2>6 DEF IInv
<1>6. CASE proc[m][s].op = "tick"
  <2>1. PICK pc \in {"sleep", "done"} : Step(m, s, [IdleProc EXCEPT !.pc = pc, !.rc = proc[m][s].rc])
    BY <1>6 DEF Ended
  <2> DEFINE p == [IdleProc EXCEPT !.pc = pc, !.rc = proc[m][s].rc]
  <2>2. p \in Proc /\ p.pc = pc
    BY <1>1, Types DEF Proc, Pcs
  <2> QED BY <1>4, <2>1, <2>2
<1>7. CASE Step(m, s, IdleProc)
  <2>1. IdleProc \in Proc /\ IdleProc.pc = "idle"
    BY Types DEF IdleProc
  <2> QED BY <1>4, <1>7, <2>1
<1> QED BY <1>5, <1>6, <1>7 DEF Ended

-----------------------------------------------------------------------------
(* A push *)

LEMMA PushBundleStep ==
  ASSUME SyncAssumption, IInv, NEW m \in Machine, NEW s \in Procs, PushBundle(m, s)
  PROVE  IInv'
<1>1. /\ proc[m][s] \in Proc /\ UNCHANGED <<local, game, lock, gens, late, ver, whole>>
      /\ proc[m][s].pc = "bundle" /\ files[m] \in Bundle
  BY DEF PushBundle, At, service, counts, history, IInv, ProcsOK, DataOK
<1>2. CASE End(m, s, 3)
  <2>1. ProcsOK'
    BY <1>1, <1>2, EndKeeps DEF IInv, Grows
  <2> QED BY <1>1, <2>1, AloneKeeps
<1>3. CASE Step(m, s, [proc[m][s] EXCEPT !.pc = "send", !.hash = files[m]])
  <2> DEFINE p == [proc[m][s] EXCEPT !.pc = "send", !.hash = files[m]]
  <2>1. p \in Proc /\ p.pc = "send" /\ p.op = proc[m][s].op
    BY <1>1 DEF Proc, Pcs
  <2>2. Step(m, s, p)
    BY <1>3
  <2> HIDE DEF p
  <2>3. Fits(gens', p)
    BY <2>1 DEF Fits
  <2>4. ProcsOK'
    BY <1>1, <2>1, <2>2, <2>3, StepKeeps DEF IInv, Grows, Resting
  <2> QED BY <1>1, <2>4, AloneKeeps
<1> QED BY <1>2, <1>3 DEF PushBundle

LEMMA PushSendStep ==
  ASSUME SyncAssumption, IInv, NEW m \in Machine, NEW s \in Procs, PushSend(m, s)
  PROVE  IInv'
<1>1. /\ proc[m][s] \in Proc /\ UNCHANGED <<local, game, lock, gens, late, ver, whole>>
      /\ proc[m][s].pc = "send" /\ journal[m].hash \in Bundle
  BY DEF PushSend, At, service, counts, history, IInv, ProcsOK, DataOK
<1>2. CASE End(m, s, 4)
  <2>1. ProcsOK'
    BY <1>1, <1>2, EndKeeps DEF IInv, Grows
  <2> QED BY <1>1, <2>1, AloneKeeps
<1>3. CASE Step(m, s, [proc[m][s] EXCEPT !.pc = "put", !.head.hash = journal[m].hash])
  <2> DEFINE p == [proc[m][s] EXCEPT !.pc = "put", !.head = [proc[m][s].head EXCEPT !.hash = journal[m].hash]]
  <2>1. [proc[m][s].head EXCEPT !.hash = journal[m].hash] \in HeadRecord
    BY <1>1 DEF Proc, HeadRecord
  <2>2. Step(m, s, p)
    BY <1>3
  <2>3. p \in Proc /\ p.pc = "put" /\ p.op = proc[m][s].op
    BY <1>1, <2>1 DEF Proc, Pcs
  <2> HIDE DEF p
  <2>4. Fits(gens', p)
    BY <2>3 DEF Fits
  <2>5. ProcsOK'
    BY <1>1, <2>2, <2>3, <2>4, StepKeeps DEF IInv, Grows, Resting
  <2> QED BY <1>1, <2>5, AloneKeeps
<1> QED BY <1>2, <1>3 DEF PushSend

\* A push that is not refused is the head when it is answered.
LEMMA ServeGrows ==
  ASSUME SyncAssumption, DataOK, NEW r \in Request, Serve(r)
  PROVE  /\ Grows /\ gens' \in Seq(Bundle) /\ Len(gens') <= MaxGen
         /\ ~Refused(r) => /\ Len(gens') \in 1..MaxGen /\ Len(gens') \in DOMAIN gens'
                           /\ gens'[Len(gens')] = r.body
<1>1. r.body \in Bundle
  BY DEF Request
<1>2. CASE Same(r) \/ Refused(r)
  <2>1. gens' = gens
    BY <1>2 DEF Serve, service
  <2>2. ~Refused(r) => gens # <<>> /\ gens[Len(gens)] = r.body
    BY <1>2 DEF Same, Current
  <2> QED BY <2>1, <2>2 DEF Grows, DataOK, SyncAssumption
<1>3. CASE ~(Same(r) \/ Refused(r))
  <2>1. Len(gens) < MaxGen /\ gens' = Append(gens, r.body)
    BY <1>3 DEF Serve
  <2>2. gens' \in Seq(Bundle) /\ Len(gens') = Len(gens) + 1 /\ gens'[Len(gens')] = r.body
    BY <1>1, <2>1 DEF DataOK
  <2> QED BY <1>1, <2>1, <2>2 DEF Grows, DataOK, SyncAssumption
<1> QED BY <1>2, <1>3

\* Where only the service moves, and commands as they may.
LEMMA ServedKeeps ==
  ASSUME IInv, Grows, gens' \in Seq(Bundle), Len(gens') <= MaxGen, late' \subseteq Request,
         UNCHANGED <<local, game, lock>>, ver' \in 0..MaxVer, whole' \subseteq Bundle, ProcsOK'
  PROVE  IInv'
<1>1. DataOK'
  BY DEF IInv, DataOK, local
<1>2. JournalIsTrue'
  BY JournalStands DEF IInv, local
<1> QED BY <1>1, <1>2 DEF IInv

LEMMA PutType ==
  ASSUME NEW m \in Machine, NEW p \in Proc
  PROVE  Put(m, p) \in Request /\ Put(m, p).body = p.hash
  BY DEF Put, Request, Proc, HeadRecord

LEMMA PutArrivesStep ==
  ASSUME SyncAssumption, IInv, NEW m \in Machine, NEW s \in Procs, PutArrives(m, s)
  PROVE  IInv'
<1> DEFINE r == Put(m, proc[m][s])
<1>1. /\ proc[m][s] \in Proc /\ UNCHANGED <<local, game, lock, late, ver, whole>>
      /\ proc[m][s].pc = "put" /\ Serve(r)
  BY DEF PutArrives, At, counts, history, IInv, ProcsOK
<1>2. r \in Request /\ r.body = proc[m][s].hash
  BY <1>1, PutType
<1> HIDE DEF r
<1>3. /\ Grows /\ gens' \in Seq(Bundle) /\ Len(gens') <= MaxGen
      /\ ~Refused(r) => /\ Len(gens') \in 1..MaxGen /\ Len(gens') \in DOMAIN gens'
                        /\ gens'[Len(gens')] = r.body
  BY <1>1, <1>2, ServeGrows DEF IInv
<1>4. ProcsOK'
  <2>1. CASE End(m, s, 2)
    BY <1>1, <1>3, <2>1, EndKeeps DEF IInv
  <2>2. CASE ~Refused(r) /\ Step(m, s, [proc[m][s] EXCEPT !.pc = "reply", !.head.gen = Len(gens')])
    <3> DEFINE p == [proc[m][s] EXCEPT !.pc = "reply", !.head = [proc[m][s].head EXCEPT !.gen = Len(gens')]]
    <3>1. [proc[m][s].head EXCEPT !.gen = Len(gens')] \in HeadRecord
          /\ [proc[m][s].head EXCEPT !.gen = Len(gens')].gen = Len(gens')
      BY <1>1, <1>3, <2>2 DEF Proc, HeadRecord
    <3>2. Step(m, s, p)
      BY <2>2
    <3>3. /\ p \in Proc /\ p.pc = "reply" /\ p.op = proc[m][s].op /\ p.hash = proc[m][s].hash
          /\ p.head.gen = Len(gens')
      BY <1>1, <3>1 DEF Proc, Pcs
    <3> HIDE DEF p
    <3>4. Fits(gens', p)
      BY <1>2, <1>3, <2>2, <3>3 DEF Fits, Of
    <3> QED BY <1>1, <1>3, <3>2, <3>3, <3>4, StepKeeps DEF IInv, Resting
  <2> QED BY <2>1, <2>2 DEF PutArrives, r
<1>5. ver' \in 0..MaxVer /\ whole' \subseteq Bundle /\ late' \subseteq Request
  BY <1>1 DEF IInv, DataOK
<1> QED BY <1>1, <1>3, <1>4, <1>5, ServedKeeps

LEMMA PutLostStep ==
  ASSUME SyncAssumption, IInv, NEW m \in Machine, NEW s \in Procs, PutLost(m, s)
  PROVE  IInv'
<1>1. /\ proc[m][s] \in Proc /\ UNCHANGED <<local, game, lock, gens, ver, whole>>
      /\ End(m, s, 1) /\ late' \in {late, late \cup {Put(m, proc[m][s])}}
  BY DEF PutLost, service, history, IInv, ProcsOK
<1>2. ProcsOK'
  BY <1>1, EndKeeps DEF IInv, Grows
<1>3. late' \subseteq Request /\ ver' \in 0..MaxVer /\ whole' \subseteq Bundle
      /\ gens' \in Seq(Bundle) /\ Len(gens') <= MaxGen
  BY <1>1, PutType DEF IInv, DataOK
<1> QED BY <1>1, <1>2, <1>3, ServedKeeps DEF Grows

\* The commands go on as they were while the service moves.
LEMMA WaitKeeps ==
  ASSUME DataOK, ProcsOK, Grows, proc' = proc, lock' = lock
  PROVE  ProcsOK'
  BY FitsStands DEF ProcsOK

LEMMA PutArrivesLateStep ==
  ASSUME SyncAssumption, IInv, NEW r \in late, PutArrivesLate(r)
  PROVE  IInv'
<1>1. /\ r \in Request /\ Serve(r) /\ late' = late \ {r}
      /\ UNCHANGED <<local, game, lock, proc, ver, whole>>
  BY DEF PutArrivesLate, counts, history, IInv, DataOK
<1>2. Grows /\ gens' \in Seq(Bundle) /\ Len(gens') <= MaxGen
  BY <1>1, ServeGrows DEF IInv
<1>3. ProcsOK'
  BY <1>1, <1>2, WaitKeeps DEF IInv
<1>4. late' \subseteq Request /\ ver' \in 0..MaxVer /\ whole' \subseteq Bundle
  BY <1>1 DEF IInv, DataOK
<1> QED BY <1>1, <1>2, <1>3, <1>4, ServedKeeps

\* Where a command ends and its journal moves to what it knew.
LEMMA RecordKeeps ==
  ASSUME SyncAssumption, IInv, NEW m \in Machine, NEW s \in Procs, End(m, s, 0),
         NEW j \in [gen : 0..MaxGen, hash : Bundle, pushed : Bundle], Of(gens, j.gen, j.hash),
         journal' = [journal EXCEPT ![m] = j],
         UNCHANGED <<files, archives, game, lock, gens, late, ver, whole>>
  PROVE  IInv'
<1>1. ProcsOK'
  BY EndKeeps DEF IInv, Grows
<1>2. JournalIsTrue' /\ journal' \in [Machine -> [gen : 0..MaxGen, hash : Bundle, pushed : Bundle]]
  BY JournalMoves DEF IInv
<1>3. DataOK'
  BY <1>2 DEF IInv, DataOK
<1> QED BY <1>1, <1>2, <1>3 DEF IInv

LEMMA PushReplyStep ==
  ASSUME SyncAssumption, IInv, NEW m \in Machine, NEW s \in Procs, PushReply(m, s)
  PROVE  IInv'
<1> DEFINE p == proc[m][s]
           j == [gen |-> p.head.gen, hash |-> p.hash, pushed |-> p.hash]
<1>1. /\ p \in Proc /\ UNCHANGED <<files, archives, game, lock, gens, late, ver, whole>>
      /\ End(m, s, 0) /\ journal' = [journal EXCEPT ![m] = j] /\ p.pc = "reply"
  BY DEF PushReply, At, service, counts, history, IInv, ProcsOK
<1>2. Of(gens, p.head.gen, p.hash)
  BY <1>1 DEF IInv, ProcsOK, Fits
<1>3. j \in [gen : 0..MaxGen, hash : Bundle, pushed : Bundle]
  BY <1>1 DEF Proc, HeadRecord
<1> QED BY <1>1, <1>2, <1>3, RecordKeeps

-----------------------------------------------------------------------------
(* A pull *)

\* A command that takes note of the head.
LEMMA NoteKeeps ==
  ASSUME SyncAssumption, IInv, NEW m \in Machine, NEW s \in Procs,
         NEW pc \in {"compare", "place", "record"}, NEW todo \in SUBSET File,
         Step(m, s, [proc[m][s] EXCEPT !.pc = pc, !.head = Current, !.todo = todo]),
         proc[m][s].pc \notin Resting,
         UNCHANGED <<local, game, lock, gens, late, ver, whole>>
  PROVE  IInv'
<1> DEFINE p == [proc[m][s] EXCEPT !.pc = pc, !.head = Current, !.todo = todo]
<1>1. proc[m][s] \in Proc /\ Current \in HeadRecord /\ Of(gens, Current.gen, Current.hash)
  BY CurrentType DEF IInv, ProcsOK
<1>2. p \in Proc /\ p.pc = pc /\ p.op = proc[m][s].op /\ p.head = Current
  BY <1>1 DEF Proc, Pcs
<1>3. Step(m, s, p)
  OBVIOUS
<1> HIDE DEF p
<1>4. Fits(gens', p)
  BY <1>1, <1>2 DEF Fits
<1>5. ProcsOK'
  BY <1>2, <1>3, <1>4, StepKeeps DEF IInv, Grows
<1> QED BY <1>5, AloneKeeps

LEMMA PullMetaStep ==
  ASSUME SyncAssumption, IInv, NEW m \in Machine, NEW s \in Procs, PullMeta(m, s) \/ Agree(m, s)
  PROVE  IInv'
<1>1. /\ proc[m][s] \in Proc /\ UNCHANGED <<local, game, lock, gens, late, ver, whole>>
      /\ proc[m][s].pc \notin Resting
  BY DEF PullMeta, Agree, At, service, counts, history, IInv, ProcsOK, Resting
<1>2. CASE End(m, s, 0)
  <2>1. ProcsOK'
    BY <1>1, <1>2, EndKeeps DEF IInv, Grows
  <2> QED BY <1>1, <2>1, AloneKeeps
<1>3. CASE \E pc \in {"compare", "record"} : Step(m, s, [proc[m][s] EXCEPT !.pc = pc, !.head = Current])
  <2>1. PICK pc \in {"compare", "record"} : Step(m, s, [proc[m][s] EXCEPT !.pc = pc, !.head = Current])
    BY <1>3
  <2>2. proc[m][s].todo \in SUBSET File
    BY <1>1 DEF Proc
  <2>3. [proc[m][s] EXCEPT !.pc = pc, !.head = Current]
          = [proc[m][s] EXCEPT !.pc = pc, !.head = Current, !.todo = proc[m][s].todo]
    BY <1>1 DEF Proc
  <2>4. Step(m, s, [proc[m][s] EXCEPT !.pc = pc, !.head = Current, !.todo = proc[m][s].todo])
    BY <2>1, <2>3
  <2> QED BY <1>1, <2>2, <2>4, NoteKeeps
<1> QED BY <1>2, <1>3 DEF PullMeta, Agree

LEMMA PullFetchStep ==
  ASSUME SyncAssumption, IInv, NEW m \in Machine, NEW s \in Procs, PullFetch(m, s)
  PROVE  IInv'
<1> DEFINE todo == {f \in File : Current.hash[f] # 0}
<1>1. /\ UNCHANGED <<local, game, lock, gens, late, ver, whole>> /\ proc[m][s].pc \notin Resting
      /\ Step(m, s, [proc[m][s] EXCEPT !.pc = "place", !.head = Current, !.todo = todo])
  BY DEF PullFetch, At, service, counts, history, Resting
<1>2. todo \in SUBSET File
  OBVIOUS
<1> HIDE DEF todo
<1> QED BY <1>1, <1>2, NoteKeeps

LEMMA PullCompareStep ==
  ASSUME SyncAssumption, IInv, NEW m \in Machine, NEW s \in Procs, PullCompare(m, s)
  PROVE  IInv'
<1> DEFINE head == proc[m][s].head
<1>1. /\ proc[m][s] \in Proc /\ UNCHANGED <<files, archives, game, lock, gens, late, ver, whole>>
      /\ proc[m][s].pc = "compare"
  BY DEF PullCompare, At, service, counts, history, IInv, ProcsOK
<1>2. CASE Enter(m, s, "snapshot") /\ UNCHANGED journal
  <2>1. ProcsOK'
    BY <1>1, <1>2, EnterKeeps DEF IInv, Grows, Resting, Blank
  <2> QED BY <1>1, <1>2, <2>1, AloneKeeps DEF local
<1>3. CASE /\ End(m, s, 0)
           /\ journal' = [journal EXCEPT ![m].gen = head.gen, ![m].hash = head.hash]
  <2> DEFINE j == [journal[m] EXCEPT !.gen = head.gen, !.hash = head.hash]
  <2>1. Of(gens, head.gen, head.hash)
    BY <1>1 DEF IInv, ProcsOK, Fits
  <2>2. head.gen \in 0..MaxGen /\ head.hash \in Bundle
    BY <1>1 DEF Proc, HeadRecord
  <2> HIDE DEF head
  <2>3. journal \in [Machine -> [gen : 0..MaxGen, hash : Bundle, pushed : Bundle]]
    BY DEF IInv, DataOK
  <2>4. /\ j \in [gen : 0..MaxGen, hash : Bundle, pushed : Bundle]
        /\ j.gen = head.gen /\ j.hash = head.hash
    BY <2>2, <2>3
  <2>5. journal' = [journal EXCEPT ![m] = j]
    BY <1>3, <2>3
  <2> QED BY <1>1, <1>3, <2>1, <2>4, <2>5, RecordKeeps
<1> QED BY <1>2, <1>3 DEF PullCompare

LEMMA ArchivedType ==
  ASSUME SyncAssumption, NEW a \in Seq(Bundle), NEW b \in Bundle
  PROVE  Archived(a, b) \in Seq(Bundle) /\ Len(Archived(a, b)) <= LocalKeep
<1> DEFINE all == Append(a, b)
<1>1. all \in Seq(Bundle) /\ Len(all) \in Nat
  OBVIOUS
<1>2. LocalKeep \in Nat \ {0}
  BY DEF SyncAssumption
<1> HIDE DEF all
<1>3. CASE Len(all) <= LocalKeep
  BY <1>1, <1>3 DEF Archived, all
<1>4. CASE Len(all) > LocalKeep
  <2>1. Archived(a, b) = SubSeq(all, Len(all) - LocalKeep + 1, Len(all))
    <3>1. ~(Len(all) <= LocalKeep)
      BY <1>1, <1>2, <1>4
    <3> QED BY <3>1 DEF Archived, all
  <2>2. /\ SubSeq(all, Len(all) - LocalKeep + 1, Len(all)) \in Seq(Bundle)
        /\ Len(SubSeq(all, Len(all) - LocalKeep + 1, Len(all))) = LocalKeep
    <3> DEFINE m == Len(all) - LocalKeep + 1
    <3>1. m \in Int /\ 1 <= m /\ m <= Len(all) /\ Len(all) - m + 1 = LocalKeep
      BY <1>1, <1>2, <1>4
    <3>2. \A i \in m..Len(all) : all[i] \in Bundle
      BY <1>1, <3>1
    <3> HIDE DEF m
    <3>3. /\ SubSeq(all, m, Len(all)) \in Seq(Bundle)
          /\ Len(SubSeq(all, m, Len(all))) = IF m <= Len(all) THEN Len(all) - m + 1 ELSE 0
      BY <1>1, <3>1, <3>2, SubSeqProperties
    <3>4. Len(SubSeq(all, m, Len(all))) = LocalKeep
      BY <3>1, <3>3
    <3> QED BY <3>3, <3>4 DEF m
  <2>3. Archived(a, b) \in Seq(Bundle)
    BY <2>1, <2>2
  <2>4. Len(Archived(a, b)) = LocalKeep
    BY <2>1, <2>2, Zenon
  <2>5. Len(Archived(a, b)) <= LocalKeep
    BY <1>2, <2>4
  <2> QED BY <2>3, <2>5
<1> QED BY <1>1, <1>2, <1>3, <1>4

LEMMA SnapshotStep ==
  ASSUME SyncAssumption, IInv, NEW m \in Machine, NEW s \in Procs, Snapshot(m, s)
  PROVE  IInv'
<1> DEFINE pc == IF proc[m][s].op = "restore" THEN "remove" ELSE "fetch"
           p == [proc[m][s] EXCEPT !.pc = pc]
<1>1. /\ proc[m][s] \in Proc /\ UNCHANGED <<files, journal, game, lock, gens, late, ver, whole>>
      /\ proc[m][s].pc = "snapshot" /\ Step(m, s, p)
  BY DEF Snapshot, Goto, At, service, counts, history, IInv, ProcsOK
<1>2. p \in Proc /\ p.pc = pc /\ p.op = proc[m][s].op
  BY <1>1 DEF Proc, Pcs
<1>3. Fits(gens', p)
  BY <1>2 DEF Fits
<1> HIDE DEF p, pc
<1>4. ProcsOK'
  BY <1>1, <1>2, <1>3, StepKeeps DEF IInv, Grows, Resting
<1>5. archives \in [Machine -> Seq(Bundle)] /\ files[m] \in Bundle
  BY DEF IInv, DataOK
<1>6. archives' = [archives EXCEPT ![m] = IF files[m] = Empty THEN archives[m] ELSE Archived(archives[m], files[m])]
  BY DEF Snapshot
<1>7. archives' \in [Machine -> Seq(Bundle)] /\ \A n \in Machine : Len(archives'[n]) <= LocalKeep
  BY <1>5, <1>6, ArchivedType DEF IInv, DataOK
<1>8. DataOK'
  BY <1>1, <1>7 DEF IInv, DataOK
<1>9. JournalIsTrue'
  BY <1>1, JournalStands DEF IInv, Grows
<1> QED BY <1>4, <1>8, <1>9 DEF IInv

\* What is here is written to, the journal and the service are not.
LEMMA WriteKeeps ==
  ASSUME IInv, UNCHANGED <<journal, archives, game, lock, gens, late>>, files' \in [Machine -> Bundle],
         ver' \in 0..MaxVer, whole' \subseteq Bundle, ProcsOK'
  PROVE  IInv'
<1>1. DataOK'
  BY DEF IInv, DataOK
<1>2. JournalIsTrue'
  BY JournalStands DEF IInv, Grows
<1> QED BY <1>1, <1>2 DEF IInv

\* A step at the placing that leaves the files to place.
LEMMA PlacingKeeps ==
  ASSUME SyncAssumption, IInv, NEW m \in Machine, NEW s \in Procs, proc[m][s].pc = "place",
         NEW todo \in SUBSET File, Step(m, s, [proc[m][s] EXCEPT !.todo = todo]),
         UNCHANGED <<gens, lock>>
  PROVE  ProcsOK'
<1> DEFINE p == [proc[m][s] EXCEPT !.todo = todo]
<1>1. proc[m][s] \in Proc /\ Fits(gens, proc[m][s])
  BY DEF IInv, ProcsOK
<1>2. p \in Proc /\ p.pc = "place" /\ p.op = proc[m][s].op /\ p.head = proc[m][s].head
  BY <1>1 DEF Proc
<1>3. Step(m, s, p)
  OBVIOUS
<1> HIDE DEF p
<1>4. Fits(gens', p)
  BY <1>1, <1>2 DEF Fits
<1> QED BY <1>2, <1>3, <1>4, StepKeeps DEF IInv, Grows, Resting

LEMMA PlaceStep ==
  ASSUME SyncAssumption, IInv, NEW m \in Machine, NEW s \in Procs, Place(m, s)
  PROVE  IInv'
<1>1. /\ proc[m][s] \in Proc /\ UNCHANGED <<journal, archives, game, lock, gens, late, ver>>
      /\ proc[m][s].pc = "place"
  BY DEF Place, At, service, counts, IInv, ProcsOK
<1>2. PICK f \in proc[m][s].todo :
        /\ files' = [files EXCEPT ![m][f] = proc[m][s].head.hash[f]]
        /\ Step(m, s, [proc[m][s] EXCEPT !.todo = @ \ {f}])
        /\ whole' = IF Has(files'[m], proc[m][s].head.hash) THEN whole \cup {files'[m]} ELSE whole
  BY DEF Place
<1>3. f \in File /\ proc[m][s].head.hash \in Bundle /\ proc[m][s].todo \ {f} \in SUBSET File
  BY <1>1, <1>2 DEF Proc, HeadRecord
<1>4. proc[m][s].head.hash[f] \in 0..MaxVer /\ files \in [Machine -> [File -> 0..MaxVer]]
  BY <1>3 DEF Bundle, IInv, DataOK
<1>5. files' \in [Machine -> Bundle]
  BY <1>2, <1>3, <1>4 DEF Bundle
<1>6. whole' \subseteq Bundle
  BY <1>2, <1>5 DEF IInv, DataOK
<1>7. ProcsOK'
  BY <1>1, <1>2, <1>3, PlacingKeeps
<1> QED BY <1>1, <1>5, <1>6, <1>7, WriteKeeps DEF IInv, DataOK

LEMMA PullDoneStep ==
  ASSUME SyncAssumption, IInv, NEW m \in Machine, NEW s \in Procs, PullDone(m, s)
  PROVE  IInv'
<1> DEFINE p == proc[m][s]
           j == [gen |-> p.head.gen, hash |-> p.head.hash, pushed |-> p.head.hash]
<1>1. /\ p \in Proc /\ UNCHANGED <<files, archives, game, lock, gens, late, ver, whole>>
      /\ End(m, s, 0) /\ journal' = [journal EXCEPT ![m] = j] /\ p.pc = "place" /\ p.op # "restore"
  BY DEF PullDone, At, service, counts, IInv, ProcsOK
<1>2. Of(gens, p.head.gen, p.head.hash)
  BY <1>1 DEF IInv, ProcsOK, Fits
<1>3. j \in [gen : 0..MaxGen, hash : Bundle, pushed : Bundle]
  BY <1>1 DEF Proc, HeadRecord
<1> QED BY <1>1, <1>2, <1>3, RecordKeeps

LEMMA UnansweredStep ==
  ASSUME SyncAssumption, IInv, NEW m \in Machine, NEW s \in Procs, Unanswered(m, s)
  PROVE  IInv'
<1>1. /\ UNCHANGED <<local, game, lock, gens, late, ver, whole>> /\ \E rc \in Nat : End(m, s, rc)
  BY DEF Unanswered, service, history
<1>2. ProcsOK'
  BY <1>1, EndKeeps DEF IInv, Grows
<1> QED BY <1>1, <1>2, AloneKeeps

-----------------------------------------------------------------------------
(* Putting one save back *)

LEMMA ChooseStep ==
  ASSUME SyncAssumption, IInv, NEW m \in Machine, NEW s \in Procs, Choose(m, s)
  PROVE  IInv'
<1>1. /\ proc[m][s] \in Proc /\ UNCHANGED <<local, game, lock, gens, late, ver, whole>>
      /\ proc[m][s].pc = "choose"
  BY DEF Choose, At, service, counts, IInv, ProcsOK
<1>2. PICK b \in {gens[i] : i \in Kept} \cup {archives[m][i] : i \in DOMAIN archives[m]} :
        Step(m, s, [proc[m][s] EXCEPT
         !.pc = IF files[m] = b THEN "agree" ELSE "snapshot",
         !.hash = files[m], !.head.hash = b,
         !.todo = {f \in File : b[f] # 0}])
  BY DEF Choose
<1>3. b \in Bundle
  <2>1. gens \in Seq(Bundle) /\ archives[m] \in Seq(Bundle)
    BY DEF IInv, DataOK
  <2> QED BY <1>2, <2>1 DEF Kept
<1> DEFINE pc == IF files[m] = b THEN "agree" ELSE "snapshot"
           todo == {f \in File : b[f] # 0}
           head == [proc[m][s].head EXCEPT !.hash = b]
           p == [proc[m][s] EXCEPT !.pc = pc, !.hash = files[m], !.head = head, !.todo = todo]
<1>4. pc \in {"agree", "snapshot"} /\ todo \in SUBSET File /\ files[m] \in Bundle
  BY DEF IInv, DataOK
<1>5. head \in HeadRecord
  BY <1>1, <1>3 DEF Proc, HeadRecord
<1>6. Step(m, s, p)
  BY <1>2
<1> HIDE DEF pc, todo, head
<1>7. p \in Proc /\ p.pc = pc /\ p.op = proc[m][s].op
  BY <1>1, <1>4, <1>5 DEF Proc, Pcs
<1> HIDE DEF p
<1>8. Fits(gens', p)
  BY <1>4, <1>7 DEF Fits
<1>9. ProcsOK'
  BY <1>1, <1>6, <1>7, <1>8, StepKeeps DEF IInv, Grows, Resting
<1> QED BY <1>1, <1>9, AloneKeeps

LEMMA RemoveStep ==
  ASSUME SyncAssumption, IInv, NEW m \in Machine, NEW s \in Procs, Remove(m, s)
  PROVE  IInv'
<1> DEFINE p == [proc[m][s] EXCEPT !.pc = "place"]
<1>1. /\ proc[m][s] \in Proc /\ UNCHANGED <<journal, archives, game, lock, gens, late, ver, whole>>
      /\ proc[m][s].pc = "remove" /\ proc[m][s].op = "restore" /\ Step(m, s, p)
  BY DEF Remove, Goto, At, service, counts, history, IInv, ProcsOK, Fits
<1>2. p \in Proc /\ p.pc = "place" /\ p.op = "restore"
  BY <1>1 DEF Proc, Pcs
<1> HIDE DEF p
<1>3. Fits(gens', p)
  BY <1>2 DEF Fits
<1>4. ProcsOK'
  BY <1>1, <1>2, <1>3, StepKeeps DEF IInv, Grows, Resting
<1>5. PICK since \in SUBSET File :
        files' = [files EXCEPT ![m] = [f \in File |-> IF f \in since THEN 0 ELSE files[m][f]]]
  BY DEF Remove
<1>6. [f \in File |-> IF f \in since THEN 0 ELSE files[m][f]] \in Bundle
  BY DEF Bundle, IInv, DataOK, SyncAssumption
<1>7. files' \in [Machine -> Bundle]
  BY <1>5, <1>6 DEF IInv, DataOK
<1> QED BY <1>1, <1>4, <1>7, WriteKeeps DEF IInv, DataOK

LEMMA PlacedStep ==
  ASSUME SyncAssumption, IInv, NEW m \in Machine, NEW s \in Procs, Placed(m, s)
  PROVE  IInv'
<1>1. /\ UNCHANGED <<local, game, lock, gens, late, ver, whole>> /\ proc[m][s].pc = "place"
      /\ Enter(m, s, "agree")
  BY DEF Placed, At, service, counts
<1>2. ProcsOK'
  BY <1>1, EnterKeeps DEF IInv, Grows, Resting, Blank
<1> QED BY <1>1, <1>2, AloneKeeps

LEMMA RecordAgreedStep ==
  ASSUME SyncAssumption, IInv, NEW m \in Machine, NEW s \in Procs, RecordAgreed(m, s)
  PROVE  IInv'
<1> DEFINE p == proc[m][s]
           j == [gen |-> p.head.gen, hash |-> p.head.hash, pushed |-> Empty]
<1>1. /\ p \in Proc /\ UNCHANGED <<files, archives, game, lock, gens, late, ver, whole>>
      /\ End(m, s, 0) /\ journal' = [journal EXCEPT ![m] = j] /\ p.pc = "record"
  BY DEF RecordAgreed, At, service, counts, history, IInv, ProcsOK
<1>2. Of(gens, p.head.gen, p.head.hash)
  BY <1>1 DEF IInv, ProcsOK, Fits
<1>3. j \in [gen : 0..MaxGen, hash : Bundle, pushed : Bundle]
  BY <1>1, Types DEF Proc, HeadRecord
<1> QED BY <1>1, <1>2, <1>3, RecordKeeps

-----------------------------------------------------------------------------
(* Faults, the game and the watcher *)

LEMMA BrokenStep ==
  ASSUME SyncAssumption, IInv, NEW m \in Machine, NEW s \in Procs, Broken(m, s) \/ Kill(m, s)
  PROVE  IInv'
<1>1. proc[m][s] \in Proc /\ UNCHANGED <<local, game, lock, gens, late, ver, whole>>
  BY DEF Broken, Kill, service, history, IInv, ProcsOK
<1>2. CASE End(m, s, 1)
  <2>1. ProcsOK'
    BY <1>1, <1>2, EndKeeps DEF IInv, Grows
  <2> QED BY <1>1, <2>1, AloneKeeps
<1>3. CASE proc[m][s].pc = "snapshot" /\ Goto(m, s, "fetch")
  <2> DEFINE p == [proc[m][s] EXCEPT !.pc = "fetch"]
  <2>1. p \in Proc /\ p.pc = "fetch" /\ p.op = proc[m][s].op /\ Step(m, s, p)
    BY <1>1, <1>3 DEF Proc, Pcs, Goto
  <2> HIDE DEF p
  <2>2. Fits(gens', p)
    BY <2>1 DEF Fits
  <2>3. ProcsOK'
    BY <1>1, <1>3, <2>1, <2>2, StepKeeps DEF IInv, Grows, Resting
  <2> QED BY <1>1, <2>3, AloneKeeps
<1>4. CASE proc[m][s].pc = "place" /\ \E f \in proc[m][s].todo : Step(m, s, [proc[m][s] EXCEPT !.todo = @ \ {f}])
  <2>1. PICK f \in proc[m][s].todo : Step(m, s, [proc[m][s] EXCEPT !.todo = @ \ {f}])
    BY <1>4
  <2>2. proc[m][s].todo \ {f} \in SUBSET File
    BY <1>1 DEF Proc
  <2>3. ProcsOK'
    BY <1>1, <1>4, <2>1, <2>2, PlacingKeeps
  <2> QED BY <1>1, <2>3, AloneKeeps
<1> QED BY <1>2, <1>3, <1>4 DEF Broken, Kill, At

LEMMA GameWritesStep ==
  ASSUME SyncAssumption, IInv, NEW m \in Machine, GameWrites(m)
  PROVE  IInv'
<1>1. /\ UNCHANGED <<journal, archives, game, lock, proc, gens, late>>
      /\ ver < MaxVer /\ ver' = ver + 1 /\ whole' = whole \cup {files'[m]}
  BY DEF GameWrites, service
<1>2. ver' \in 0..MaxVer
  BY <1>1 DEF IInv, DataOK, SyncAssumption
<1>3. PICK f \in File : files' = [files EXCEPT ![m][f] = ver']
  BY DEF GameWrites
<1>4. files \in [Machine -> [File -> 0..MaxVer]]
  BY DEF Bundle, IInv, DataOK
<1>5. files' \in [Machine -> Bundle]
  BY <1>2, <1>3, <1>4 DEF Bundle
<1>6. whole' \subseteq Bundle
  BY <1>1, <1>5 DEF IInv, DataOK
<1>7. ProcsOK'
  BY <1>1, WaitKeeps DEF IInv, Grows
<1> QED BY <1>1, <1>2, <1>5, <1>6, <1>7, WriteKeeps

LEMMA GameStep ==
  ASSUME SyncAssumption, IInv, NEW m \in Machine, GameStops(m) \/ GameResumes(m)
  PROVE  IInv'
<1>1. /\ UNCHANGED <<local, lock, proc, gens, late, ver, whole>>
      /\ \E g \in {"off", "on", "paused"} : game' = [game EXCEPT ![m] = g]
  BY DEF GameStops, GameResumes, service, counts, history
<1>2. DataOK'
  BY <1>1 DEF IInv, DataOK, local
<1>3. ProcsOK'
  BY <1>1, WaitKeeps DEF IInv, Grows
<1>4. JournalIsTrue'
  BY <1>1, JournalStands DEF IInv, Grows, local
<1> QED BY <1>2, <1>3, <1>4 DEF IInv

LEMMA TickStep ==
  ASSUME SyncAssumption, IInv, NEW m \in Machine, Tick(m)
  PROVE  IInv'
<1>1. UNCHANGED <<local, game, lock, gens, late, ver, whole>>
  BY DEF Tick, service, counts, history
<1>2. PICK pc \in {"lock", "done"} : Step(m, Watch, [IdleProc EXCEPT !.pc = pc, !.op = "tick"])
  BY DEF Tick
<1> DEFINE p == [IdleProc EXCEPT !.pc = pc, !.op = "tick"]
<1>3. p \in Proc /\ p.pc = pc /\ Step(m, Watch, p) /\ Watch \in Procs
  BY <1>2, Types DEF Proc, Pcs, AllOps
<1> HIDE DEF p
<1>4. Fits(gens', p) /\ ~Locked(p)
  BY <1>3 DEF Fits, Locked, Resting
<1>5. ProcsOK'
  BY <1>1, <1>3, <1>4, MoveKeeps DEF IInv, Grows
<1> QED BY <1>1, <1>5, AloneKeeps

LEMMA ElsewhereStep ==
  ASSUME SyncAssumption, IInv, Elsewhere
  PROVE  IInv'
<1>1. /\ UNCHANGED <<local, game, lock, proc, late>> /\ ver < MaxVer /\ ver' = ver + 1 /\ Len(gens) < MaxGen
  BY DEF Elsewhere
<1>2. ver' \in 0..MaxVer
  BY <1>1 DEF IInv, DataOK, SyncAssumption
<1>3. PICK b \in {[f \in File |-> ver']} \cup {[Current.hash EXCEPT ![f] = ver'] : f \in File} :
        gens' = Append(gens, b) /\ whole' = whole \cup {b}
  BY DEF Elsewhere
<1>4. Current.hash \in [File -> 0..MaxVer]
  BY CurrentType DEF IInv, HeadRecord, Bundle
<1>5. b \in Bundle
  BY <1>2, <1>3, <1>4 DEF Bundle
<1>6. Grows /\ gens' \in Seq(Bundle) /\ Len(gens') <= MaxGen /\ whole' \subseteq Bundle
  BY <1>1, <1>3, <1>5 DEF Grows, IInv, DataOK, SyncAssumption
<1>7. ProcsOK'
  BY <1>1, <1>6, WaitKeeps DEF IInv
<1>8. late' \subseteq Request
  BY <1>1 DEF IInv, DataOK
<1> QED BY <1>1, <1>2, <1>6, <1>7, <1>8, ServedKeeps

-----------------------------------------------------------------------------
(* The theorems *)

LEMMA InitIInv == SyncAssumption /\ Init => IInv
<1> SUFFICES ASSUME SyncAssumption, Init PROVE IInv
  OBVIOUS
<1>1. DataOK
  BY Types DEF Init, DataOK, SyncAssumption
<1>2. IdleProc \in Proc /\ IdleProc.pc = "idle"
  BY Types DEF IdleProc
<1>3. ProcsOK
  BY <1>2 DEF Init, ProcsOK, Fits, Locked, Resting
<1>4. JournalIsTrue
  BY DEF Init, JournalIsTrue
<1> QED BY <1>1, <1>3, <1>4 DEF IInv

LEMMA NextInv == SyncAssumption /\ IInv /\ [Next]_vars => IInv'
<1> SUFFICES ASSUME SyncAssumption, IInv, [Next]_vars PROVE IInv'
  OBVIOUS
<1>1. CASE UNCHANGED vars
  <2>1. ProcsOK'
    BY <1>1, WaitKeeps DEF vars, IInv, Grows
  <2> QED BY <1>1, <2>1, AloneKeeps DEF vars, local
<1>2. CASE \E m \in Machine, s \in Procs : Command(m, s)
  BY <1>2, TakeLockStep, LookStep, CompareStep, EndedStep, PushBundleStep, PushSendStep, PutArrivesStep,
     PushReplyStep, PullMetaStep, PullCompareStep, SnapshotStep, PullFetchStep, PlaceStep, PullDoneStep,
     ChooseStep, RemoveStep, PlacedStep, RecordAgreedStep DEF Command
<1>3. CASE \E m \in Machine, s \in Procs : Faults(m, s)
  BY <1>3, PutLostStep, UnansweredStep, BrokenStep DEF Faults
<1> QED BY <1>1, <1>2, <1>3, StartStep, GameWritesStep, GameStep, TickStep, PutArrivesLateStep,
           ElsewhereStep DEF Next

LEMMA IInvHolds == Spec => []IInv
<1>1. Init => IInv
  BY SyncAssumption, InitIInv
<1>2. IInv /\ [Next]_vars => IInv'
  BY SyncAssumption, NextInv
<1> QED BY <1>1, <1>2, PTL DEF Spec

\* Type correctness of the files, journals, archives, commands and generations
\* (saves.sh, saves-sync.sh, saves-history.sh).
THEOREM TypeCorrect == Spec => []TypeOK
<1>1. IInv => TypeOK
  BY DEF IInv, DataOK, ProcsOK, Proc, Pcs, HeadRecord, TypeOK
<1> QED BY <1>1, IInvHolds, PTL

\* A journal's base is a generation the service has, with its hash, whatever
\* commands ran beside each other and whatever was lost, killed or broken
\* (saves-sync.sh, saves-history.sh: every write of the journal).
THEOREM JournalAlwaysTrue == Spec => []JournalIsTrue
<1>1. IInv => JournalIsTrue
  BY DEF IInv
<1> QED BY <1>1, IInvHolds, PTL

\* Of a machine's syncs and watcher's pushes, one is past the lock at a time.
SyncsExclude ==
  \A m \in Machine, s, t \in Procs : Locked(proc[m][s]) /\ Locked(proc[m][t]) => s = t

\* with_lock lets one sync or watcher's push of a machine through at a time,
\* killed ones and launches that start a watcher included (common.sh with_lock).
THEOREM OneSyncAtATime == Spec => []SyncsExclude
<1>1. IInv => SyncsExclude
  BY DEF IInv, ProcsOK, SyncsExclude
<1> QED BY <1>1, IInvHolds, PTL

-----------------------------------------------------------------------------
(* Steps, field by field *)

OthersStand(m, s) == \A n \in Machine, t \in Procs : n # m \/ t # s => proc'[n][t] = proc[n][t]

LEMMA StepDoes ==
  ASSUME IInv, NEW m \in Machine, NEW s \in Procs, NEW p, Step(m, s, p)
  PROVE  OthersStand(m, s) /\ proc'[m][s] = p
  BY DEF Step, OthersStand, IInv, ProcsOK

LEMMA EndDoes ==
  ASSUME IInv, NEW m \in Machine, NEW s \in Procs, NEW rc, End(m, s, rc)
  PROVE  /\ OthersStand(m, s) /\ proc'[m][s].pc = "ended" /\ proc'[m][s].op = proc[m][s].op
         /\ proc'[m][s].rc = rc
<1> DEFINE p == [IdleProc EXCEPT !.pc = "ended", !.op = proc[m][s].op, !.rc = rc]
<1>1. p.pc = "ended" /\ p.op = proc[m][s].op /\ p.rc = rc
  BY DEF IdleProc
<1>2. Step(m, s, p)
  BY DEF End
<1> HIDE DEF p
<1> QED BY <1>1, <1>2, StepDoes

LEMMA EnterDoes ==
  ASSUME IInv, NEW m \in Machine, NEW s \in Procs, NEW pc, Enter(m, s, pc)
  PROVE  /\ OthersStand(m, s) /\ proc'[m][s].pc = pc /\ proc'[m][s].op = proc[m][s].op
         /\ proc'[m][s].rc = 0
<1> DEFINE p == [IdleProc EXCEPT !.pc = pc, !.op = proc[m][s].op]
<1>1. p.pc = pc /\ p.op = proc[m][s].op /\ p.rc = 0
  BY DEF IdleProc
<1>2. Step(m, s, p)
  BY DEF Enter
<1> HIDE DEF p
<1> QED BY <1>1, <1>2, StepDoes

LEMMA GotoDoes ==
  ASSUME IInv, NEW m \in Machine, NEW s \in Procs, NEW pc, Goto(m, s, pc)
  PROVE  /\ OthersStand(m, s) /\ proc'[m][s].pc = pc /\ proc'[m][s].op = proc[m][s].op
         /\ proc'[m][s].hash = proc[m][s].hash /\ proc'[m][s].head = proc[m][s].head
         /\ proc'[m][s].todo = proc[m][s].todo /\ proc'[m][s].rc = proc[m][s].rc
         /\ proc'[m][s].changed = proc[m][s].changed
<1>1. proc[m][s] \in Proc
  BY DEF IInv, ProcsOK
<1> QED BY <1>1, StepDoes DEF Goto, Proc

LEMMA StartDoes ==
  ASSUME IInv, NEW m \in Machine, NEW s \in Slot, NEW op \in Ops, Start(m, s, op)
  PROVE  /\ OthersStand(m, s) /\ proc'[m][s].op = op /\ proc'[m][s].pc = FirstStep[op] /\ proc'[m][s].rc = 0
         /\ proc[m][s].pc = "idle"
         /\ asked' = IF op \in Asked THEN asked + 1 ELSE asked
         /\ UNCHANGED <<files, journal, archives, game, lock, watch, gens, by, late, ver, lost, killed,
                        broken, whole, chosen>>
<1>1. s \in Procs
  BY Types, SyncAssumption
<1> DEFINE p == [IdleProc EXCEPT !.pc = FirstStep[op], !.op = op]
<1>2. p.pc = FirstStep[op] /\ p.op = op /\ p.rc = 0
  BY DEF IdleProc
<1>3. Step(m, s, p)
  BY DEF Start
<1> HIDE DEF p
<1>4. /\ proc[m][s].pc = "idle"
      /\ asked' = IF op \in Asked THEN asked + 1 ELSE asked
      /\ UNCHANGED <<files, journal, archives, game, lock, watch, gens, by, late, ver, lost, killed,
                     broken, whole, chosen>>
  BY DEF Start, At, local, service, history
<1> QED BY <1>1, <1>2, <1>3, <1>4, StepDoes

LEMMA LookDoes ==
  ASSUME IInv, NEW m \in Machine, NEW s \in Procs, Look(m, s)
  PROVE  /\ OthersStand(m, s) /\ proc[m][s].pc = "look"
         /\ proc'[m][s].pc = "ask" /\ proc'[m][s].op = proc[m][s].op
         /\ proc'[m][s].hash = files[m] /\ proc'[m][s].rc = proc[m][s].rc
         /\ proc'[m][s].head.gen = journal[m].gen /\ proc'[m][s].head.hash = journal[m].hash
         /\ proc'[m][s].changed = (files[m] # Empty /\ files[m] # journal[m].hash /\ files[m] # journal[m].pushed)
         /\ UNCHANGED <<local, game, lock, watch, service, late, counts, history>>
<1>1. proc[m][s] \in Proc
  BY DEF IInv, ProcsOK
<1> DEFINE p == [proc[m][s] EXCEPT !.pc = "ask", !.hash = files[m],
                       !.head = [gen |-> journal[m].gen, hash |-> journal[m].hash],
                       !.changed = files[m] # Empty /\ files[m] # journal[m].hash /\ files[m] # journal[m].pushed]
<1>2. /\ p.pc = "ask" /\ p.op = proc[m][s].op /\ p.hash = files[m] /\ p.rc = proc[m][s].rc
      /\ p.head.gen = journal[m].gen /\ p.head.hash = journal[m].hash
      /\ p.changed = (files[m] # Empty /\ files[m] # journal[m].hash /\ files[m] # journal[m].pushed)
  BY <1>1 DEF Proc
<1>3. Step(m, s, p)
  BY DEF Look
<1> HIDE DEF p
<1>4. proc[m][s].pc = "look" /\ UNCHANGED <<local, game, lock, watch, service, late, counts, history>>
  BY DEF Look, At
<1> QED BY <1>2, <1>3, <1>4, StepDoes

LEMMA PushBundleDoes ==
  ASSUME IInv, NEW m \in Machine, NEW s \in Procs, PushBundle(m, s)
  PROVE  /\ OthersStand(m, s) /\ proc[m][s].pc = "bundle" /\ proc'[m][s].op = proc[m][s].op
         /\ \/ files[m] = Empty /\ proc'[m][s].pc = "ended" /\ proc'[m][s].rc = 3
            \/ files[m] # Empty /\ proc'[m][s].pc = "send" /\ proc'[m][s].hash = files[m]
         /\ UNCHANGED <<local, game, lock, watch, service, late, counts, history>>
<1>1. proc[m][s] \in Proc
  BY DEF IInv, ProcsOK
<1> DEFINE p == [proc[m][s] EXCEPT !.pc = "send", !.hash = files[m]]
<1>2. p.pc = "send" /\ p.op = proc[m][s].op /\ p.hash = files[m]
  BY <1>1 DEF Proc
<1>3. \/ files[m] = Empty /\ End(m, s, 3)
      \/ files[m] # Empty /\ Step(m, s, p)
  BY DEF PushBundle
<1> HIDE DEF p
<1>4. proc[m][s].pc = "bundle" /\ UNCHANGED <<local, game, lock, watch, service, late, counts, history>>
  BY DEF PushBundle, At
<1> QED BY <1>2, <1>3, <1>4, StepDoes, EndDoes

LEMMA PushSendDoes ==
  ASSUME IInv, NEW m \in Machine, NEW s \in Procs, PushSend(m, s)
  PROVE  /\ OthersStand(m, s) /\ proc[m][s].pc = "send" /\ proc'[m][s].op = proc[m][s].op
         /\ \/ proc[m][s].hash = journal[m].pushed /\ proc'[m][s].pc = "ended" /\ proc'[m][s].rc = 4
            \/ /\ proc'[m][s].pc = "put" /\ proc'[m][s].hash = proc[m][s].hash
               /\ proc'[m][s].head.hash = journal[m].hash
         /\ UNCHANGED <<local, game, lock, watch, service, late, counts, history>>
<1>1. proc[m][s] \in Proc
  BY DEF IInv, ProcsOK
<1> DEFINE p == [proc[m][s] EXCEPT !.pc = "put", !.head = [proc[m][s].head EXCEPT !.hash = journal[m].hash]]
<1>2. p.pc = "put" /\ p.op = proc[m][s].op /\ p.hash = proc[m][s].hash /\ p.head.hash = journal[m].hash
  BY <1>1 DEF Proc, HeadRecord
<1>3. \/ proc[m][s].hash = journal[m].pushed /\ End(m, s, 4)
      \/ Step(m, s, p)
  BY DEF PushSend
<1> HIDE DEF p
<1>4. proc[m][s].pc = "send" /\ UNCHANGED <<local, game, lock, watch, service, late, counts, history>>
  BY DEF PushSend, At
<1> QED BY <1>2, <1>3, <1>4, StepDoes, EndDoes

LEMMA PutArrivesDoes ==
  ASSUME IInv, NEW m \in Machine, NEW s \in Procs, PutArrives(m, s)
  PROVE  LET r == Put(m, proc[m][s])
         IN  /\ OthersStand(m, s) /\ proc[m][s].pc = "put" /\ proc'[m][s].op = proc[m][s].op
             /\ \/ Refused(r) /\ proc'[m][s].pc = "ended" /\ proc'[m][s].rc = 2
                \/ /\ ~Refused(r) /\ proc'[m][s].pc = "reply" /\ proc'[m][s].hash = proc[m][s].hash
                   /\ proc'[m][s].head.gen = Len(gens')
             /\ r \in Request /\ r.by = m /\ r.body = proc[m][s].hash /\ r.parent = proc[m][s].head.hash
             /\ r.force = (proc[m][s].op = "keepHere")
             /\ Serve(r) /\ Grows
             /\ UNCHANGED <<local, game, lock, watch, late, counts, history>>
<1>1. proc[m][s] \in Proc
  BY DEF IInv, ProcsOK
<1> DEFINE r == Put(m, proc[m][s])
<1>2. r \in Request /\ r.by = m /\ r.body = proc[m][s].hash /\ r.parent = proc[m][s].head.hash
      /\ r.force = (proc[m][s].op = "keepHere")
  BY <1>1 DEF Put, Request, Proc, HeadRecord
<1>3. Serve(r) /\ proc[m][s].pc = "put" /\ UNCHANGED <<local, game, lock, watch, late, counts, history>>
  BY DEF PutArrives, At
<1>4. \/ Refused(r) /\ End(m, s, 2)
      \/ ~Refused(r) /\ Step(m, s, [proc[m][s] EXCEPT !.pc = "reply", !.head.gen = Len(gens')])
  BY DEF PutArrives
<1> HIDE DEF r
<1>5. Grows
  BY <1>2, <1>3, ServeGrows, SyncAssumption DEF IInv
<1>6. CASE Refused(r) /\ End(m, s, 2)
  BY <1>2, <1>3, <1>5, <1>6, EndDoes DEF r
<1>7. CASE ~Refused(r) /\ Step(m, s, [proc[m][s] EXCEPT !.pc = "reply", !.head.gen = Len(gens')])
  <2>1. OthersStand(m, s) /\ proc'[m][s] = [proc[m][s] EXCEPT !.pc = "reply", !.head.gen = Len(gens')]
    BY <1>7, StepDoes
  <2>2. /\ proc'[m][s].pc = "reply" /\ proc'[m][s].hash = proc[m][s].hash /\ proc'[m][s].op = proc[m][s].op
        /\ proc'[m][s].head.gen = Len(gens')
    BY <1>1, <2>1 DEF Proc, HeadRecord
  <2> QED BY <1>2, <1>3, <1>5, <1>7, <2>1, <2>2 DEF r
<1> QED BY <1>4, <1>6, <1>7

\* A head taken note of, for a pull or for the journal after a restore.
LEMMA NoteDoes ==
  ASSUME IInv, NEW m \in Machine, NEW s \in Procs, PullMeta(m, s) \/ Agree(m, s)
  PROVE  /\ OthersStand(m, s) /\ proc'[m][s].op = proc[m][s].op
         /\ \/ PullMeta(m, s) /\ proc[m][s].pc = "meta"
            \/ Agree(m, s) /\ proc[m][s].pc = "agree"
         /\ \/ gens = <<>> /\ proc'[m][s].pc = "ended" /\ proc'[m][s].rc = 0
            \/ /\ gens # <<>> /\ proc'[m][s].pc = IF proc[m][s].pc = "meta" THEN "compare" ELSE "record"
               /\ proc'[m][s].head = Current
         /\ UNCHANGED <<local, game, lock, watch, service, late, counts, history>>
<1>1. proc[m][s] \in Proc
  BY DEF IInv, ProcsOK
<1> DEFINE p == [proc[m][s] EXCEPT !.pc = IF proc[m][s].pc = "meta" THEN "compare" ELSE "record", !.head = Current]
<1>2. /\ p.pc = IF proc[m][s].pc = "meta" THEN "compare" ELSE "record"
      /\ p.op = proc[m][s].op /\ p.head = Current
  BY <1>1 DEF Proc
<1>3. /\ \/ gens = <<>> /\ End(m, s, 0)
         \/ gens # <<>> /\ Step(m, s, p)
      /\ \/ PullMeta(m, s) /\ proc[m][s].pc = "meta"
         \/ Agree(m, s) /\ proc[m][s].pc = "agree"
      /\ UNCHANGED <<local, game, lock, watch, service, late, counts, history>>
  BY DEF PullMeta, Agree, At
<1> HIDE DEF p
<1> QED BY <1>2, <1>3, StepDoes, EndDoes

LEMMA PullFetchDoes ==
  ASSUME IInv, NEW m \in Machine, NEW s \in Procs, PullFetch(m, s)
  PROVE  /\ OthersStand(m, s) /\ proc[m][s].pc = "fetch" /\ proc'[m][s].op = proc[m][s].op
         /\ proc'[m][s].pc = "place" /\ proc'[m][s].head = Current
         /\ proc'[m][s].todo = {f \in File : Current.hash[f] # 0}
         /\ UNCHANGED <<local, game, lock, watch, service, late, counts, history>>
<1>1. proc[m][s] \in Proc
  BY DEF IInv, ProcsOK
<1> DEFINE p == [proc[m][s] EXCEPT !.pc = "place", !.head = Current, !.todo = {f \in File : Current.hash[f] # 0}]
<1>2. /\ p.pc = "place" /\ p.op = proc[m][s].op /\ p.head = Current
      /\ p.todo = {f \in File : Current.hash[f] # 0}
  BY <1>1 DEF Proc
<1>3. Step(m, s, p)
  BY DEF PullFetch
<1> HIDE DEF p
<1>4. proc[m][s].pc = "fetch" /\ UNCHANGED <<local, game, lock, watch, service, late, counts, history>>
  BY DEF PullFetch, At
<1> QED BY <1>2, <1>3, <1>4, StepDoes

LEMMA PlaceDoes ==
  ASSUME IInv, NEW m \in Machine, NEW s \in Procs, Place(m, s)
  PROVE  \E f \in proc[m][s].todo :
           /\ OthersStand(m, s) /\ proc[m][s].pc = "place" /\ proc'[m][s].op = proc[m][s].op
           /\ proc'[m][s].pc = "place" /\ proc'[m][s].head = proc[m][s].head
           /\ proc'[m][s].todo = proc[m][s].todo \ {f}
           /\ f \in File
           /\ \A n \in Machine : n # m => files'[n] = files[n]
           /\ \A g \in File : files'[m][g] = IF g = f THEN proc[m][s].head.hash[f] ELSE files[m][g]
           /\ whole' = IF Has(files'[m], proc[m][s].head.hash) THEN whole \cup {files'[m]} ELSE whole
           /\ UNCHANGED <<journal, archives, game, lock, watch, service, late, counts, chosen>>
<1>1. proc[m][s] \in Proc /\ files \in [Machine -> Bundle]
  BY DEF IInv, ProcsOK, DataOK
<1>2. PICK f \in proc[m][s].todo :
       /\ files' = [files EXCEPT ![m][f] = proc[m][s].head.hash[f]]
       /\ Step(m, s, [proc[m][s] EXCEPT !.todo = @ \ {f}])
       /\ whole' = IF Has(files'[m], proc[m][s].head.hash)
                   THEN whole \cup {files'[m]} ELSE whole
  BY DEF Place
<1>3. f \in File
  BY <1>1, <1>2 DEF Proc
<1>4. /\ \A n \in Machine : n # m => files'[n] = files[n]
      /\ \A g \in File : files'[m][g] = IF g = f THEN proc[m][s].head.hash[f] ELSE files[m][g]
  BY <1>1, <1>2, <1>3 DEF Bundle
<1>5. OthersStand(m, s) /\ proc'[m][s] = [proc[m][s] EXCEPT !.todo = @ \ {f}]
  BY <1>2, StepDoes
<1>6. /\ proc'[m][s].pc = proc[m][s].pc /\ proc'[m][s].head = proc[m][s].head /\ proc'[m][s].op = proc[m][s].op
      /\ proc'[m][s].todo = proc[m][s].todo \ {f}
  BY <1>1, <1>5 DEF Proc
<1>7. proc[m][s].pc = "place" /\ UNCHANGED <<journal, archives, game, lock, watch, service, late, counts, chosen>>
  BY DEF Place, At
<1> QED BY <1>2, <1>3, <1>4, <1>5, <1>6, <1>7

LEMMA ChooseDoes ==
  ASSUME IInv, NEW m \in Machine, NEW s \in Procs, Choose(m, s)
  PROVE  \E b \in {gens[i] : i \in Kept} \cup {archives[m][i] : i \in DOMAIN archives[m]} :
           /\ OthersStand(m, s) /\ proc[m][s].pc = "choose" /\ proc'[m][s].op = proc[m][s].op
           /\ proc'[m][s].pc = IF files[m] = b THEN "agree" ELSE "snapshot"
           /\ proc'[m][s].hash = files[m] /\ proc'[m][s].head.hash = b
           /\ proc'[m][s].todo = {f \in File : b[f] # 0}
           /\ chosen' = IF files[m] = b THEN Chosen(m, b) ELSE chosen
           /\ UNCHANGED <<local, game, lock, watch, service, late, counts, whole>>
<1>1. proc[m][s] \in Proc
  BY DEF IInv, ProcsOK
<1>2. PICK b \in {gens[i] : i \in Kept} \cup {archives[m][i] : i \in DOMAIN archives[m]} :
       /\ Step(m, s, [proc[m][s] EXCEPT
         !.pc = IF files[m] = b THEN "agree" ELSE "snapshot",
         !.hash = files[m], !.head.hash = b,
         !.todo = {f \in File : b[f] # 0}])
       /\ chosen' = IF files[m] = b THEN Chosen(m, b) ELSE chosen
  BY DEF Choose
<1>3. OthersStand(m, s) /\ proc'[m][s] = [proc[m][s] EXCEPT
         !.pc = IF files[m] = b THEN "agree" ELSE "snapshot",
         !.hash = files[m], !.head.hash = b,
         !.todo = {f \in File : b[f] # 0}]
  BY <1>2, StepDoes
<1>4. /\ proc'[m][s].pc = IF files[m] = b THEN "agree" ELSE "snapshot"
      /\ proc'[m][s].hash = files[m] /\ proc'[m][s].head.hash = b /\ proc'[m][s].op = proc[m][s].op
      /\ proc'[m][s].todo = {f \in File : b[f] # 0}
  BY <1>1, <1>3 DEF Proc, HeadRecord
<1>5. proc[m][s].pc = "choose" /\ UNCHANGED <<local, game, lock, watch, service, late, counts, whole>>
  BY DEF Choose, At
<1> QED BY <1>2, <1>3, <1>4, <1>5

LEMMA RemoveDoes ==
  ASSUME IInv, NEW m \in Machine, NEW s \in Procs, Remove(m, s)
  PROVE  /\ OthersStand(m, s) /\ proc[m][s].pc = "remove" /\ proc'[m][s].op = proc[m][s].op
         /\ proc'[m][s].pc = "place" /\ proc'[m][s].head = proc[m][s].head
         /\ proc'[m][s].hash = proc[m][s].hash /\ proc'[m][s].todo = proc[m][s].todo
         /\ \A n \in Machine : n # m => files'[n] = files[n]
         /\ \A f \in File : files'[m][f] = IF proc[m][s].hash[f] # 0 /\ proc[m][s].head.hash[f] = 0
                                           THEN 0 ELSE files[m][f]
         /\ UNCHANGED <<journal, archives, game, lock, watch, service, late, counts, history>>
<1>1. files \in [Machine -> Bundle]
  BY DEF IInv, DataOK
<1> QED BY <1>1, GotoDoes DEF Remove, At, Bundle

LEMMA SnapshotDoes ==
  ASSUME IInv, NEW m \in Machine, NEW s \in Procs, Snapshot(m, s)
  PROVE  /\ OthersStand(m, s) /\ proc[m][s].pc = "snapshot" /\ proc'[m][s].op = proc[m][s].op
         /\ proc'[m][s].pc = IF proc[m][s].op = "restore" THEN "remove" ELSE "fetch"
         /\ proc'[m][s].head = proc[m][s].head
         /\ proc'[m][s].hash = proc[m][s].hash /\ proc'[m][s].todo = proc[m][s].todo
         /\ \A n \in Machine : n # m => archives'[n] = archives[n]
         /\ archives'[m] = IF files[m] = Empty THEN archives[m] ELSE Archived(archives[m], files[m])
         /\ UNCHANGED <<files, journal, game, lock, watch, service, late, counts, history>>
<1>1. archives \in [Machine -> Seq(Bundle)]
  BY DEF IInv, DataOK
<1> QED BY <1>1, GotoDoes DEF Snapshot, At

\* What a failed file operation does to its command.
LEMMA BrokenDoes ==
  ASSUME IInv, NEW m \in Machine, NEW s \in Procs, Broken(m, s)
  PROVE  /\ OthersStand(m, s) /\ proc'[m][s].op = proc[m][s].op /\ broken' = broken + 1
         /\ \/ proc'[m][s].pc = "ended" /\ proc'[m][s].rc = 1
            \/ /\ proc[m][s].pc = "snapshot" /\ proc'[m][s].pc = "fetch" /\ proc[m][s].op \in Synced
            \/ /\ proc[m][s].pc = "place" /\ proc'[m][s].pc = "place" /\ proc[m][s].op \in Synced
               /\ proc'[m][s].head = proc[m][s].head
               /\ \E f \in proc[m][s].todo : proc'[m][s].todo = proc[m][s].todo \ {f}
         /\ proc[m][s].pc \in {"snapshot", "place", "look", "bundle", "compare", "choose"}
         /\ UNCHANGED <<local, game, lock, watch, service, late, ver, asked, lost, killed, history>>
<1>1. proc[m][s] \in Proc
  BY DEF IInv, ProcsOK
<1>2. /\ UNCHANGED <<local, game, lock, watch, service, late, ver, asked, lost, killed, history>>
      /\ broken' = broken + 1
      /\ proc[m][s].pc \in {"snapshot", "place", "look", "bundle", "compare", "choose"}
  BY DEF Broken, At
<1>3. CASE End(m, s, 1)
  BY <1>2, <1>3, EndDoes
<1>4. CASE proc[m][s].pc = "snapshot" /\ proc[m][s].op \in Synced /\ Goto(m, s, "fetch")
  BY <1>2, <1>4, GotoDoes
<1>5. CASE /\ proc[m][s].pc = "place" /\ proc[m][s].op \in Synced
           /\ \E f \in proc[m][s].todo : Step(m, s, [proc[m][s] EXCEPT !.todo = @ \ {f}])
  <2>1. PICK f \in proc[m][s].todo : Step(m, s, [proc[m][s] EXCEPT !.todo = @ \ {f}])
    BY <1>5
  <2>2. OthersStand(m, s) /\ proc'[m][s] = [proc[m][s] EXCEPT !.todo = @ \ {f}]
    BY <2>1, StepDoes
  <2>3. /\ proc'[m][s].pc = proc[m][s].pc /\ proc'[m][s].head = proc[m][s].head /\ proc'[m][s].op = proc[m][s].op
        /\ proc'[m][s].todo = proc[m][s].todo \ {f}
    BY <1>1, <2>2 DEF Proc
  <2> QED BY <1>2, <1>5, <2>2, <2>3
<1> QED BY <1>3, <1>4, <1>5 DEF Broken, At

-----------------------------------------------------------------------------
(* Which steps a command has *)

ShapeOf(p) ==
  \/ p.op = "none" /\ p.pc \in {"idle", "sleep", "done"}
  \/ p.op = "tick" /\ p.pc \in {"lock", "bundle", "send", "put", "reply", "ended", "done"}
  \/ p.op \in Synced /\ p.pc \in {"lock", "look", "ask", "bundle", "send", "put", "reply", "meta",
                                "compare", "snapshot", "fetch", "place", "ended"}
  \/ p.op \in {"push", "keepHere"} /\ p.pc \in {"bundle", "send", "put", "reply", "ended"}
  \/ p.op = "pull" /\ p.pc \in {"meta", "compare", "snapshot", "fetch", "place", "ended"}
  \/ p.op = "restore" /\ p.pc \in {"choose", "snapshot", "remove", "place", "agree", "record", "ended"}

\* The watcher only ticks, and until somebody asks nobody does what is asked.
ShapeAt(m, s) ==
  /\ ShapeOf(proc[m][s])
  /\ IF s = Watch THEN proc[m][s].op \in {"none", "tick"}
     ELSE proc[m][s].op # "tick" /\ proc[m][s].pc \notin {"sleep", "done"}
  /\ asked = 0 => proc[m][s].op \notin Asked

ShapeOK ==
  /\ asked \in Nat
  /\ \A m \in Machine, s \in Procs : ShapeAt(m, s)
  /\ asked = 0 => \A r \in late : ~r.force

LEMMA EndedDoes ==
  ASSUME IInv, ShapeOK, NEW m \in Machine, NEW s \in Procs, Ended(m, s)
  PROVE  /\ proc[m][s].pc = "ended" /\ UNCHANGED <<local, service, late, counts, history>>
         /\ \A n \in Machine, t \in Procs : n # m => proc'[n][t] = proc[n][t]
         /\ \A t \in Procs : t \notin {s, Watch} => proc'[m][t] = proc[m][t]
         /\ \/ /\ proc[m][s].op = "launch" /\ s # Watch /\ proc[m][Watch].pc \in {"idle", "done"}
               /\ proc'[m][s] = IdleProc
               /\ proc'[m][Watch].pc = "sleep" /\ proc'[m][Watch].op = "none" /\ proc'[m][Watch].rc = 0
               /\ game' = [game EXCEPT ![m] = "on"] /\ watch' = [watch EXCEPT ![m] = NoWatch]
            \/ /\ proc[m][s].op = "tick" /\ s = Watch /\ game' = game
               /\ proc'[m][s].pc = IF watch[m].last THEN "done" ELSE "sleep"
               /\ proc'[m][s].op = "none" /\ proc'[m][s].rc = proc[m][s].rc
               /\ watch' = [watch EXCEPT ![m].seen = Empty, ![m].sig = SigAfter(m, proc[m][s])]
            \/ /\ proc[m][s].op \notin {"launch", "tick"} /\ s # Watch /\ game' = game /\ watch' = watch
               /\ proc'[m][s] = IdleProc /\ proc'[m][Watch] = proc[m][Watch]
<1>1. /\ proc[m][s].pc = "ended" /\ UNCHANGED <<local, service, late, counts, history>>
      /\ proc[m][s] \in Proc /\ proc \in [Machine -> [Procs -> Proc]] /\ Watch \in Procs
  BY Types, SyncAssumption DEF Ended, At, IInv, ProcsOK
<1>2. ShapeAt(m, s)
  BY DEF ShapeOK
<1>3. (s = Watch <=> proc[m][s].op = "tick")
  BY <1>1, <1>2 DEF ShapeAt, ShapeOf, Synced
<1>4. CASE proc[m][s].op = "launch"
  <2> DEFINE w == [IdleProc EXCEPT !.pc = "sleep"]
  <2>1. w.pc = "sleep" /\ w.op = "none" /\ w.rc = 0
    BY DEF IdleProc
  <2>2. /\ proc[m][Watch].pc \in {"idle", "done"}
        /\ game' = [game EXCEPT ![m] = "on"] /\ watch' = [watch EXCEPT ![m] = NoWatch]
        /\ proc' = [proc EXCEPT ![m][s] = IdleProc, ![m][Watch] = w]
    BY <1>4 DEF Ended
  <2> HIDE DEF w
  <2>3. s # Watch
    BY <1>3, <1>4
  <2>4. /\ proc'[m][s] = IdleProc /\ proc'[m][Watch] = w
        /\ \A n \in Machine, t \in Procs : n # m => proc'[n][t] = proc[n][t]
        /\ \A t \in Procs : t \notin {s, Watch} => proc'[m][t] = proc[m][t]
    BY <1>1, <2>2, <2>3
  <2> QED BY <1>1, <1>4, <2>1, <2>2, <2>3, <2>4
<1>5. CASE proc[m][s].op = "tick"
  <2> DEFINE w == [IdleProc EXCEPT !.pc = IF watch[m].last THEN "done" ELSE "sleep", !.rc = proc[m][s].rc]
  <2>1. w.pc = (IF watch[m].last THEN "done" ELSE "sleep") /\ w.op = "none" /\ w.rc = proc[m][s].rc
    BY DEF IdleProc
  <2>2. /\ game' = game /\ Step(m, s, w)
        /\ watch' = [watch EXCEPT ![m].seen = Empty, ![m].sig = SigAfter(m, proc[m][s])]
    BY <1>5 DEF Ended
  <2> HIDE DEF w
  <2>3. OthersStand(m, s) /\ proc'[m][s] = w
    BY <2>2, StepDoes
  <2> QED BY <1>1, <1>3, <1>5, <2>1, <2>2, <2>3 DEF OthersStand
<1>6. CASE proc[m][s].op \notin {"launch", "tick"}
  <2>1. game' = game /\ watch' = watch /\ Step(m, s, IdleProc)
    BY <1>6 DEF Ended
  <2>2. OthersStand(m, s) /\ proc'[m][s] = IdleProc
    BY <2>1, StepDoes
  <2> QED BY <1>1, <1>3, <1>6, <2>1, <2>2 DEF OthersStand
<1> QED BY <1>4, <1>5, <1>6

LEMMA TickDoes ==
  ASSUME IInv, NEW m \in Machine, Tick(m)
  PROVE  /\ OthersStand(m, Watch) /\ proc[m][Watch].pc = "sleep" /\ Watch \in Procs
         /\ proc'[m][Watch].op = "tick" /\ proc'[m][Watch].rc = 0
         /\ proc'[m][Watch].pc = IF files[m] # watch[m].sig THEN "lock" ELSE "done"
         /\ watch' = [watch EXCEPT ![m].seen = files[m], ![m].last = (game[m] = "off")]
         /\ UNCHANGED <<local, game, lock, service, late, counts, history>>
<1> DEFINE p == [IdleProc EXCEPT !.pc = IF files[m] # watch[m].sig THEN "lock" ELSE "done", !.op = "tick"]
<1>1. p.pc = (IF files[m] # watch[m].sig THEN "lock" ELSE "done") /\ p.op = "tick" /\ p.rc = 0
  BY DEF IdleProc
<1>2. /\ Step(m, Watch, p) /\ proc[m][Watch].pc = "sleep" /\ Watch \in Procs
      /\ watch' = [watch EXCEPT ![m].seen = files[m], ![m].last = (game[m] = "off")]
      /\ UNCHANGED <<local, game, lock, service, late, counts, history>>
  BY Types, SyncAssumption DEF Tick, At
<1> HIDE DEF p
<1> QED BY <1>1, <1>2, StepDoes

LEMMA TakeLockDoes ==
  ASSUME IInv, NEW m \in Machine, NEW s \in Procs, TakeLock(m, s)
  PROVE  /\ OthersStand(m, s) /\ proc[m][s].pc = "lock" /\ proc'[m][s].op = proc[m][s].op
         /\ \/ /\ proc'[m][s].pc = IF s = Watch THEN "bundle" ELSE "look"
               /\ proc'[m][s].rc = proc[m][s].rc /\ lock' = [lock EXCEPT ![m] = s]
            \/ proc'[m][s].pc = "ended" /\ proc'[m][s].rc = 1 /\ lock' = lock
         /\ UNCHANGED <<local, game, watch, service, late, counts, history>>
<1>1. /\ proc[m][s].pc = "lock" /\ UNCHANGED <<local, game, watch, service, late, counts, history>>
      /\ \/ lock' = [lock EXCEPT ![m] = s] /\ Goto(m, s, IF s = Watch THEN "bundle" ELSE "look")
         \/ lock' = lock /\ End(m, s, 1)
  BY DEF TakeLock, At
<1> QED BY <1>1, GotoDoes, EndDoes

\* Where a command goes that leaves the rest as it was.
LEMMA CompareDoes ==
  ASSUME IInv, NEW m \in Machine, NEW s \in Procs, Compare(m, s)
  PROVE  LET p == proc[m][s]
         IN  /\ OthersStand(m, s) /\ p.pc = "ask" /\ proc'[m][s].op = p.op
             /\ \/ HereNewer(p) /\ proc'[m][s].pc = "bundle" /\ proc'[m][s].rc = 0
                \/ RemoteNewer(p) /\ proc'[m][s].pc = "meta" /\ proc'[m][s].rc = 0
                \/ InConflict(p) /\ proc'[m][s].pc = "ended" /\ proc'[m][s].rc = 2
                \/ proc'[m][s].pc = "ended" /\ proc'[m][s].rc = 0
             /\ UNCHANGED <<local, game, lock, watch, service, late, counts, history>>
<1> DEFINE p == proc[m][s]
<1>1. /\ \/ HereNewer(p) /\ Enter(m, s, "bundle")
         \/ RemoteNewer(p) /\ Enter(m, s, "meta")
         \/ InConflict(p) /\ End(m, s, 2)
         \/ End(m, s, 0)
      /\ p.pc = "ask" /\ UNCHANGED <<local, game, lock, watch, service, late, counts, history>>
  BY DEF Compare, At
<1> QED BY <1>1, EnterDoes, EndDoes

\* Faults that end a command and leave the rest as it was.
LEMMA StopDoes ==
  ASSUME IInv, NEW m \in Machine, NEW s \in Procs, PutLost(m, s) \/ Unanswered(m, s) \/ Kill(m, s)
  PROVE  /\ OthersStand(m, s) /\ proc'[m][s].op = proc[m][s].op
         /\ proc'[m][s].pc = "ended" /\ proc'[m][s].rc \in {0, 1}
         /\ proc[m][s].pc \in {"put", "reply"} => proc'[m][s].rc = 1
         /\ \/ lost' = lost + 1 /\ killed' = killed
               /\ proc[m][s].pc \in {"put", "reply", "ask", "meta", "fetch", "choose", "agree"}
            \/ killed' = killed + 1 /\ lost' = lost /\ proc[m][s].op = "sync" /\ proc[m][s].pc # "ended"
         /\ \/ late' = late
            \/ proc[m][s].pc = "put" /\ late' = late \cup {Put(m, proc[m][s])}
         /\ UNCHANGED <<local, game, lock, watch, service, ver, asked, broken, history>>
<1>1. CASE PutLost(m, s)
  <2>1. End(m, s, 1)
    BY <1>1 DEF PutLost
  <2> QED BY <1>1, <2>1, EndDoes DEF PutLost, At
<1>2. CASE Unanswered(m, s)
  <2>1. \/ End(m, s, 0) /\ proc[m][s].pc \in {"ask", "agree"}
        \/ End(m, s, 1)
    BY <1>2 DEF Unanswered
  <2> QED BY <1>2, <2>1, EndDoes DEF Unanswered
<1>3. CASE Kill(m, s)
  <2>1. End(m, s, 1)
    BY <1>3 DEF Kill
  <2> QED BY <1>3, <2>1, EndDoes DEF Kill
<1> QED BY <1>1, <1>2, <1>3

\* Where a journal moves and the command ends, or a pull goes on.
LEMMA RecordDoes ==
  ASSUME IInv, NEW m \in Machine, NEW s \in Procs,
         PushReply(m, s) \/ PullDone(m, s) \/ RecordAgreed(m, s) \/ PullCompare(m, s)
  PROVE  LET p == proc[m][s]
         IN  /\ OthersStand(m, s) /\ proc'[m][s].op = p.op
             /\ \A n \in Machine : n # m => journal'[n] = journal[n]
             /\ UNCHANGED <<files, archives, game, lock, watch, service, late, counts, whole>>
             /\ \/ /\ PushReply(m, s) /\ p.pc = "reply" /\ proc'[m][s].pc = "ended" /\ proc'[m][s].rc = 0
                   /\ journal'[m].gen = p.head.gen /\ journal'[m].hash = p.hash
                   /\ journal'[m].pushed = p.hash
                   /\ chosen' = chosen
                \/ /\ PullDone(m, s) /\ p.pc = "place" /\ p.todo = {} /\ p.op # "restore"
                   /\ proc'[m][s].pc = "ended" /\ proc'[m][s].rc = 0
                   /\ journal'[m].gen = p.head.gen /\ journal'[m].hash = p.head.hash
                   /\ journal'[m].pushed = p.head.hash
                   /\ chosen' = [chosen EXCEPT ![m] = IF p.op = "pull" THEN NoChoice ELSE @]
                \/ /\ RecordAgreed(m, s) /\ p.pc = "record" /\ proc'[m][s].pc = "ended" /\ proc'[m][s].rc = 0
                   /\ journal'[m].gen = p.head.gen /\ journal'[m].hash = p.head.hash
                   /\ journal'[m].pushed = Empty
                   /\ chosen' = chosen
                \/ /\ PullCompare(m, s) /\ p.pc = "compare" /\ proc'[m][s].pc = "ended" /\ proc'[m][s].rc = 0
                   /\ files[m] = p.head.hash
                   /\ journal'[m].gen = p.head.gen /\ journal'[m].hash = p.head.hash
                   /\ journal'[m].pushed = journal[m].pushed
                   /\ chosen' = chosen
                \/ /\ PullCompare(m, s) /\ p.pc = "compare" /\ proc'[m][s].pc = "snapshot"
                   /\ journal' = journal /\ chosen' = chosen
<1> DEFINE p == proc[m][s]
<1>1. journal \in [Machine -> [gen : 0..MaxGen, hash : Bundle, pushed : Bundle]]
  BY DEF IInv, DataOK
<1>2. CASE PushReply(m, s)
  <2>1. /\ p.pc = "reply" /\ End(m, s, 0)
        /\ journal' = [journal EXCEPT ![m] = [gen |-> p.head.gen, hash |-> p.hash, pushed |-> p.hash]]
        /\ UNCHANGED <<files, archives, game, lock, watch, service, late, counts, whole, chosen>>
    BY <1>2 DEF PushReply, At, history
  <2> QED BY <1>1, <1>2, <2>1, EndDoes
<1>3. CASE PullDone(m, s)
  <2>1. /\ p.pc = "place" /\ p.todo = {} /\ p.op # "restore" /\ End(m, s, 0)
        /\ journal' = [journal EXCEPT ![m] = [gen |-> p.head.gen, hash |-> p.head.hash, pushed |-> p.head.hash]]
        /\ chosen' = [chosen EXCEPT ![m] = IF p.op = "pull" THEN NoChoice ELSE @]
        /\ UNCHANGED <<files, archives, game, lock, watch, service, late, counts, whole>>
    BY <1>3 DEF PullDone, At
  <2> QED BY <1>1, <1>3, <2>1, EndDoes
<1>4. CASE RecordAgreed(m, s)
  <2>1. /\ p.pc = "record" /\ End(m, s, 0)
        /\ journal' = [journal EXCEPT ![m] = [gen |-> p.head.gen, hash |-> p.head.hash, pushed |-> Empty]]
        /\ UNCHANGED <<files, archives, game, lock, watch, service, late, counts, whole, chosen>>
    BY <1>4 DEF RecordAgreed, At, history
  <2> QED BY <1>1, <1>4, <2>1, EndDoes
<1>5. CASE PullCompare(m, s)
  <2>1. /\ p.pc = "compare"
        /\ \/ /\ journal' = [journal EXCEPT ![m].gen = p.head.gen, ![m].hash = p.head.hash]
              /\ files[m] = p.head.hash /\ End(m, s, 0)
           \/ journal' = journal /\ Enter(m, s, "snapshot")
        /\ UNCHANGED <<files, archives, game, lock, watch, service, late, counts, whole, chosen>>
    BY <1>5 DEF PullCompare, At, history
  <2>2. CASE journal' = journal /\ Enter(m, s, "snapshot")
    BY <1>5, <2>1, <2>2, EnterDoes
  <2>3. CASE /\ journal' = [journal EXCEPT ![m].gen = p.head.gen, ![m].hash = p.head.hash]
             /\ files[m] = p.head.hash /\ End(m, s, 0)
    BY <1>1, <1>5, <2>1, <2>3, EndDoes
  <2> QED BY <2>1, <2>2, <2>3
<1> QED BY <1>2, <1>3, <1>4, <1>5

LEMMA PlacedDoes ==
  ASSUME IInv, NEW m \in Machine, NEW s \in Procs, Placed(m, s)
  PROVE  /\ OthersStand(m, s) /\ proc[m][s].pc = "place" /\ proc[m][s].op = "restore" /\ proc[m][s].todo = {}
         /\ proc'[m][s].op = "restore" /\ proc'[m][s].pc = "agree"
         /\ chosen' = Chosen(m, proc[m][s].head.hash)
         /\ UNCHANGED <<local, game, lock, watch, service, late, counts, whole>>
<1>1. /\ Enter(m, s, "agree") /\ proc[m][s].pc = "place" /\ proc[m][s].op = "restore" /\ proc[m][s].todo = {}
      /\ chosen' = Chosen(m, proc[m][s].head.hash)
      /\ UNCHANGED <<local, game, lock, watch, service, late, counts, whole>>
  BY DEF Placed, At
<1> QED BY <1>1, EnterDoes

\* Another step of the same command.
LEMMA ShapeMoves ==
  ASSUME ShapeOK, NEW m \in Machine, NEW s \in Procs, OthersStand(m, s), asked' = asked,
         proc'[m][s].op = proc[m][s].op, ShapeOf(proc'[m][s]), proc'[m][s].pc \notin {"sleep", "done"},
         late' \subseteq late \/ (asked = 0 => \A r \in late' : ~r.force)
  PROVE  ShapeOK'
<1>1. ASSUME NEW n \in Machine, NEW t \in Procs PROVE ShapeAt(n, t)'
  <2>1. ShapeAt(n, t) /\ ShapeAt(m, s)
    BY DEF ShapeOK
  <2>2. CASE n # m \/ t # s
    BY <2>1, <2>2 DEF ShapeAt, OthersStand
  <2>3. CASE n = m /\ t = s
    BY <2>1, <2>3 DEF ShapeAt
  <2> QED BY <2>2, <2>3
<1> QED BY <1>1 DEF ShapeOK

LEMMA ShapeCommand ==
  ASSUME IInv, ShapeOK, NEW m \in Machine, NEW s \in Procs, Command(m, s), ~Ended(m, s)
  PROVE  ShapeOK'
<1> DEFINE p == proc[m][s]
           q == proc'[m][s]
<1>1. ShapeOf(p) /\ (s = Watch <=> p.op = "tick" \/ (s = Watch /\ p.op = "none"))
  BY DEF ShapeOK, ShapeAt
<1>2. /\ OthersStand(m, s) /\ q.op = p.op /\ asked' = asked /\ late' = late
      /\ ShapeOf(q) /\ q.pc \notin {"sleep", "done"}
  <2>1. CASE TakeLock(m, s)
    BY <1>1, <2>1, TakeLockDoes DEF ShapeOf, Synced, counts
  <2>2. CASE Look(m, s)
    BY <1>1, <2>2, LookDoes DEF ShapeOf, Synced, counts
  <2>3. CASE Compare(m, s)
    BY <1>1, <2>3, CompareDoes DEF ShapeOf, Synced, counts
  <2>4. CASE PushBundle(m, s)
    BY <1>1, <2>4, PushBundleDoes DEF ShapeOf, Synced, counts
  <2>5. CASE PushSend(m, s)
    BY <1>1, <2>5, PushSendDoes DEF ShapeOf, Synced, counts
  <2>6. CASE PutArrives(m, s)
    BY <1>1, <2>6, PutArrivesDoes DEF ShapeOf, Synced, counts
  <2>7. CASE PushReply(m, s) \/ PullDone(m, s) \/ RecordAgreed(m, s) \/ PullCompare(m, s)
    BY <1>1, <2>7, RecordDoes DEF ShapeOf, Synced, counts
  <2>8. CASE PullMeta(m, s) \/ Agree(m, s)
    BY <1>1, <2>8, NoteDoes DEF ShapeOf, Synced, counts
  <2>9. CASE Snapshot(m, s)
    BY <1>1, <2>9, SnapshotDoes DEF ShapeOf, Synced, counts
  <2>10. CASE PullFetch(m, s)
    BY <1>1, <2>10, PullFetchDoes DEF ShapeOf, Synced, counts
  <2>11. CASE Place(m, s)
    BY <1>1, <2>11, PlaceDoes DEF ShapeOf, Synced, counts
  <2>12. CASE Choose(m, s)
    BY <1>1, <2>12, ChooseDoes DEF ShapeOf, Synced, counts
  <2>13. CASE Remove(m, s)
    BY <1>1, <2>13, RemoveDoes DEF ShapeOf, Synced, counts
  <2>14. CASE Placed(m, s)
    BY <1>1, <2>14, PlacedDoes DEF ShapeOf, Synced, counts
  <2> QED BY <2>1, <2>2, <2>3, <2>4, <2>5, <2>6, <2>7, <2>8, <2>9, <2>10, <2>11, <2>12, <2>13, <2>14
          DEF Command
<1> QED BY <1>2, ShapeMoves

LEMMA ShapeFaults ==
  ASSUME IInv, ShapeOK, NEW m \in Machine, NEW s \in Procs, Faults(m, s)
  PROVE  ShapeOK'
<1> DEFINE p == proc[m][s]
           q == proc'[m][s]
<1>1. ShapeOf(p) /\ ShapeAt(m, s) /\ p \in Proc
  BY DEF ShapeOK, ShapeAt, IInv, ProcsOK
<1>2. CASE PutLost(m, s) \/ Unanswered(m, s) \/ Kill(m, s)
  <2>1. /\ OthersStand(m, s) /\ q.op = p.op /\ asked' = asked /\ q.pc = "ended"
        /\ \/ late' = late
           \/ p.pc = "put" /\ late' = late \cup {Put(m, p)}
    BY <1>2, StopDoes
  <2>2. p.op # "none" /\ ShapeOf(q)
    BY <1>1, <1>2, <2>1, StopDoes DEF ShapeOf, Synced
  <2>3. asked = 0 => \A r \in late' : ~r.force
    <3>1. p.pc = "put" /\ asked = 0 => ~Put(m, p).force
      BY <1>1 DEF Put, ShapeAt, Asked
    <3> QED BY <2>1, <3>1 DEF ShapeOK
  <2> QED BY <2>1, <2>2, <2>3, ShapeMoves
<1>3. CASE Broken(m, s)
  <2>1. OthersStand(m, s) /\ q.op = p.op /\ asked' = asked /\ late' = late /\ ShapeOf(q) /\ q.pc \notin {"sleep", "done"}
    BY <1>1, <1>3, BrokenDoes DEF ShapeOf, Synced
  <2> QED BY <2>1, ShapeMoves
<1> QED BY <1>2, <1>3 DEF Faults

LEMMA ShapeEnded ==
  ASSUME IInv, ShapeOK, NEW m \in Machine, NEW s \in Procs, Ended(m, s)
  PROVE  ShapeOK'
<1>1. asked' = asked /\ late' = late
  BY EndedDoes DEF counts
<1>2. ASSUME NEW n \in Machine, NEW t \in Procs PROVE ShapeAt(n, t)'
  <2>1. ShapeAt(n, t) /\ ShapeAt(m, s)
    BY DEF ShapeOK
  <2>2. IdleProc.pc = "idle" /\ IdleProc.op = "none"
    BY DEF IdleProc
  <2>3. \/ proc'[n][t] = proc[n][t]
        \/ proc'[n][t].op = "none" /\ proc'[n][t].pc \in {"idle", "sleep", "done"}
           /\ (t # Watch => proc'[n][t].pc = "idle")
    <3>1. CASE n # m \/ t \notin {s, Watch}
      BY <3>1, EndedDoes
    <3>2. CASE n = m /\ t \in {s, Watch}
      <4>1. CASE s # Watch /\ proc'[m][s] = IdleProc /\ proc'[m][Watch] = proc[m][Watch]
        BY <2>2, <3>2, <4>1
      <4>2. CASE s # Watch /\ proc'[m][s] = IdleProc /\ proc'[m][Watch].pc = "sleep" /\ proc'[m][Watch].op = "none"
        BY <2>2, <3>2, <4>2
      <4>3. CASE s = Watch /\ proc'[m][s].pc \in {"done", "sleep"} /\ proc'[m][s].op = "none"
        BY <3>2, <4>3
      <4> QED BY <4>1, <4>2, <4>3, EndedDoes
    <3> QED BY <3>1, <3>2
  <2> QED BY <1>1, <2>1, <2>3 DEF ShapeAt, ShapeOf, Asked
<1> QED BY <1>1, <1>2 DEF ShapeOK

LEMMA ShapeStart ==
  ASSUME IInv, ShapeOK, NEW m \in Machine, NEW s \in Slot, NEW op \in Ops, Start(m, s, op)
  PROVE  ShapeOK'
<1>1. s \in Procs /\ s # Watch /\ op \in AllOps \ {"none", "tick"}
  BY Types, SyncAssumption DEF SyncAssumption, Ops, AllOps, Watch
<1>2. /\ OthersStand(m, s) /\ proc'[m][s].op = op /\ proc'[m][s].pc = FirstStep[op]
      /\ asked' = IF op \in Asked THEN asked + 1 ELSE asked
      /\ late' = late
  BY StartDoes
<1>3. asked \in Nat /\ asked' \in Nat /\ (asked' = 0 => asked = 0 /\ op \notin Asked)
  BY <1>2 DEF ShapeOK
<1>4. ASSUME NEW n \in Machine, NEW t \in Procs PROVE ShapeAt(n, t)'
  <2>1. ShapeAt(n, t)
    BY DEF ShapeOK
  <2>2. CASE n # m \/ t # s
    BY <1>2, <1>3, <2>1, <2>2 DEF ShapeAt, OthersStand
  <2>3. CASE n = m /\ t = s
    <3>1. ShapeOf(proc'[m][s]) /\ proc'[m][s].pc \notin {"sleep", "done"}
      BY <1>1, <1>2 DEF ShapeOf, FirstStep, Synced, AllOps
    <3> QED BY <1>1, <1>2, <1>3, <2>3, <3>1 DEF ShapeAt
  <2> QED BY <2>2, <2>3
<1> QED BY <1>2, <1>3, <1>4 DEF ShapeOK

LEMMA ShapeTick ==
  ASSUME IInv, ShapeOK, NEW m \in Machine, Tick(m)
  PROVE  ShapeOK'
<1>1. asked' = asked /\ late' = late /\ OthersStand(m, Watch)
      /\ proc'[m][Watch].op = "tick" /\ proc'[m][Watch].pc \in {"lock", "done"}
  BY TickDoes DEF counts
<1>2. ASSUME NEW n \in Machine, NEW t \in Procs PROVE ShapeAt(n, t)'
  <2>1. ShapeAt(n, t)
    BY DEF ShapeOK
  <2> QED BY <1>1, <2>1 DEF ShapeAt, ShapeOf, Asked, OthersStand
<1> QED BY <1>1, <1>2 DEF ShapeOK

\* What happens beside the commands.
Beside ==
  \/ \E m \in Machine : GameWrites(m) \/ GameStops(m) \/ GameResumes(m)
  \/ \E r \in late : PutArrivesLate(r)
  \/ Elsewhere
  \/ UNCHANGED vars

LEMMA Cases ==
  ASSUME [Next]_vars
  PROVE  \/ \E m \in Machine, s \in Slot, op \in Ops : Start(m, s, op)
         \/ \E m \in Machine, s \in Procs : Ended(m, s)
         \/ \E m \in Machine, s \in Procs : Command(m, s) /\ ~Ended(m, s)
         \/ \E m \in Machine, s \in Procs : Faults(m, s)
         \/ \E m \in Machine : Tick(m)
         \/ Beside
  BY DEF Next, Beside

LEMMA BesideDoes ==
  ASSUME Beside
  PROVE  /\ UNCHANGED <<journal, archives, lock, proc, watch, asked, lost, killed, broken>>
         /\ late' \subseteq late
  BY DEF Beside, GameWrites, GameStops, GameResumes, PutArrivesLate, Elsewhere, vars, local, counts,
         service, history

LEMMA ShapeNext == IInv /\ ShapeOK /\ [Next]_vars => ShapeOK'
<1> SUFFICES ASSUME IInv, ShapeOK, [Next]_vars PROVE ShapeOK'
  OBVIOUS
<1>1. CASE Beside
  BY <1>1, BesideDoes DEF ShapeOK, ShapeAt
<1> QED BY <1>1, Cases, ShapeStart, ShapeEnded, ShapeCommand, ShapeFaults, ShapeTick

LEMMA ShapeInit == Init => ShapeOK
<1> SUFFICES ASSUME Init PROVE ShapeOK
  OBVIOUS
<1>1. IdleProc.pc = "idle" /\ IdleProc.op = "none"
  BY DEF IdleProc
<1> QED BY <1>1 DEF Init, ShapeOK, ShapeAt, ShapeOf, Asked

-----------------------------------------------------------------------------
(* Commands that keep apart *)

\* One command at a time on a machine, and none that moves save files beside a
\* running game.
Movers == {"sync", "launch", "pull", "restore"}
Apart ==
  \A m \in Machine :
    /\ \A s, t \in Slot : proc[m][s].op # "none" /\ proc[m][t].op # "none" => s = t
    /\ game[m] = "on" => \A s \in Slot : proc[m][s].op \notin Movers

\* While one command works, no other syncs.
LEMMA Alone ==
  ASSUME IInv, ShapeOK, Apart, NEW m \in Machine, NEW s \in Procs, NEW t \in Procs, s # t,
         proc[m][s].pc \notin Resting, proc[m][t].pc \notin Resting, proc[m][t].op \in Synced
  PROVE  FALSE
<1>1. ShapeAt(m, s) /\ ShapeAt(m, t)
  BY DEF ShapeOK
<1>2. t \in Slot /\ proc[m][t].op # "none"
  BY <1>1 DEF ShapeAt, Synced, Procs
<1>3. CASE s \in Slot
  <2>1. proc[m][s].op # "none"
    BY <1>1 DEF ShapeAt, ShapeOf, Resting, Synced
  <2> QED BY <1>2, <1>3, <2>1 DEF Apart
<1>4. CASE s = Watch
  <2>1. Locked(proc[m][s]) /\ Locked(proc[m][t])
    BY <1>1, <1>4 DEF ShapeAt, ShapeOf, Locked, Resting
  <2> QED BY <2>1 DEF IInv, ProcsOK
<1> QED BY <1>3, <1>4 DEF Procs

Known == OnService \cup {Empty}

LEMMA KnownGrows ==
  ASSUME DataOK, Grows
  PROVE  Known \subseteq Known'
<1>1. CASE gens' = gens
  BY <1>1 DEF Known, OnService
<1>2. CASE \E b \in Bundle : gens' = Append(gens, b)
  <2>1. PICK b \in Bundle : gens' = Append(gens, b)
    BY <1>2
  <2>2. \A i \in DOMAIN gens : i \in DOMAIN gens' /\ gens'[i] = gens[i]
    BY <2>1 DEF DataOK
  <2> QED BY <2>2 DEF Known, OnService
<1> QED BY <1>1, <1>2 DEF Grows

LEMMA OfKnown ==
  ASSUME NEW g, NEW h, Of(gens, g, h)
  PROVE  h \in Known
  BY DEF Of, Known, OnService

\* A sync places over what it knows the service to have: what it saw at its
\* look, which nobody moves meanwhile.
Pulls == {"meta", "compare", "snapshot", "fetch"}
Unplaced(p) == p.todo = {f \in File : p.head.hash[f] # 0}

SyncSafe(m, s) ==
  LET p == proc[m][s]
  IN  p.op \in Synced =>
        /\ p.pc = "ask" => /\ p.hash = files[m] /\ p.head.gen = journal[m].gen
                           /\ (~p.changed => p.hash \in Known)
        /\ p.pc \in Pulls \/ (p.pc = "place" /\ Unplaced(p)) => files[m] \in Known
        /\ p.pc = "place" => \A f \in p.todo : p.head.hash[f] # 0

SyncOK ==
  \A m \in Machine : journal[m].pushed \in Known /\ \A s \in Procs : SyncSafe(m, s)

LEMMA SyncQuiet ==
  ASSUME IInv, SyncOK, UNCHANGED <<files, journal>>, Grows, NEW m \in Machine, NEW s \in Procs,
         OthersStand(m, s), SyncSafe(m, s)'
  PROVE  SyncOK'
<1>1. Known \subseteq Known'
  BY KnownGrows DEF IInv
<1>2. \A n \in Machine, t \in Procs : SyncSafe(n, t)'
  BY <1>1 DEF SyncOK, SyncSafe, OthersStand
<1> QED BY <1>1, <1>2 DEF SyncOK

LEMMA SyncMoves ==
  ASSUME IInv, ShapeOK, Apart, SyncOK, Grows, NEW m \in Machine, NEW s \in Procs,
         OthersStand(m, s), SyncSafe(m, s)', proc[m][s].pc \notin Resting,
         \A n \in Machine : n # m => files'[n] = files[n] /\ journal'[n] = journal[n],
         journal'[m].pushed \in Known'
  PROVE  SyncOK'
<1>1. Known \subseteq Known'
  BY KnownGrows DEF IInv
<1>2. ASSUME NEW n \in Machine, NEW t \in Procs PROVE SyncSafe(n, t)'
  <2>1. CASE n # m
    BY <1>1, <2>1 DEF SyncOK, SyncSafe, OthersStand
  <2>2. CASE n = m /\ t # s
    <3>1. ~(proc[m][t].op \in Synced /\ proc[m][t].pc \notin Resting)
      BY <2>2, Alone
    <3> QED BY <2>2, <3>1 DEF SyncSafe, OthersStand, Resting, Pulls
  <2> QED BY <2>1, <2>2
<1> QED BY <1>1, <1>2 DEF SyncOK

\* Nothing is asked of a command at any other step.
LEMMA SyncElse ==
  ASSUME NEW m \in Machine, NEW s \in Procs, proc'[m][s].pc \notin Pulls \cup {"ask", "place"}
  PROVE  SyncSafe(m, s)'
  BY DEF SyncSafe

LEMMA SyncCommand ==
  ASSUME IInv, ShapeOK, Apart, SyncOK, NEW m \in Machine, NEW s \in Procs, Command(m, s), ~Ended(m, s)
  PROVE  SyncOK'
<1> DEFINE p == proc[m][s]
           q == proc'[m][s]
<1>1. SyncSafe(m, s) /\ journal[m].pushed \in Known /\ Fits(gens, p) /\ Of(gens, journal[m].gen, journal[m].hash)
  BY DEF SyncOK, IInv, ProcsOK, JournalIsTrue, Of
<1>2. Known \subseteq Known' \/ ~Grows
  BY KnownGrows DEF IInv
<1>3. CASE TakeLock(m, s)
  BY <1>3, TakeLockDoes, SyncElse, SyncQuiet DEF local, service, Grows, Pulls
<1>4. CASE Look(m, s)
  <2>1. SyncSafe(m, s)'
    <3>1. journal[m].hash \in Known /\ Empty \in Known
      BY <1>1, OfKnown DEF Known
    <3>2. Known' = Known /\ files' = files /\ journal' = journal /\ q.pc = "ask"
      BY <1>4, LookDoes DEF local, service, Known, OnService, Empty
    <3>3. /\ q.hash = files[m] /\ q.head.gen = journal[m].gen
          /\ q.changed = (files[m] # Empty /\ files[m] # journal[m].hash /\ files[m] # journal[m].pushed)
      BY <1>4, LookDoes
    <3> QED BY <1>1, <3>1, <3>2, <3>3 DEF SyncSafe, Pulls
  <2> QED BY <1>4, <2>1, LookDoes, SyncQuiet DEF local, service, Grows
<1>5. CASE Compare(m, s)
  <2>1. SyncSafe(m, s)'
    BY <1>1, <1>5, CompareDoes DEF SyncSafe, Pulls, local, service, Known, OnService, RemoteNewer
  <2> QED BY <1>5, <2>1, CompareDoes, SyncQuiet DEF local, service, Grows
<1>6. CASE PushBundle(m, s)
  BY <1>6, PushBundleDoes, SyncElse, SyncQuiet DEF local, service, Grows, Pulls
<1>7. CASE PushSend(m, s)
  BY <1>7, PushSendDoes, SyncElse, SyncQuiet DEF local, service, Grows, Pulls
<1>8. CASE PutArrives(m, s)
  BY <1>8, PutArrivesDoes, SyncElse, SyncQuiet DEF local, Pulls
<1>9. CASE PushReply(m, s) \/ PullDone(m, s) \/ RecordAgreed(m, s) \/ PullCompare(m, s)
  <2>1. /\ OthersStand(m, s) /\ Grows /\ p.pc \notin Resting /\ files' = files /\ gens' = gens /\ q.op = p.op
        /\ \A n \in Machine : n # m => journal'[n] = journal[n]
    BY <1>9, RecordDoes DEF Resting, service, Grows
  <2>2. q.pc = "ended" \/ (p.pc = "compare" /\ q.pc = "snapshot")
    BY <1>9, RecordDoes
  <2>3. journal'[m].pushed \in Known'
    <3>1. CASE p.pc = "reply"
      <4>1. journal'[m].pushed = p.hash
        BY <1>9, <3>1, RecordDoes
      <4> QED BY <1>1, <1>2, <2>1, <3>1, <4>1, OfKnown DEF Fits
    <3>2. CASE p.pc = "place"
      <4>1. journal'[m].pushed = p.head.hash /\ p.op # "restore"
        BY <1>9, <3>2, RecordDoes
      <4> QED BY <1>1, <1>2, <2>1, <3>2, <4>1, OfKnown DEF Fits
    <3>3. CASE p.pc = "record"
      <4>1. journal'[m].pushed = Empty
        BY <1>9, <3>3, RecordDoes
      <4> QED BY <1>2, <2>1, <4>1 DEF Known
    <3>4. CASE p.pc = "compare"
      <4>1. journal'[m].pushed = journal[m].pushed
        BY <1>9, <3>4, RecordDoes
      <4> QED BY <1>1, <1>2, <2>1, <4>1
    <3> QED BY <1>9, <3>1, <3>2, <3>3, <3>4, RecordDoes
  <2>4. SyncSafe(m, s)'
    BY <1>1, <1>2, <2>1, <2>2 DEF SyncSafe, Pulls
  <2> QED BY <2>1, <2>3, <2>4, SyncMoves
<1>10. CASE PullMeta(m, s) \/ Agree(m, s)
  <2>1. SyncSafe(m, s)'
    BY <1>1, <1>10, NoteDoes DEF SyncSafe, Pulls, local, service, Known, OnService
  <2> QED BY <1>10, <2>1, NoteDoes, SyncQuiet DEF local, service, Grows
<1>11. CASE Snapshot(m, s)
  <2>1. SyncSafe(m, s)'
    BY <1>1, <1>11, SnapshotDoes DEF SyncSafe, Pulls, service, Known, OnService
  <2> QED BY <1>11, <2>1, SnapshotDoes, SyncQuiet DEF service, Grows
<1>12. CASE PullFetch(m, s)
  <2>1. SyncSafe(m, s)'
    BY <1>1, <1>12, PullFetchDoes DEF SyncSafe, Pulls, local, service, Known, OnService
  <2> QED BY <1>12, <2>1, PullFetchDoes, SyncQuiet DEF local, service, Grows
<1>13. CASE Place(m, s)
  <2>1. PICK f \in p.todo :
           /\ OthersStand(m, s) /\ p.pc = "place" /\ q.op = p.op
           /\ q.pc = "place" /\ q.head = p.head /\ q.todo = p.todo \ {f} /\ f \in File
           /\ \A n \in Machine : n # m => files'[n] = files[n]
           /\ UNCHANGED <<journal, gens>>
    BY <1>13, PlaceDoes DEF service
  <2>2. SyncSafe(m, s)'
    BY <1>1, <2>1 DEF SyncSafe, Pulls, Unplaced
  <2> QED BY <1>1, <1>2, <2>1, <2>2, SyncMoves DEF Resting, Grows
<1>14. CASE Choose(m, s) \/ Remove(m, s) \/ Placed(m, s)
  <2>1. p.op = "restore"
    BY <1>14, ChooseDoes, RemoveDoes, PlacedDoes DEF ShapeOK, ShapeAt, ShapeOf
  <2>2. /\ OthersStand(m, s) /\ q.op = p.op /\ p.pc \notin Resting /\ UNCHANGED <<journal, gens>>
        /\ \A n \in Machine : n # m => files'[n] = files[n]
    BY <1>14, ChooseDoes, RemoveDoes, PlacedDoes DEF local, service, Resting
  <2>3. SyncSafe(m, s)'
    BY <2>1, <2>2 DEF SyncSafe, Synced
  <2> QED BY <1>1, <1>2, <2>2, <2>3, SyncMoves DEF Grows
<1> QED BY <1>3, <1>4, <1>5, <1>6, <1>7, <1>8, <1>9, <1>10, <1>11, <1>12, <1>13, <1>14 DEF Command

LEMMA SyncFaults ==
  ASSUME IInv, ShapeOK, Apart, SyncOK, NEW m \in Machine, NEW s \in Procs, Faults(m, s)
  PROVE  SyncOK'
<1> DEFINE p == proc[m][s]
           q == proc'[m][s]
<1>1. CASE PutLost(m, s) \/ Unanswered(m, s) \/ Kill(m, s)
  BY <1>1, StopDoes, SyncElse, SyncQuiet DEF local, service, Grows, Pulls
<1>2. CASE Broken(m, s)
  <2>1. /\ OthersStand(m, s) /\ q.op = p.op /\ UNCHANGED <<files, journal, gens>>
        /\ SyncSafe(m, s)
    BY <1>2, BrokenDoes DEF local, service, SyncOK
  <2>2. CASE q.pc = "ended"
    BY <2>1, <2>2, SyncElse, SyncQuiet DEF Grows, Pulls
  <2>3. CASE p.pc = "snapshot" /\ q.pc = "fetch"
    <3>1. SyncSafe(m, s)'
      BY <2>1, <2>3 DEF SyncSafe, Pulls, Known, OnService
    <3> QED BY <2>1, <3>1, SyncQuiet DEF Grows
  <2>4. CASE /\ p.pc = "place" /\ q.pc = "place" /\ p.op \in Synced /\ q.head = p.head
             /\ \E f \in p.todo : q.todo = p.todo \ {f}
    <3>1. ~Unplaced(q) /\ \A f \in q.todo : q.head.hash[f] # 0
      <4>1. p.todo \subseteq File
        BY DEF IInv, ProcsOK, Proc
      <4>2. \A f \in p.todo : p.head.hash[f] # 0
        BY <2>1, <2>4 DEF SyncSafe
      <4> QED BY <2>4, <4>1, <4>2 DEF Unplaced
    <3>2. SyncSafe(m, s)'
      BY <2>1, <2>4, <3>1 DEF SyncSafe, Pulls, Unplaced
    <3> QED BY <2>1, <3>2, SyncQuiet DEF Grows
  <2> QED BY <1>2, <2>2, <2>3, <2>4, BrokenDoes
<1> QED BY <1>1, <1>2 DEF Faults

LEMMA ElsewhereDoes ==
  ASSUME IInv, Elsewhere
  PROVE  \E b \in Bundle :
           /\ gens' = Append(gens, b) /\ by' = Append(by, Other) /\ whole' = whole \cup {b}
           /\ ver' = ver + 1
           /\ b = [f \in File |-> ver + 1] \/ \E f \in File : b = [Current.hash EXCEPT ![f] = ver + 1]
           /\ UNCHANGED <<local, game, lock, proc, watch, late, asked, lost, killed, broken, chosen>>
<1>1. /\ UNCHANGED <<local, game, lock, proc, watch, late, asked, lost, killed, broken, chosen>>
      /\ ver < MaxVer /\ ver' = ver + 1 /\ Len(gens) < MaxGen
  BY DEF Elsewhere
<1>2. ver' \in 0..MaxVer
  BY <1>1, SyncAssumption DEF IInv, DataOK, SyncAssumption
<1>3. PICK b \in {[f \in File |-> ver']} \cup {[Current.hash EXCEPT ![f] = ver'] : f \in File} :
        gens' = Append(gens, b) /\ by' = Append(by, Other) /\ whole' = whole \cup {b}
  BY DEF Elsewhere
<1>4. Current.hash \in [File -> 0..MaxVer]
  BY CurrentType, SyncAssumption DEF IInv, HeadRecord, Bundle
<1>5. b \in Bundle
  BY <1>2, <1>3, <1>4 DEF Bundle
<1> QED BY <1>1, <1>3, <1>5

LEMMA BesideGrows ==
  ASSUME IInv, Beside
  PROVE  Grows /\ (files' = files \/ \E m \in Machine : GameWrites(m))
<1>1. CASE \E m \in Machine : GameWrites(m) \/ GameStops(m) \/ GameResumes(m)
  BY <1>1 DEF GameWrites, GameStops, GameResumes, local, service, Grows
<1>2. CASE \E r \in late : PutArrivesLate(r)
  <2>1. PICK r \in late : PutArrivesLate(r)
    BY <1>2
  <2>2. r \in Request /\ Serve(r) /\ files' = files
    BY <2>1 DEF PutArrivesLate, local, IInv, DataOK
  <2> QED BY <2>2, ServeGrows, SyncAssumption DEF IInv
<1>3. CASE Elsewhere
  BY <1>3, ElsewhereDoes DEF Grows, local
<1>4. CASE UNCHANGED vars
  BY <1>4 DEF vars, Grows
<1> QED BY <1>1, <1>2, <1>3, <1>4 DEF Beside

LEMMA SyncBeside ==
  ASSUME IInv, ShapeOK, Apart, SyncOK, Beside
  PROVE  SyncOK'
<1>1. Known \subseteq Known' /\ UNCHANGED <<journal, proc>>
  BY BesideDoes, BesideGrows, KnownGrows DEF IInv
<1>2. CASE files' = files
  <2>1. \A n \in Machine, t \in Procs : SyncSafe(n, t)'
    BY <1>1, <1>2 DEF SyncOK, SyncSafe
  <2> QED BY <1>1, <2>1 DEF SyncOK
<1>3. ASSUME NEW m \in Machine, GameWrites(m) PROVE SyncOK'
  <2>1. game[m] = "on" /\ \E f \in File : files' = [files EXCEPT ![m][f] = ver']
    BY <1>3 DEF GameWrites
  <2>2. \A n \in Machine : n # m => files'[n] = files[n]
    BY <2>1 DEF IInv, DataOK
  <2>3. \A t \in Procs : proc[m][t].op \notin Synced
    <3>1. SUFFICES ASSUME NEW t \in Procs PROVE proc[m][t].op \notin Synced
      OBVIOUS
    <3>2. CASE t = Watch
      BY <3>2 DEF ShapeOK, ShapeAt, Synced
    <3>3. CASE t \in Slot
      BY <2>1, <3>3 DEF Apart, Movers, Synced
    <3> QED BY <3>2, <3>3 DEF Procs
  <2>4. \A n \in Machine, t \in Procs : SyncSafe(n, t)'
    BY <1>1, <2>2, <2>3 DEF SyncOK, SyncSafe
  <2> QED BY <1>1, <2>4 DEF SyncOK
<1> QED BY <1>2, <1>3, BesideGrows

\* A step that begins or ends a command.
Rests(m) ==
  \/ \E s \in Slot, op \in Ops : Start(m, s, op)
  \/ \E s \in Procs : Ended(m, s)
  \/ Tick(m)

\* Who moves then has nothing in hand.
LEMMA RestsDoes ==
  ASSUME IInv, ShapeOK, NEW m \in Machine, Rests(m)
  PROVE  /\ UNCHANGED <<local, service, late, ver, lost, killed, broken, history>>
         /\ \A n \in Machine, t \in Procs : n # m => proc'[n][t] = proc[n][t]
         /\ \A t \in Procs :
              \/ proc'[m][t] = proc[m][t]
              \/ /\ proc[m][t].pc \in {"idle", "ended", "done", "sleep"}
                 /\ proc'[m][t].pc \in {"idle", "sleep", "done", "lock"}
              \/ /\ proc[m][t].pc = "idle"
                 /\ proc'[m][t].pc \in {"bundle", "meta", "choose"} /\ proc'[m][t].op \in Asked
<1>1. ASSUME NEW s \in Slot, NEW op \in Ops, Start(m, s, op)
      PROVE  /\ UNCHANGED <<local, service, late, ver, lost, killed, broken, history>>
             /\ OthersStand(m, s) /\ proc[m][s].pc = "idle"
             /\ \/ proc'[m][s].pc = "lock"
                \/ proc'[m][s].pc \in {"bundle", "meta", "choose"} /\ proc'[m][s].op \in Asked
  <2>1. op \in AllOps \ {"none", "tick"}
    BY SyncAssumption DEF SyncAssumption, Ops, AllOps
  <2> QED BY <1>1, <2>1, StartDoes DEF FirstStep, AllOps, Asked, local, service, history
<1>2. ASSUME NEW s \in Procs, Ended(m, s)
      PROVE  /\ UNCHANGED <<local, service, late, ver, lost, killed, broken, history>>
             /\ \A n \in Machine, t \in Procs : n # m => proc'[n][t] = proc[n][t]
             /\ \A t \in Procs :
                  \/ proc'[m][t] = proc[m][t]
                  \/ /\ proc[m][t].pc \in {"idle", "ended", "done", "sleep"}
                     /\ proc'[m][t].pc \in {"idle", "sleep", "done"}
  <2>1. /\ UNCHANGED <<local, service, late, ver, lost, killed, broken, history>>
        /\ \A n \in Machine, t \in Procs : n # m => proc'[n][t] = proc[n][t]
        /\ \A t \in Procs : t \notin {s, Watch} => proc'[m][t] = proc[m][t]
        /\ proc[m][s].pc = "ended" /\ IdleProc.pc = "idle"
    BY <1>2, EndedDoes DEF counts, IdleProc
  <2>2. \/ /\ proc[m][Watch].pc \in {"idle", "done"}
           /\ proc'[m][s] = IdleProc /\ proc'[m][Watch].pc = "sleep"
        \/ s = Watch /\ proc'[m][s].pc \in {"done", "sleep"}
        \/ proc'[m][s] = IdleProc /\ proc'[m][Watch] = proc[m][Watch]
    BY <1>2, EndedDoes
  <2> QED BY <2>1, <2>2
<1>3. CASE Tick(m)
  BY <1>3, TickDoes DEF OthersStand, local, service, counts, history
<1> QED BY <1>1, <1>2, <1>3, Types, SyncAssumption DEF Rests, OthersStand

LEMMA SyncRests ==
  ASSUME IInv, ShapeOK, SyncOK, NEW m \in Machine, Rests(m)
  PROVE  SyncOK'
<1>1. UNCHANGED <<files, journal, gens>>
  BY RestsDoes DEF local, service
<1>2. ASSUME NEW n \in Machine, NEW t \in Procs PROVE SyncSafe(n, t)'
  <2>1. SyncSafe(n, t)
    BY DEF SyncOK
  <2>2. CASE proc'[n][t] = proc[n][t]
    BY <1>1, <2>1, <2>2 DEF SyncSafe, Known, OnService
  <2>3. CASE proc'[n][t].pc \in {"idle", "sleep", "done", "lock"} \/ proc'[n][t].op \in Asked
    BY <2>3 DEF SyncSafe, Pulls, Asked, Synced
  <2> QED BY <2>2, <2>3, RestsDoes
<1> QED BY <1>1, <1>2 DEF SyncOK, Known, OnService

LEMMA NextCases ==
  ASSUME [Next]_vars
  PROVE  \/ \E m \in Machine : Rests(m)
         \/ \E m \in Machine, s \in Procs : Command(m, s) /\ ~Ended(m, s)
         \/ \E m \in Machine, s \in Procs : Faults(m, s)
         \/ Beside
  BY Cases DEF Rests

LEMMA SyncNext == IInv /\ ShapeOK /\ Apart /\ SyncOK /\ [Next]_vars => SyncOK'
  BY NextCases, SyncRests, SyncCommand, SyncFaults, SyncBeside

LEMMA SyncInit == Init => SyncOK
<1> SUFFICES ASSUME Init PROVE SyncOK
  OBVIOUS
<1>1. IdleProc.pc = "idle"
  BY DEF IdleProc
<1> QED BY <1>1 DEF Init, SyncOK, SyncSafe, Pulls, Known

\* A sync that pulls writes over nothing the service does not have: what is here
\* was a generation, or nothing, when its first file is placed (saves-sync.sh
\* saves_check_one and saves_sync_one, saves.sh saves_extract), whatever was
\* lost, killed or failed, while commands keep apart.
THEOREM PlacesOverSynced == Spec /\ []Apart => []SyncPlacesOnlyOverSynced
<1>1. Init => ShapeOK /\ SyncOK
  BY ShapeInit, SyncInit
<1>2. IInv /\ ShapeOK /\ SyncOK /\ Apart /\ [Next]_vars => ShapeOK' /\ SyncOK'
  BY ShapeNext, SyncNext
<1>3. SyncOK => SyncPlacesOnlyOverSynced
  <2> SUFFICES ASSUME SyncOK, NEW m \in Machine, NEW s \in Slot,
                      proc[m][s].op \in Synced, proc[m][s].pc = "place", Unplaced(proc[m][s])
               PROVE  files[m] \in Known
    BY DEF SyncPlacesOnlyOverSynced, Unplaced, Known
  <2> QED BY DEF SyncOK, SyncSafe, Procs
<1> QED BY <1>1, <1>2, <1>3, IInvHolds, PTL DEF Spec

-----------------------------------------------------------------------------
(* No save is empty *)

LEMMA ArchivedHas ==
  ASSUME NEW a \in Seq(Bundle), NEW b \in Bundle
  PROVE  LET all == Archived(a, b)
         IN  /\ \A i \in DOMAIN all : all[i] = b \/ \E j \in DOMAIN a : all[i] = a[j]
             /\ \E i \in DOMAIN all : all[i] = b
<1> DEFINE all == Append(a, b)
<1>1. /\ all \in Seq(Bundle) /\ Len(all) = Len(a) + 1 /\ Len(a) \in Nat /\ DOMAIN a = 1..Len(a)
      /\ \A i \in 1..Len(a) : all[i] = a[i]
      /\ all[Len(all)] = b
  OBVIOUS
<1>2. LocalKeep \in Nat \ {0}
  BY SyncAssumption DEF SyncAssumption
<1> HIDE DEF all
<1>3. \A i \in 1..Len(all) : all[i] = b \/ \E j \in DOMAIN a : all[i] = a[j]
  <2> SUFFICES ASSUME NEW i \in 1..Len(all), i # Len(all) PROVE all[i] = a[i] /\ i \in DOMAIN a
    BY <1>1
  <2>1. i \in 1..Len(a)
    BY <1>1
  <2> QED BY <1>1, <2>1
<1>4. CASE Len(all) <= LocalKeep
  <2>1. Archived(a, b) = all
    BY <1>4 DEF Archived, all
  <2>2. DOMAIN all = 1..Len(all) /\ Len(all) \in 1..Len(all)
    BY <1>1
  <2> QED BY <1>1, <1>3, <2>1, <2>2
<1>5. CASE ~(Len(all) <= LocalKeep)
  <2> DEFINE l == Len(all) - LocalKeep + 1
             sub == SubSeq(all, l, Len(all))
  <2>1. Archived(a, b) = sub
    BY <1>5 DEF Archived, all
  <2>2. l \in 1..Len(all) /\ Len(all) \in Nat
    BY <1>1, <1>2, <1>5
  <2>3. \A i \in l..Len(all) : all[i] \in Bundle
    BY <1>1, <2>2
  <2> HIDE DEF l
  <2>4. /\ sub \in Seq(Bundle) /\ Len(sub) = Len(all) - l + 1
        /\ \A i \in 1..(Len(all) - l + 1) : sub[i] = all[l + i - 1]
    BY <1>1, <2>2, <2>3, SubSeqProperties
  <2>5. DOMAIN sub = 1..(Len(all) - l + 1)
    BY <2>4
  <2> HIDE DEF sub
  <2>6. \A i \in DOMAIN sub : sub[i] = b \/ \E j \in DOMAIN a : sub[i] = a[j]
    <3> SUFFICES ASSUME NEW i \in DOMAIN sub PROVE sub[i] = b \/ \E j \in DOMAIN a : sub[i] = a[j]
      OBVIOUS
    <3>1. l + i - 1 \in 1..Len(all) /\ sub[i] = all[l + i - 1]
      BY <2>2, <2>4, <2>5
    <3> QED BY <1>3, <3>1
  <2>7. Len(all) - l + 1 \in DOMAIN sub /\ sub[Len(all) - l + 1] = b
    <3>1. Len(all) - l + 1 \in 1..(Len(all) - l + 1) /\ l + (Len(all) - l + 1) - 1 = Len(all)
      BY <2>2
    <3> QED BY <1>1, <2>4, <2>5, <3>1
  <2> QED BY <2>1, <2>6, <2>7
<1> QED BY <1>4, <1>5

Sends == {"send", "put", "reply"}

SaveAt(m, s) ==
  /\ proc[m][s].pc \in Sends => proc[m][s].hash # Empty
  /\ proc[m][s].op = "restore" /\ proc[m][s].pc \in {"snapshot", "remove", "place"}
       => proc[m][s].head.hash # Empty

Choice == [save : Bundle, over : Nat, alone : BOOLEAN]

SavesOK ==
  /\ chosen \in [Machine -> Choice]
  /\ \A i \in DOMAIN gens : gens[i] # Empty
  /\ \A r \in late : r.body # Empty
  /\ \A m \in Machine :
       /\ \A i \in DOMAIN archives[m] : archives[m][i] # Empty
       /\ chosen[m].alone => chosen[m].save # Empty
       /\ \A s \in Procs : SaveAt(m, s)

LEMMA SavesQuiet ==
  ASSUME SavesOK, UNCHANGED <<gens, late, archives, chosen>>, NEW m \in Machine, NEW s \in Procs,
         OthersStand(m, s), SaveAt(m, s)'
  PROVE  SavesOK'
<1>1. \A n \in Machine, t \in Procs : SaveAt(n, t)'
  BY DEF SavesOK, SaveAt, OthersStand
<1> QED BY <1>1 DEF SavesOK

\* What a push that is served adds is its bundle.
LEMMA ServeAdds ==
  ASSUME NEW r, Serve(r)
  PROVE  \/ gens' = gens /\ by' = by /\ (Same(r) \/ Refused(r))
         \/ ~Same(r) /\ ~Refused(r) /\ gens' = Append(gens, r.body) /\ by' = Append(by, r.by)
  BY DEF Serve, service

LEMMA SavesServe ==
  ASSUME IInv, SavesOK, NEW r \in Request, r.body # Empty, Serve(r)
  PROVE  \A i \in DOMAIN gens' : gens'[i] # Empty
<1>1. CASE gens' = gens
  BY <1>1 DEF SavesOK
<1>2. CASE gens' = Append(gens, r.body)
  <2>1. r.body \in Bundle /\ gens \in Seq(Bundle)
    BY DEF Request, IInv, DataOK
  <2>2. \A i \in DOMAIN gens' : (i \in DOMAIN gens /\ gens'[i] = gens[i]) \/ gens'[i] = r.body
    BY <1>2, <2>1
  <2> QED BY <2>2 DEF SavesOK
<1> QED BY <1>1, <1>2, ServeAdds

LEMMA SavesCommand ==
  ASSUME IInv, ShapeOK, SavesOK, NEW m \in Machine, NEW s \in Procs, Command(m, s), ~Ended(m, s)
  PROVE  SavesOK'
<1> DEFINE p == proc[m][s]
           q == proc'[m][s]
<1>1. SaveAt(m, s) /\ Empty' = Empty
  BY DEF SavesOK, Empty
<1>2. CASE TakeLock(m, s) \/ Look(m, s) \/ Compare(m, s) \/ PushBundle(m, s) \/ PushSend(m, s)
           \/ PullMeta(m, s) \/ Agree(m, s)
  <2>1. OthersStand(m, s) /\ UNCHANGED <<gens, late, archives, chosen>>
    BY <1>2, TakeLockDoes, LookDoes, CompareDoes, PushBundleDoes, PushSendDoes, NoteDoes
       DEF local, service, history
  <2>2. \/ q.pc \notin Sends \cup {"snapshot", "remove", "place"}
        \/ q.pc = "send" /\ q.hash # Empty
        \/ p.pc = "send" /\ q.pc = "put" /\ q.hash = p.hash
    BY <1>2, TakeLockDoes, LookDoes, CompareDoes, PushBundleDoes, PushSendDoes, NoteDoes DEF Sends
  <2>3. SaveAt(m, s)'
    BY <1>1, <2>2 DEF SaveAt, Sends
  <2> QED BY <2>1, <2>3, SavesQuiet
<1>3. CASE PullFetch(m, s)
  <2>1. p.op # "restore" /\ OthersStand(m, s) /\ UNCHANGED <<gens, late, archives, chosen>> /\ q.op = p.op /\ q.pc = "place"
    BY <1>3, PullFetchDoes DEF local, service, history, ShapeOK, ShapeAt, ShapeOf, Synced
  <2>2. SaveAt(m, s)'
    BY <2>1 DEF SaveAt, Sends
  <2> QED BY <2>1, <2>2, SavesQuiet
<1>4. CASE PutArrives(m, s)
  <2> DEFINE r == Put(m, p)
  <2>1. /\ OthersStand(m, s) /\ UNCHANGED <<late, archives, chosen>> /\ p.pc = "put"
        /\ q.pc = "ended" \/ (q.pc = "reply" /\ q.hash = p.hash)
        /\ r \in Request /\ r.body = p.hash /\ Serve(r)
    BY <1>4, PutArrivesDoes DEF local, history
  <2> HIDE DEF r
  <2>2. r.body # Empty /\ SaveAt(m, s)'
    BY <1>1, <2>1 DEF SaveAt, Sends
  <2>3. \A n \in Machine, t \in Procs : SaveAt(n, t)'
    BY <2>1, <2>2 DEF SavesOK, SaveAt, OthersStand
  <2> QED BY <1>1, <2>1, <2>2, <2>3, SavesServe DEF SavesOK
<1>5. CASE PushReply(m, s) \/ PullDone(m, s) \/ RecordAgreed(m, s) \/ PullCompare(m, s)
  <2>1. /\ OthersStand(m, s) /\ UNCHANGED <<gens, late, archives>> /\ q.op = p.op
        /\ q.pc = "ended" \/ (p.pc = "compare" /\ q.pc = "snapshot")
    BY <1>5, RecordDoes DEF service
  <2>2. chosen' = chosen \/ \E c : chosen' = [chosen EXCEPT ![m] = IF c THEN NoChoice ELSE @]
    BY <1>5, RecordDoes
  <2>3. SaveAt(m, s)'
    BY <1>5, <2>1 DEF SaveAt, Sends, ShapeOK, ShapeAt, ShapeOf, Synced
  <2>4. \A n \in Machine, t \in Procs : SaveAt(n, t)'
    BY <2>1, <2>3 DEF SavesOK, SaveAt, OthersStand
  <2>5. /\ \A n \in Machine : chosen'[n].alone => chosen'[n].save # Empty
        /\ chosen' \in [Machine -> Choice]
    <3>1. ~NoChoice.alone /\ NoChoice \in Choice
      BY Types, SyncAssumption DEF NoChoice, Choice
    <3>2. chosen' = chosen \/ chosen' = [chosen EXCEPT ![m] = NoChoice] \/ chosen' = [chosen EXCEPT ![m] = chosen[m]]
      BY <2>2
    <3> QED BY <3>1, <3>2 DEF SavesOK
  <2> QED BY <1>1, <2>1, <2>4, <2>5 DEF SavesOK
<1>6. CASE Snapshot(m, s)
  <2>1. /\ OthersStand(m, s) /\ UNCHANGED <<gens, late, chosen>> /\ q.op = p.op /\ q.head = p.head
        /\ p.pc = "snapshot" /\ q.pc \in {"remove", "fetch"}
        /\ \A n \in Machine : n # m => archives'[n] = archives[n]
        /\ archives'[m] = IF files[m] = Empty THEN archives[m] ELSE Archived(archives[m], files[m])
    BY <1>6, SnapshotDoes DEF service, history
  <2>2. SaveAt(m, s)'
    BY <1>1, <2>1 DEF SaveAt, Sends
  <2>3. \A n \in Machine, t \in Procs : SaveAt(n, t)'
    BY <2>1, <2>2 DEF SavesOK, SaveAt, OthersStand
  <2>4. archives[m] \in Seq(Bundle) /\ files[m] \in Bundle
    BY DEF IInv, DataOK
  <2>5. \A i \in DOMAIN archives'[m] : archives'[m][i] # Empty
    BY <2>1, <2>4, ArchivedHas DEF SavesOK
  <2> QED BY <1>1, <2>1, <2>3, <2>5 DEF SavesOK
<1>7. CASE Place(m, s)
  <2>1. /\ OthersStand(m, s) /\ UNCHANGED <<gens, late, archives, chosen>>
        /\ q.op = p.op /\ q.pc = "place" /\ p.pc = "place" /\ q.head = p.head
    BY <1>7, PlaceDoes DEF service
  <2>2. SaveAt(m, s)'
    BY <1>1, <2>1 DEF SaveAt, Sends
  <2> QED BY <2>1, <2>2, SavesQuiet
<1>8. CASE Remove(m, s)
  <2>1. /\ OthersStand(m, s) /\ UNCHANGED <<gens, late, archives, chosen>>
        /\ q.op = p.op /\ q.pc = "place" /\ p.pc = "remove" /\ q.head = p.head
    BY <1>8, RemoveDoes DEF service, history
  <2>2. SaveAt(m, s)'
    BY <1>1, <2>1 DEF SaveAt, Sends
  <2> QED BY <2>1, <2>2, SavesQuiet
<1>9. ASSUME NEW b \in Bundle, b # Empty, chosen' \in {chosen, Chosen(m, b)}
      PROVE  /\ \A n \in Machine : chosen'[n].alone => chosen'[n].save # Empty
             /\ chosen' \in [Machine -> Choice]
  <2> DEFINE c == [save |-> b, over |-> Current.gen, alone |-> proc[m][Watch].pc \in {"idle", "done"}]
  <2>1. c \in Choice /\ c.save = b
    BY CurrentType, SyncAssumption DEF Choice, HeadRecord, IInv
  <2>2. chosen' = chosen \/ chosen' = [chosen EXCEPT ![m] = c]
    BY <1>9 DEF Chosen
  <2> HIDE DEF c
  <2> QED BY <1>9, <2>1, <2>2 DEF SavesOK
<1>10. CASE Choose(m, s)
  <2>1. PICK b \in {gens[i] : i \in Kept} \cup {archives[m][i] : i \in DOMAIN archives[m]} :
           /\ OthersStand(m, s) /\ q.op = p.op
           /\ q.pc \in {"agree", "snapshot"} /\ q.head.hash = b
           /\ chosen' = IF files[m] = b THEN Chosen(m, b) ELSE chosen
           /\ UNCHANGED <<gens, late, archives>>
    BY <1>10, ChooseDoes DEF local, service
  <2>2. b \in Bundle /\ b # Empty
    <3>1. gens \in Seq(Bundle) /\ archives[m] \in Seq(Bundle)
      BY DEF IInv, DataOK
    <3> QED BY <2>1, <3>1 DEF Kept, SavesOK
  <2>3. SaveAt(m, s)'
    BY <1>1, <2>1, <2>2 DEF SaveAt, Sends
  <2>4. \A n \in Machine, t \in Procs : SaveAt(n, t)'
    BY <2>1, <2>3 DEF SavesOK, SaveAt, OthersStand
  <2>5. chosen' \in {chosen, Chosen(m, b)}
    BY <2>1
  <2> QED BY <1>1, <1>9, <2>1, <2>2, <2>4, <2>5 DEF SavesOK
<1>11. CASE Placed(m, s)
  <2>1. /\ OthersStand(m, s) /\ p.op = "restore" /\ p.pc = "place" /\ q.pc = "agree"
        /\ chosen' = Chosen(m, p.head.hash) /\ UNCHANGED <<gens, late, archives>>
    BY <1>11, PlacedDoes DEF local, service
  <2>2. p.head.hash \in Bundle /\ p.head.hash # Empty
    BY <1>1, <2>1 DEF SaveAt, IInv, ProcsOK, Proc, HeadRecord
  <2>3. SaveAt(m, s)'
    BY <2>1 DEF SaveAt, Sends
  <2>4. \A n \in Machine, t \in Procs : SaveAt(n, t)'
    BY <2>1, <2>3 DEF SavesOK, SaveAt, OthersStand
  <2> QED BY <1>1, <1>9, <2>1, <2>2, <2>4 DEF SavesOK
<1> QED BY <1>2, <1>3, <1>4, <1>5, <1>6, <1>7, <1>8, <1>10, <1>11 DEF Command

LEMMA SavesFaults ==
  ASSUME IInv, ShapeOK, SavesOK, NEW m \in Machine, NEW s \in Procs, Faults(m, s)
  PROVE  SavesOK'
<1> DEFINE p == proc[m][s]
           q == proc'[m][s]
<1>1. SaveAt(m, s) /\ Empty' = Empty /\ p \in Proc
  BY DEF SavesOK, Empty, IInv, ProcsOK
<1>2. CASE PutLost(m, s) \/ Unanswered(m, s) \/ Kill(m, s)
  <2>1. /\ OthersStand(m, s) /\ q.pc = "ended" /\ UNCHANGED <<gens, archives, chosen>>
        /\ late' = late \/ (p.pc = "put" /\ late' = late \cup {Put(m, p)})
    BY <1>2, StopDoes DEF local, service, history
  <2>2. p.pc = "put" => Put(m, p).body # Empty
    BY <1>1 DEF Put, SaveAt, Sends
  <2>3. \A r \in late' : r.body # Empty
    BY <2>1, <2>2 DEF SavesOK
  <2>4. SaveAt(m, s)'
    BY <2>1 DEF SaveAt, Sends
  <2>5. \A n \in Machine, t \in Procs : SaveAt(n, t)'
    BY <2>1, <2>4 DEF SavesOK, SaveAt, OthersStand
  <2> QED BY <1>1, <2>1, <2>3, <2>5 DEF SavesOK
<1>3. CASE Broken(m, s)
  <2>1. /\ OthersStand(m, s) /\ q.op = p.op /\ UNCHANGED <<gens, late, archives, chosen>>
        /\ q.pc = "ended" \/ (q.pc \in {"fetch", "place"} /\ p.op \in Synced)
    BY <1>3, BrokenDoes DEF local, service, history
  <2>2. SaveAt(m, s)'
    BY <2>1 DEF SaveAt, Sends, Synced
  <2> QED BY <2>1, <2>2, SavesQuiet
<1> QED BY <1>2, <1>3 DEF Faults

LEMMA SavesRests ==
  ASSUME IInv, ShapeOK, SavesOK, NEW m \in Machine, Rests(m)
  PROVE  SavesOK'
<1>1. UNCHANGED <<gens, late, archives, chosen>>
  BY RestsDoes DEF local, service, history
<1>2. ASSUME NEW n \in Machine, NEW t \in Procs PROVE SaveAt(n, t)'
  <2>1. SaveAt(n, t)
    BY DEF SavesOK
  <2>2. CASE proc'[n][t] = proc[n][t]
    BY <2>1, <2>2 DEF SaveAt
  <2>3. CASE proc'[n][t].pc \in {"idle", "sleep", "done", "lock", "bundle", "meta", "choose"}
    BY <2>3 DEF SaveAt, Sends
  <2> QED BY <2>2, <2>3, RestsDoes
<1> QED BY <1>1, <1>2 DEF SavesOK

LEMMA SavesBeside ==
  ASSUME IInv, SavesOK, Beside
  PROVE  SavesOK'
<1>1. UNCHANGED <<archives, proc>> /\ late' \subseteq late
  BY BesideDoes
<1>2. \A n \in Machine, t \in Procs : SaveAt(n, t)'
  BY <1>1 DEF SavesOK, SaveAt
<1>3. \A i \in DOMAIN gens' : gens'[i] # Empty
  <2>1. CASE gens' = gens
    BY <2>1 DEF SavesOK
  <2>2. CASE Elsewhere
    <3>1. PICK b \in Bundle : /\ gens' = Append(gens, b)
                              /\ b = [f \in File |-> ver + 1] \/ \E f \in File : b = [Current.hash EXCEPT ![f] = ver + 1]
      BY <2>2, ElsewhereDoes
    <3>2. \E f \in File : b[f] = ver + 1
      <4>1. Current.hash \in [File -> 0..MaxVer] /\ File # {}
        BY CurrentType, SyncAssumption DEF IInv, HeadRecord, Bundle, SyncAssumption
      <4> QED BY <3>1, <4>1
    <3>3. b # Empty
      BY <3>2 DEF Empty, IInv, DataOK
    <3>4. \A i \in DOMAIN gens' : (i \in DOMAIN gens /\ gens'[i] = gens[i]) \/ gens'[i] = b
      BY <3>1 DEF IInv, DataOK
    <3> QED BY <3>3, <3>4 DEF SavesOK
  <2>3. CASE \E r \in late : PutArrivesLate(r)
    <3>1. PICK r \in late : Serve(r)
      BY <2>3 DEF PutArrivesLate
    <3> QED BY <3>1, SavesServe DEF SavesOK, IInv, DataOK
  <2> QED BY <2>1, <2>2, <2>3 DEF Beside, GameWrites, GameStops, GameResumes, service, vars
<1>4. /\ \A n \in Machine : chosen'[n].alone => chosen'[n].save # Empty
      /\ chosen' \in [Machine -> Choice]
  <2>1. chosen' = chosen \/ \E m \in Machine : chosen' = [chosen EXCEPT ![m] = NoChoice]
    BY DEF Beside, GameWrites, GameStops, GameResumes, PutArrivesLate, Elsewhere, vars, history
  <2>2. ~NoChoice.alone /\ NoChoice \in Choice
    BY Types, SyncAssumption DEF NoChoice, Choice
  <2> QED BY <2>1, <2>2 DEF SavesOK
<1> QED BY <1>1, <1>2, <1>3, <1>4 DEF SavesOK, Empty

LEMMA SavesNext == IInv /\ ShapeOK /\ SavesOK /\ [Next]_vars => SavesOK'
  BY NextCases, SavesRests, SavesCommand, SavesFaults, SavesBeside

LEMMA SavesInit == Init => SavesOK
<1> SUFFICES ASSUME Init PROVE SavesOK
  OBVIOUS
<1>1. IdleProc.pc = "idle" /\ ~NoChoice.alone /\ NoChoice \in Choice
  BY Types, SyncAssumption DEF IdleProc, NoChoice, Choice
<1> QED BY <1>1 DEF Init, SavesOK, SaveAt, Sends

-----------------------------------------------------------------------------
(* Faults are counted *)

CountsOK == {asked, lost, killed, broken} \subseteq Nat

LEMMA CommandCounts ==
  ASSUME IInv, NEW m \in Machine, NEW s \in Procs, Command(m, s), ~Ended(m, s)
  PROVE  UNCHANGED counts
  BY TakeLockDoes, LookDoes, CompareDoes, PushBundleDoes, PushSendDoes, PutArrivesDoes, RecordDoes,
     NoteDoes, SnapshotDoes, PullFetchDoes, PlaceDoes, ChooseDoes, RemoveDoes, PlacedDoes DEF Command

LEMMA CountsNext ==
  CountsOK /\ IInv /\ ShapeOK /\ [Next]_vars
    => CountsOK' /\ asked' >= asked /\ lost' >= lost /\ killed' >= killed /\ broken' >= broken
<1> SUFFICES ASSUME CountsOK, IInv, ShapeOK, [Next]_vars
             PROVE  CountsOK' /\ asked' >= asked /\ lost' >= lost /\ killed' >= killed /\ broken' >= broken
  OBVIOUS
<1>1. ASSUME NEW m \in Machine, NEW s \in Slot, NEW op \in Ops, Start(m, s, op)
      PROVE  asked' \in {asked, asked + 1} /\ UNCHANGED <<lost, killed, broken>>
  BY <1>1, StartDoes
<1>2. CASE UNCHANGED counts
  BY <1>2 DEF CountsOK, counts
<1>3. CASE \E m \in Machine, s \in Procs : Faults(m, s)
  BY <1>3 DEF Faults, PutLost, Unanswered, Broken, Kill, CountsOK
<1>4. UNCHANGED <<asked, lost, killed, broken>> \/ ~Beside
  BY BesideDoes
<1>5. UNCHANGED counts \/ ~\/ \E m \in Machine, s \in Procs : Ended(m, s)
                           \/ \E m \in Machine, s \in Procs : Command(m, s) /\ ~Ended(m, s)
                           \/ \E m \in Machine : Tick(m)
  BY EndedDoes, CommandCounts, TickDoes
<1> QED BY <1>1, <1>2, <1>3, <1>4, <1>5, Cases DEF CountsOK

LEMMA CountsInit == Init => CountsOK
  BY DEF Init, CountsOK

-----------------------------------------------------------------------------
(* A save that was put back *)

\* A restore that has placed its save and has not told the journal yet.
Agreeing(m) == \E s \in Slot : proc[m][s].op = "restore" /\ proc[m][s].pc \in {"agree", "record"}

\* What a command knows is no older than the head the save was put back over,
\* and a sync that is to place something has a newer one, or nothing here.
ChoiceSafe(m, s) ==
  LET p == proc[m][s]
      o == chosen[m].over
  IN  /\ p.pc \in {"compare", "record", "reply"} \/ (p.pc = "place" /\ p.op # "restore") => p.head.gen >= o
      /\ p.op \in Synced =>
           /\ p.pc = "ask" => p.head.gen >= o
           /\ p.pc \in Pulls => Len(gens) > o \/ files[m] = Empty
           /\ p.pc = "place" /\ Unplaced(p) => p.head.gen > o \/ files[m] = Empty

ChoiceAt(m) ==
  chosen[m].alone =>
    /\ chosen[m].over <= Len(gens)
    /\ journal[m].gen >= chosen[m].over \/ Agreeing(m)
    /\ \A s \in Procs : ChoiceSafe(m, s)

ChoiceOK == \A m \in Machine : ChoiceAt(m)

\* What nobody moves stands.
LEMMA ChoiceElsewhere ==
  ASSUME IInv, SavesOK, ChoiceOK, NEW m \in Machine, UNCHANGED <<files[m], journal[m], chosen[m]>>,
         \A s \in Procs : proc'[m][s] = proc[m][s],
         Len(gens') >= Len(gens), Len(gens') \in Nat
  PROVE  ChoiceAt(m)'
<1>1. chosen[m].over \in Nat /\ Len(gens) \in Nat
  BY DEF SavesOK, Choice, IInv, DataOK
<1>2. Agreeing(m)' <=> Agreeing(m)
  BY DEF Agreeing, Procs
<1> QED BY <1>1, <1>2 DEF ChoiceOK, ChoiceAt, ChoiceSafe, Empty

LEMMA ChoiceMoves ==
  ASSUME IInv, ShapeOK, Apart, SavesOK, ChoiceOK, NEW m \in Machine, NEW s \in Procs,
         OthersStand(m, s), proc[m][s].pc \notin Resting,
         \A n \in Machine : n # m => UNCHANGED <<files[n], journal[n], chosen[n]>>,
         chosen'[m] = chosen[m] \/ ~chosen'[m].alone,
         Len(gens') >= Len(gens), Len(gens') \in Nat,
         ChoiceAt(m) /\ chosen[m].alone /\ chosen'[m] = chosen[m]
           => /\ journal'[m].gen >= chosen[m].over \/ Agreeing(m)'
              /\ ChoiceSafe(m, s)'
  PROVE  ChoiceOK'
<1>1. chosen[m].over \in Nat /\ Len(gens) \in Nat
  BY DEF SavesOK, Choice, IInv, DataOK
<1>2. ASSUME NEW n \in Machine, n # m PROVE ChoiceAt(n)'
  <2>1. \A t \in Procs : proc'[n][t] = proc[n][t]
    BY <1>2 DEF OthersStand
  <2> QED BY <1>2, <2>1, ChoiceElsewhere
<1>3. ASSUME chosen'[m].alone PROVE ChoiceAt(m)'
  <2>1. chosen'[m] = chosen[m] /\ ChoiceAt(m)
    BY <1>3 DEF ChoiceOK
  <2>2. ASSUME NEW t \in Procs, t # s PROVE ChoiceSafe(m, t)'
    <3>1. ChoiceSafe(m, t) /\ proc'[m][t] = proc[m][t]
      BY <1>3, <2>1, <2>2 DEF ChoiceAt, OthersStand
    <3>2. ~(proc[m][t].op \in Synced /\ proc[m][t].pc \notin Resting)
      BY <2>2, Alone
    <3> QED BY <2>1, <3>1, <3>2 DEF ChoiceSafe, Resting, Pulls
  <2> QED BY <1>1, <1>3, <2>1, <2>2 DEF ChoiceAt
<1> QED BY <1>2, <1>3 DEF ChoiceOK, ChoiceAt

\* The choice itself: whoever else could be in its way is at rest.
LEMMA ChoiceMade ==
  ASSUME IInv, ShapeOK, Apart, SavesOK, ChoiceOK, NEW m \in Machine, NEW s \in Slot, NEW b,
         OthersStand(m, s), UNCHANGED <<files, journal, gens>>, chosen' = Chosen(m, b),
         proc[m][s].op = "restore", proc'[m][s].op = "restore", proc'[m][s].pc = "agree"
  PROVE  ChoiceOK'
<1>1. s \in Procs /\ gens \in Seq(Bundle) /\ chosen \in [Machine -> Choice]
  BY DEF Procs, IInv, DataOK, SavesOK
<1>2. \A n \in Machine : n # m => chosen'[n] = chosen[n]
  BY <1>1 DEF Chosen
<1>3. ASSUME NEW n \in Machine, n # m PROVE ChoiceAt(n)'
  <2>1. \A t \in Procs : proc'[n][t] = proc[n][t]
    BY <1>3 DEF OthersStand
  <2> QED BY <1>1, <1>2, <1>3, <2>1, ChoiceElsewhere
<1>4. ASSUME chosen'[m].alone PROVE ChoiceAt(m)'
  <2>1. chosen'[m].over = Current.gen /\ proc[m][Watch].pc \in {"idle", "done"}
    <3> DEFINE c == [save |-> b, over |-> Current.gen, alone |-> proc[m][Watch].pc \in {"idle", "done"}]
    <3>1. chosen'[m] = c /\ c.over = Current.gen /\ c.alone = (proc[m][Watch].pc \in {"idle", "done"})
      BY <1>1 DEF Chosen
    <3> QED BY <1>4, <3>1
  <2>2. chosen'[m].over = Len(gens) /\ Len(gens) \in Nat
    BY <1>1, <2>1 DEF Current, NoHead
  <2>3. ASSUME NEW t \in Procs PROVE proc'[m][t].pc \in {"idle", "sleep", "done", "agree"}
    <3>1. CASE t = s
      BY <3>1
    <3>2. CASE t = Watch /\ t # s
      BY <2>1, <3>2 DEF OthersStand
    <3>3. CASE t \in Slot /\ t # s
      <4>1. proc[m][t].op = "none" /\ ShapeAt(m, t) /\ proc'[m][t] = proc[m][t]
        BY <3>3 DEF Apart, ShapeOK, OthersStand, Procs
      <4> QED BY <4>1 DEF ShapeAt, ShapeOf, Synced
    <3> QED BY <3>1, <3>2, <3>3 DEF Procs
  <2>4. \A t \in Procs : ChoiceSafe(m, t)'
    BY <2>3 DEF ChoiceSafe, Pulls
  <2>5. Agreeing(m)'
    BY DEF Agreeing
  <2> QED BY <2>2, <2>4, <2>5 DEF ChoiceAt
<1> QED BY <1>3, <1>4 DEF ChoiceOK, ChoiceAt

\* A step that leaves the journal and the save files alone.
LEMMA ChoiceQuiet ==
  ASSUME IInv, SavesOK, ChoiceOK, NEW m \in Machine, NEW s \in Procs,
         OthersStand(m, s), UNCHANGED <<files, journal, chosen>>, proc'[m][s].op = proc[m][s].op,
         Len(gens') >= Len(gens), Len(gens') \in Nat,
         proc[m][s].op = "restore" /\ proc[m][s].pc \in {"agree", "record"}
           => proc'[m][s].pc \in {"agree", "record"} \/ gens = <<>>,
         ChoiceAt(m) /\ chosen[m].alone => ChoiceSafe(m, s)'
  PROVE  ChoiceOK'
<1> DEFINE o == chosen[m].over
<1>1. o \in Nat /\ gens \in Seq(Bundle) /\ Len(gens) \in Nat /\ journal[m].gen \in Nat
  BY DEF SavesOK, Choice, IInv, DataOK
<1>2. ASSUME NEW n \in Machine, n # m PROVE ChoiceAt(n)'
  <2>1. \A t \in Procs : proc'[n][t] = proc[n][t]
    BY <1>2 DEF OthersStand
  <2> QED BY <1>1, <1>2, <2>1, ChoiceElsewhere
<1>3. ASSUME chosen[m].alone PROVE ChoiceAt(m)'
  <2>1. ChoiceAt(m)
    BY DEF ChoiceOK
  <2>2. journal'[m].gen >= o \/ Agreeing(m)'
    <3>1. CASE journal[m].gen >= o
      BY <3>1
    <3>2. CASE gens = <<>>
      BY <1>1, <1>3, <2>1, <3>2 DEF ChoiceAt
    <3>3. CASE Agreeing(m) /\ gens # <<>>
      BY <3>3 DEF Agreeing, OthersStand, Procs
    <3> QED BY <1>3, <2>1, <3>1, <3>2, <3>3 DEF ChoiceAt
  <2>3. ASSUME NEW t \in Procs PROVE ChoiceSafe(m, t)'
    <3>1. CASE t = s
      BY <1>3, <2>1, <3>1
    <3>2. CASE t # s
      <4>1. ChoiceSafe(m, t) /\ proc'[m][t] = proc[m][t]
        BY <1>3, <2>1, <3>2 DEF ChoiceAt, OthersStand
      <4> QED BY <1>1, <4>1 DEF ChoiceSafe, Empty
    <3> QED BY <3>1, <3>2
  <2> QED BY <1>1, <1>3, <2>1, <2>2, <2>3 DEF ChoiceAt
<1> QED BY <1>2, <1>3 DEF ChoiceOK, ChoiceAt

LEMMA ChoiceCommand ==
  ASSUME IInv, ShapeOK, Apart, SyncOK, SavesOK, ChoiceOK, NEW m \in Machine, NEW s \in Procs,
         Command(m, s), ~Ended(m, s)
  PROVE  ChoiceOK'
<1> DEFINE p == proc[m][s]
           q == proc'[m][s]
           o == chosen[m].over
<1>1. /\ p \in Proc /\ ShapeAt(m, s) /\ gens \in Seq(Bundle) /\ Len(gens) \in Nat /\ o \in Nat
      /\ journal[m].gen \in Nat /\ SyncSafe(m, s) /\ p.head.gen \in Nat
      /\ chosen \in [Machine -> Choice] /\ Current.gen \in Nat
  <2>1. Current \in HeadRecord
    BY CurrentType, SyncAssumption DEF IInv
  <2>2. Current.gen \in Nat /\ p \in Proc /\ p.head.gen \in Nat
    BY <2>1 DEF IInv, ProcsOK, Proc, HeadRecord
  <2>3. chosen \in [Machine -> Choice] /\ o \in Nat
    BY DEF SavesOK, Choice
  <2> QED BY <2>2, <2>3 DEF IInv, DataOK, ShapeOK, SyncOK
<1>2. ChoiceAt(m) /\ chosen[m].alone => ChoiceSafe(m, s) /\ o <= Len(gens)
  BY DEF ChoiceAt
<1>3. Current.gen = Len(gens)
  BY <1>1 DEF Current, NoHead
<1>4. CASE TakeLock(m, s) \/ PushBundle(m, s) \/ PushSend(m, s)
  <2>1. /\ OthersStand(m, s) /\ UNCHANGED <<files, journal, gens, chosen>> /\ q.op = p.op
        /\ p.pc \notin {"agree", "record"} /\ q.pc \in {"ended", "bundle", "look", "send", "put"}
    BY <1>4, TakeLockDoes, PushBundleDoes, PushSendDoes DEF local, service, history
  <2>2. ChoiceSafe(m, s)'
    BY <2>1 DEF ChoiceSafe, Pulls
  <2> QED BY <1>1, <2>1, <2>2, ChoiceQuiet
<1>5. CASE Look(m, s)
  <2>1. /\ OthersStand(m, s) /\ UNCHANGED <<files, journal, gens, chosen>> /\ q.op = p.op
        /\ p.pc = "look" /\ q.pc = "ask" /\ q.head.gen = journal[m].gen
    BY <1>5, LookDoes DEF local, service, history
  <2>2. p.op \in Synced /\ s \in Slot
    BY <1>1, <2>1 DEF ShapeAt, ShapeOf, Synced, Procs
  <2>3. ~Agreeing(m)
    BY <2>1, <2>2 DEF Agreeing, Apart, Synced
  <2>4. ChoiceAt(m) /\ chosen[m].alone => ChoiceSafe(m, s)'
    BY <2>1, <2>3 DEF ChoiceAt, ChoiceSafe, Pulls
  <2> QED BY <1>1, <2>1, <2>4, ChoiceQuiet
<1>6. CASE Compare(m, s)
  <2>1. /\ OthersStand(m, s) /\ UNCHANGED <<files, journal, gens, chosen>> /\ q.op = p.op /\ p.pc = "ask"
        /\ q.pc \in {"bundle", "ended"} \/ (RemoteNewer(p) /\ q.pc = "meta")
    BY <1>6, CompareDoes DEF local, service, history
  <2>2. ASSUME ChoiceAt(m), chosen[m].alone, p.op \in Synced, q.pc = "meta"
        PROVE  Len(gens) > o \/ files[m] = Empty
    <3>1. p.head.gen >= o /\ p.hash = files[m]
      BY <1>1, <1>2, <2>1, <2>2 DEF ChoiceSafe, SyncSafe
    <3> QED BY <1>1, <1>3, <2>1, <2>2, <3>1 DEF RemoteNewer
  <2>3. ChoiceAt(m) /\ chosen[m].alone => ChoiceSafe(m, s)'
    BY <2>1, <2>2 DEF ChoiceSafe, Pulls, Empty
  <2> QED BY <1>1, <2>1, <2>3, ChoiceQuiet
<1>7. CASE PutArrives(m, s)
  <2>1. /\ OthersStand(m, s) /\ UNCHANGED <<files, journal, chosen>> /\ q.op = p.op /\ p.pc = "put" /\ Grows
        /\ q.pc = "ended" \/ (q.pc = "reply" /\ q.head.gen = Len(gens'))
    BY <1>7, PutArrivesDoes DEF local, history
  <2>2. Len(gens') >= Len(gens) /\ Len(gens') \in Nat
    BY <1>1, <2>1 DEF Grows
  <2>3. ChoiceAt(m) /\ chosen[m].alone => ChoiceSafe(m, s)'
    BY <1>1, <1>2, <2>1, <2>2 DEF ChoiceSafe, Pulls
  <2> QED BY <1>1, <2>1, <2>2, <2>3, ChoiceQuiet
<1>8. CASE PullMeta(m, s) \/ Agree(m, s)
  <2>1. /\ OthersStand(m, s) /\ UNCHANGED <<files, journal, gens, chosen>> /\ q.op = p.op
        /\ \/ gens = <<>> /\ q.pc = "ended"
           \/ /\ q.pc = IF p.pc = "meta" THEN "compare" ELSE "record"
              /\ q.head = Current
        /\ p.pc \in {"meta", "agree"}
    BY <1>8, NoteDoes DEF local, service, history
  <2>2. ChoiceAt(m) /\ chosen[m].alone => ChoiceSafe(m, s)'
    BY <1>1, <1>2, <1>3, <2>1 DEF ChoiceSafe, Pulls, Empty
  <2> QED BY <1>1, <2>1, <2>2, ChoiceQuiet
<1>9. CASE Snapshot(m, s) \/ PullFetch(m, s)
  <2>1. /\ OthersStand(m, s) /\ UNCHANGED <<files, journal, gens, chosen>> /\ q.op = p.op
        /\ \/ p.pc = "snapshot" /\ q.pc \in {"fetch", "remove"}
           \/ p.pc = "fetch" /\ q.pc = "place" /\ q.head = Current
    BY <1>9, SnapshotDoes, PullFetchDoes DEF local, service, history
  <2>2. ChoiceAt(m) /\ chosen[m].alone => ChoiceSafe(m, s)'
    BY <1>1, <1>2, <1>3, <2>1 DEF ChoiceSafe, Pulls, Empty
  <2> QED BY <1>1, <2>1, <2>2, ChoiceQuiet
<1>10. CASE PushReply(m, s) \/ PullDone(m, s) \/ RecordAgreed(m, s) \/ PullCompare(m, s)
  <2>1. /\ OthersStand(m, s) /\ UNCHANGED <<files, gens>> /\ q.op = p.op /\ p.pc \notin Resting
        /\ \A n \in Machine : n # m => journal'[n] = journal[n]
        /\ p.pc \in {"reply", "place", "record", "compare"} /\ (p.pc = "place" => p.op # "restore")
        /\ \/ q.pc = "ended" /\ journal'[m].gen = p.head.gen
           \/ p.pc = "compare" /\ q.pc = "snapshot" /\ journal' = journal
    BY <1>10, RecordDoes DEF service, Resting
  <2>2. chosen' = chosen \/ \E c : chosen' = [chosen EXCEPT ![m] = IF c THEN NoChoice ELSE @]
    BY <1>10, RecordDoes
  <2>3. /\ \A n \in Machine : n # m => chosen'[n] = chosen[n]
        /\ chosen'[m] = chosen[m] \/ ~chosen'[m].alone
    <3>1. ~NoChoice.alone
      BY DEF NoChoice
    <3> QED BY <1>1, <2>2, <3>1
  <2>4. ASSUME ChoiceAt(m), chosen[m].alone, chosen'[m] = chosen[m]
        PROVE  (journal'[m].gen >= o \/ Agreeing(m)') /\ ChoiceSafe(m, s)'
    <3>1. p.head.gen >= o
      BY <1>2, <2>1, <2>4 DEF ChoiceSafe
    <3>2. ChoiceSafe(m, s)'
      BY <1>2, <2>1, <2>4 DEF ChoiceSafe, Pulls, Empty
    <3>3. journal'[m].gen >= o \/ Agreeing(m)'
      <4>1. CASE q.pc = "ended"
        BY <2>1, <3>1, <4>1
      <4>2. CASE p.pc = "compare" /\ journal' = journal /\ Agreeing(m)
        BY <2>1, <4>2 DEF Agreeing, OthersStand, Procs
      <4> QED BY <2>1, <2>4, <4>1, <4>2 DEF ChoiceAt
    <3> QED BY <3>2, <3>3
  <2> QED BY <1>1, <2>1, <2>3, <2>4, ChoiceMoves
<1>11. CASE Place(m, s) \/ Remove(m, s)
  <2>1. /\ OthersStand(m, s) /\ UNCHANGED <<journal, gens, chosen>> /\ q.op = p.op /\ q.pc = "place"
        /\ q.head = p.head /\ \A n \in Machine : n # m => files'[n] = files[n]
        /\ \/ p.pc = "place" /\ (p.op \in Synced => ~Unplaced(q))
           \/ p.pc = "remove" /\ p.op = "restore"
    <3>1. CASE Remove(m, s)
      <4>1. p.pc = "remove" /\ p.op = "restore"
        BY <1>1, <3>1, RemoveDoes DEF ShapeAt, ShapeOf
      <4> QED BY <3>1, <4>1, RemoveDoes DEF service, history
    <3>2. CASE Place(m, s)
      <4>1. PICK f \in p.todo : /\ p.pc = "place" /\ q.head = p.head /\ q.todo = p.todo \ {f} /\ f \in File
        BY <3>2, PlaceDoes
      <4>2. p.op \in Synced => ~Unplaced(q)
        BY <1>1, <4>1 DEF Unplaced, SyncSafe
      <4> QED BY <3>2, <4>1, <4>2, PlaceDoes DEF service, history
    <3> QED BY <1>11, <3>1, <3>2
  <2>2. ASSUME ChoiceAt(m), chosen[m].alone
        PROVE  (journal'[m].gen >= o \/ Agreeing(m)') /\ ChoiceSafe(m, s)'
    <3>1. ChoiceSafe(m, s)'
      BY <1>2, <2>1, <2>2 DEF ChoiceSafe, Pulls, Unplaced, Synced
    <3>2. journal'[m].gen >= o \/ Agreeing(m)'
      BY <2>1, <2>2 DEF ChoiceAt, Agreeing, OthersStand, Procs
    <3> QED BY <3>1, <3>2
  <2> QED BY <1>1, <2>1, <2>2, ChoiceMoves DEF Resting
<1>12. CASE Choose(m, s)
  <2>1. PICK b : /\ OthersStand(m, s) /\ p.pc = "choose" /\ q.op = p.op
                 /\ q.pc = IF files[m] = b THEN "agree" ELSE "snapshot"
                 /\ chosen' = IF files[m] = b THEN Chosen(m, b) ELSE chosen
                 /\ UNCHANGED <<files, journal, gens>>
    BY <1>12, ChooseDoes DEF local, service
  <2>2. p.op = "restore" /\ s \in Slot
    BY <1>1, <2>1 DEF ShapeAt, ShapeOf, Procs, Synced
  <2>3. CASE files[m] = b
    BY <2>1, <2>2, <2>3, ChoiceMade
  <2>4. CASE files[m] # b
    <3>1. ChoiceSafe(m, s)'
      BY <2>1, <2>2, <2>4 DEF ChoiceSafe, Synced
    <3> QED BY <1>1, <2>1, <2>4, <3>1, ChoiceQuiet
  <2> QED BY <2>3, <2>4
<1>13. CASE Placed(m, s)
  <2>1. /\ OthersStand(m, s) /\ p.op = "restore" /\ q.op = "restore" /\ p.pc = "place" /\ q.pc = "agree"
        /\ chosen' = Chosen(m, p.head.hash) /\ UNCHANGED <<files, journal, gens>>
    BY <1>13, PlacedDoes DEF local, service
  <2>2. s \in Slot
    BY <1>1, <2>1 DEF ShapeAt, Procs
  <2> QED BY <2>1, <2>2, ChoiceMade
<1> QED BY <1>4, <1>5, <1>6, <1>7, <1>8, <1>9, <1>10, <1>11, <1>12, <1>13 DEF Command

LEMMA ChoiceFaults ==
  ASSUME IInv, ShapeOK, SyncOK, SavesOK, ChoiceOK, NEW m \in Machine, NEW s \in Procs, Faults(m, s),
         lost \in Nat, lost = 0, lost' = 0
  PROVE  ChoiceOK'
<1> DEFINE p == proc[m][s]
           q == proc'[m][s]
<1>1. gens \in Seq(Bundle) /\ Len(gens) \in Nat /\ p \in Proc /\ SyncSafe(m, s)
  BY DEF IInv, DataOK, ProcsOK, SyncOK
<1>2. ChoiceAt(m) /\ chosen[m].alone => ChoiceSafe(m, s)
  BY DEF ChoiceAt
<1>3. /\ OthersStand(m, s) /\ q.op = p.op /\ UNCHANGED <<files, journal, gens, chosen>>
      /\ p.op = "restore" => p.pc \notin {"agree", "record"}
      /\ \/ q.pc = "ended"
         \/ p.pc = "snapshot" /\ q.pc = "fetch" /\ p.op \in Synced
         \/ /\ p.pc = "place" /\ q.pc = "place" /\ p.op \in Synced /\ q.head = p.head
            /\ \E f \in p.todo : q.todo = p.todo \ {f}
  <2>1. CASE PutLost(m, s) \/ Unanswered(m, s) \/ Kill(m, s)
    <3>1. lost' = lost + 1 \/ p.op = "sync"
      BY <2>1, StopDoes
    <3> QED BY <2>1, <3>1, StopDoes DEF local, service, history
  <2>2. CASE Broken(m, s)
    BY <2>2, BrokenDoes DEF local, service, history
  <2> QED BY <2>1, <2>2 DEF Faults
<1>4. ASSUME ChoiceAt(m), chosen[m].alone PROVE ChoiceSafe(m, s)'
  <2>1. CASE q.pc = "ended"
    BY <2>1 DEF ChoiceSafe, Pulls
  <2>2. CASE p.pc = "snapshot" /\ q.pc = "fetch" /\ p.op \in Synced
    BY <1>2, <1>3, <1>4, <2>2 DEF ChoiceSafe, Pulls, Empty
  <2>3. CASE /\ p.pc = "place" /\ q.pc = "place" /\ p.op \in Synced /\ q.head = p.head
             /\ \E f \in p.todo : q.todo = p.todo \ {f}
    <3>1. ~Unplaced(q)
      BY <1>1, <2>3 DEF Unplaced, SyncSafe, Proc
    <3> QED BY <1>2, <1>3, <1>4, <2>3, <3>1 DEF ChoiceSafe, Pulls, Synced
  <2> QED BY <1>3, <2>1, <2>2, <2>3
<1> QED BY <1>1, <1>3, <1>4, ChoiceQuiet

LEMMA ChoiceRests ==
  ASSUME IInv, ShapeOK, SavesOK, ChoiceOK, NEW m \in Machine, Rests(m)
  PROVE  ChoiceOK'
<1>1. UNCHANGED <<files, journal, gens, chosen>> /\ gens \in Seq(Bundle)
  BY RestsDoes DEF local, service, history, IInv, DataOK
<1>2. ASSUME NEW n \in Machine, n # m PROVE ChoiceAt(n)'
  <2>1. \A t \in Procs : proc'[n][t] = proc[n][t]
    BY <1>2, RestsDoes
  <2> QED BY <1>1, <1>2, <2>1, ChoiceElsewhere
<1>3. ASSUME chosen[m].alone PROVE ChoiceAt(m)'
  <2>1. ChoiceAt(m)
    BY DEF ChoiceOK
  <2>2. Agreeing(m) => Agreeing(m)'
    BY RestsDoes DEF Agreeing, Procs
  <2>3. ASSUME NEW t \in Procs PROVE ChoiceSafe(m, t)'
    <3>1. ChoiceSafe(m, t)
      BY <1>3, <2>1 DEF ChoiceAt
    <3>2. CASE proc'[m][t] = proc[m][t]
      BY <1>1, <3>1, <3>2 DEF ChoiceSafe, Empty
    <3>3. CASE \/ proc'[m][t].pc \in {"idle", "sleep", "done", "lock"}
               \/ proc'[m][t].pc \in {"bundle", "meta", "choose"} /\ proc'[m][t].op \in Asked
      BY <3>3 DEF ChoiceSafe, Pulls, Asked, Synced
    <3> QED BY <3>2, <3>3, RestsDoes
  <2> QED BY <1>1, <1>3, <2>1, <2>2, <2>3 DEF ChoiceAt
<1> QED BY <1>1, <1>2, <1>3 DEF ChoiceOK, ChoiceAt

LEMMA ChoiceBeside ==
  ASSUME IInv, SavesOK, ChoiceOK, Beside
  PROVE  ChoiceOK'
<1>1. UNCHANGED <<journal, proc>> /\ Grows
  BY BesideDoes, BesideGrows
<1>2. gens \in Seq(Bundle) /\ Len(gens') >= Len(gens) /\ Len(gens') \in Nat
  BY <1>1 DEF IInv, DataOK, Grows
<1>3. CASE UNCHANGED <<files, chosen>>
  BY <1>1, <1>2, <1>3, ChoiceElsewhere DEF ChoiceOK
<1>4. ASSUME NEW m \in Machine, GameWrites(m) PROVE ChoiceOK'
  <2>1. chosen' = [chosen EXCEPT ![m] = NoChoice] /\ \E f \in File : files' = [files EXCEPT ![m][f] = ver']
    BY <1>4 DEF GameWrites
  <2>2. \A n \in Machine : n # m => UNCHANGED <<files[n], chosen[n]>>
    BY <2>1 DEF IInv, DataOK, SavesOK
  <2>3. ~chosen'[m].alone
    BY <2>1 DEF NoChoice, SavesOK
  <2>4. \A n \in Machine : n # m => ChoiceAt(n)'
    BY <1>1, <1>2, <2>2, ChoiceElsewhere
  <2> QED BY <2>3, <2>4 DEF ChoiceOK, ChoiceAt
<1>5. UNCHANGED <<files, chosen>> \/ \E m \in Machine : GameWrites(m)
  BY DEF Beside, GameStops, GameResumes, PutArrivesLate, Elsewhere, vars, local, history
<1> QED BY <1>3, <1>4, <1>5

LEMMA ChoiceNext ==
  IInv /\ CountsOK /\ ShapeOK /\ Apart /\ SyncOK /\ SavesOK /\ (lost = 0 => ChoiceOK) /\ [Next]_vars
    => (lost' = 0 => ChoiceOK')
<1> SUFFICES ASSUME IInv, CountsOK, ShapeOK, Apart, SyncOK, SavesOK, lost = 0 => ChoiceOK, [Next]_vars, lost' = 0
             PROVE  ChoiceOK'
  OBVIOUS
<1>1. lost = 0 /\ lost \in Nat
  BY CountsNext DEF CountsOK
<1> QED BY <1>1, NextCases, ChoiceRests, ChoiceCommand, ChoiceFaults, ChoiceBeside

LEMMA ChoiceInit == Init => ChoiceOK
  BY DEF Init, ChoiceOK, ChoiceAt, NoChoice

\* While the service answers, a save somebody put back is not written over by
\* the head that was there then: the journal it leaves says that what is here
\* is a change on top of that head (saves-history.sh saves_restore_one and
\* saves_restore_journal, read by saves-sync.sh saves_check_one).
THEOREM RestoreStandsFor == Spec /\ []Apart => []RestoreStandsOnline
<1>1. Init => ShapeOK /\ CountsOK /\ SyncOK /\ SavesOK /\ (lost = 0 => ChoiceOK)
  BY ShapeInit, CountsInit, SyncInit, SavesInit, ChoiceInit
<1>2. IInv /\ ShapeOK /\ CountsOK /\ SyncOK /\ SavesOK /\ (lost = 0 => ChoiceOK) /\ Apart /\ [Next]_vars
        => ShapeOK' /\ CountsOK' /\ SyncOK' /\ SavesOK' /\ (lost = 0 => ChoiceOK)'
  BY ShapeNext, CountsNext, SyncNext, SavesNext, ChoiceNext
<1>3. SavesOK /\ IInv /\ (lost = 0 => ChoiceOK) => RestoreStandsOnline
  <2> SUFFICES ASSUME SavesOK, IInv, ChoiceOK, NEW m \in Machine, NEW s \in Slot,
                      proc[m][s].op \in Synced, proc[m][s].pc = "place",
                      proc[m][s].head.gen = chosen[m].over, Unplaced(proc[m][s]), chosen[m].alone
               PROVE  files[m] # chosen[m].save
    BY DEF RestoreStandsOnline, RestoreStands, Unplaced
  <2>1. ChoiceSafe(m, s) /\ chosen[m].save # Empty /\ chosen[m].over \in Nat
    BY DEF ChoiceOK, ChoiceAt, SavesOK, Choice, Procs
  <2> QED BY <2>1 DEF ChoiceSafe
<1> QED BY <1>1, <1>2, <1>3, IInvHolds, PTL DEF Spec

-----------------------------------------------------------------------------
(* Where commands keep apart by themselves *)

\* One command at a time, and none that moves save files is run beside a game.
OneCommand == (\A s, t \in Slot : s = t) /\ OpsOn \cap Movers = {}

\* What a game that is stopped or runs has beside it.
ApartAt(m) ==
  /\ game[m] = "on" => \A s \in Slot : proc[m][s].op \notin Movers
  /\ game[m] = "paused" => \A s \in Slot : proc[m][s].op \in OpsPaused \/ proc[m][s].op \notin Movers
ApartOK == \A m \in Machine : ApartAt(m)

LEMMA ApartNext == OneCommand /\ IInv /\ ShapeOK /\ ApartOK /\ [Next]_vars => ApartOK'
<1> SUFFICES ASSUME OneCommand, IInv, ShapeOK, ApartOK, [Next]_vars PROVE ApartOK'
  OBVIOUS
<1>1. ASSUME NEW m \in Machine, NEW s \in Slot, NEW op \in Ops, Start(m, s, op) PROVE ApartOK'
  <2>1. /\ op \in CASE game[m] = "off" -> OpsOff
                    [] game[m] = "paused" -> OpsPaused
                    [] game[m] = "on" -> OpsOn
        /\ game' = game /\ OthersStand(m, s) /\ proc'[m][s].op = op
    BY <1>1, StartDoes DEF Start
  <2>2. (game[m] = "on" => op \in OpsOn) /\ (game[m] = "paused" => op \in OpsPaused)
    BY <2>1
  <2> QED BY <2>1, <2>2 DEF OneCommand, ApartOK, ApartAt, OthersStand, Procs
<1>2. ASSUME NEW m \in Machine, NEW s \in Procs, Ended(m, s) PROVE ApartOK'
  <2>1. IdleProc.op = "none" /\ "none" \notin Movers
    BY DEF IdleProc, Movers
  <2>2. /\ \A n \in Machine, t \in Procs : n # m => proc'[n][t] = proc[n][t]
        /\ \A t \in Procs : t \notin {s, Watch} => proc'[m][t] = proc[m][t]
        /\ s = Watch \/ proc'[m][s] = IdleProc
        /\ game' = game \/ (game' = [game EXCEPT ![m] = "on"] /\ s # Watch)
    <3>1. CASE s = Watch
      BY <1>2, <3>1, EndedDoes
    <3>2. CASE s # Watch
      BY <1>2, <3>2, EndedDoes
    <3> QED BY <3>1, <3>2
  <2>3. \A t \in Slot : (t # s => s = Watch) /\ t # Watch
    BY SyncAssumption DEF OneCommand, Procs, SyncAssumption, Watch
  <2>4. \A n \in Machine : n # m => game'[n] = game[n]
    BY <2>2 DEF IInv, DataOK
  <2> QED BY <2>1, <2>2, <2>3, <2>4 DEF ApartOK, ApartAt, Procs
<1>3. ASSUME NEW m \in Machine, NEW s \in Procs, \/ Command(m, s) /\ ~Ended(m, s)
                                                 \/ Faults(m, s)
      PROVE  ApartOK'
  <2>1. game' = game /\ OthersStand(m, s) /\ proc'[m][s].op = proc[m][s].op
    BY <1>3, TakeLockDoes, LookDoes, CompareDoes, PushBundleDoes, PushSendDoes, PutArrivesDoes, RecordDoes,
       NoteDoes, SnapshotDoes, PullFetchDoes, PlaceDoes, ChooseDoes, RemoveDoes, PlacedDoes, StopDoes, BrokenDoes
       DEF Command, Faults
  <2> QED BY <2>1 DEF ApartOK, ApartAt, OthersStand, Procs
<1>4. ASSUME NEW m \in Machine, Tick(m) PROVE ApartOK'
  <2>1. game' = game /\ OthersStand(m, Watch) /\ Watch \notin Slot
    BY <1>4, TickDoes, SyncAssumption DEF SyncAssumption, Watch
  <2> QED BY <2>1 DEF ApartOK, ApartAt, OthersStand, Procs
<1>5. CASE Beside
  <2>1. proc' = proc
    BY <1>5, BesideDoes
  <2>2. CASE game' = game
    BY <2>1, <2>2 DEF ApartOK, ApartAt
  <2>3. ASSUME NEW m \in Machine, GameStops(m) \/ GameResumes(m) PROVE ApartOK'
    <3>1. \A n \in Machine : n # m => game'[n] = game[n]
      BY <2>3 DEF GameStops, GameResumes, IInv, DataOK
    <3>2. \/ game[m] = "on" /\ game'[m] \in {"off", "paused"}
          \/ game[m] = "paused" /\ game'[m] = "on" /\ \A s \in Slot : proc[m][s].op \notin OpsPaused
      BY <2>3 DEF GameStops, GameResumes, IInv, DataOK
    <3> QED BY <2>1, <3>1, <3>2 DEF ApartOK, ApartAt
  <2> QED BY <1>5, <2>2, <2>3 DEF Beside, GameWrites, PutArrivesLate, Elsewhere, vars
<1> QED BY <1>1, <1>2, <1>3, <1>4, <1>5, Cases

\* Where one command runs at a time and none that moves save files is run
\* beside a game, as every configuration checked has it, Apart holds: a game
\* that is started or started again leaves no such command behind it.
THEOREM ApartHolds ==
  ASSUME OneCommand
  PROVE  Spec => []Apart
<1>1. Init => ShapeOK /\ ApartOK
  BY ShapeInit DEF Init, ApartOK, ApartAt
<1>2. IInv /\ ShapeOK /\ ApartOK /\ [Next]_vars => ShapeOK' /\ ApartOK'
  BY ShapeNext, ApartNext
<1>3. ApartOK => Apart
  BY DEF OneCommand, ApartOK, ApartAt, Apart
<1> QED BY <1>1, <1>2, <1>3, IInvHolds, PTL DEF Spec

-----------------------------------------------------------------------------
(* Whose generations those are that a machine has not recorded *)

\* Somebody else has pushed since this machine's base.
Ahead(m) == \E i \in DOMAIN gens : i > journal[m].gen /\ by[i] # m

\* What a machine pushed itself and has not recorded, a push of its own is
\* just hearing of.
Recorded(m) ==
  \A i \in DOMAIN gens :
    by[i] = m /\ i > journal[m].gen
      => \E s \in Procs : proc[m][s].pc = "reply" /\ proc[m][s].head.gen = i

MineSafe(m, s) ==
  LET p == proc[m][s]
  IN  /\ p.op \in Synced /\ p.pc = "ask" => p.head.gen = journal[m].gen
      /\ p.pc = "put" => p.head.hash = journal[m].hash
      /\ p.pc \in {"reply", "compare", "place"} => p.head.gen >= journal[m].gen
      /\ p.pc = "ended" /\ p.rc = 2 => lock[m] = s /\ Ahead(m)

MineAt(m) == Recorded(m) /\ \A s \in Procs : MineSafe(m, s)

MineOK ==
  /\ late = {} /\ by \in Seq(Machine \cup {Other}) /\ Len(by) = Len(gens)
  /\ \A m \in Machine : MineAt(m)

\* Until somebody asks for more, whoever works has the lock.
LEMMA Holds ==
  ASSUME IInv, ShapeOK, asked = 0, NEW m \in Machine, NEW s \in Procs, proc[m][s].pc \notin Resting
  PROVE  lock[m] = s /\ proc[m][s].op \in Synced \cup {"tick"}
<1>1. ShapeAt(m, s)
  BY DEF ShapeOK
<1>2. proc[m][s].op \in Synced \cup {"tick"}
  BY <1>1 DEF ShapeAt, ShapeOf, Asked, Resting, Synced
<1> QED BY <1>2 DEF Locked, IInv, ProcsOK

LEMMA AheadStays ==
  ASSUME IInv, MineOK, NEW m \in Machine, journal'[m] = journal[m], Ahead(m),
         \/ UNCHANGED <<gens, by>>
         \/ \E b \in Bundle : \E x : gens' = Append(gens, b) /\ by' = Append(by, x)
  PROVE  Ahead(m)'
<1>1. PICK i \in DOMAIN gens : i > journal[m].gen /\ by[i] # m
  BY DEF Ahead
<1>2. i \in DOMAIN gens' /\ by'[i] = by[i]
  <2>1. CASE UNCHANGED <<gens, by>>
    BY <2>1
  <2>2. ASSUME NEW b \in Bundle, NEW x, gens' = Append(gens, b) /\ by' = Append(by, x)
        PROVE  i \in DOMAIN gens' /\ by'[i] = by[i]
    <3>1. gens \in Seq(Bundle) /\ by \in Seq(Machine \cup {Other}) /\ Len(by) = Len(gens)
      BY DEF MineOK, IInv, DataOK
    <3> QED BY <2>2, <3>1
  <2> QED BY <2>1, <2>2
<1> QED BY <1>1, <1>2 DEF Ahead

\* A step of a command that no journal and no generation comes of.
LEMMA MineQuiet ==
  ASSUME IInv, MineOK, NEW m \in Machine, NEW s \in Procs,
         OthersStand(m, s), UNCHANGED <<journal, gens, by, late>>, proc[m][s].pc # "reply",
         \A n \in Machine, t \in Procs : lock[n] = t /\ (n # m \/ t # s) => lock'[n] = t,
         MineSafe(m, s)'
  PROVE  MineOK'
<1>1. \A n \in Machine : Ahead(n)' <=> Ahead(n)
  BY DEF Ahead
<1>2. ASSUME NEW n \in Machine PROVE Recorded(n)'
  <2>1. Recorded(n)
    BY DEF MineOK, MineAt
  <2> QED BY <2>1 DEF Recorded, OthersStand
<1>3. ASSUME NEW n \in Machine, NEW t \in Procs PROVE MineSafe(n, t)'
  <2>1. CASE n = m /\ t = s
    BY <2>1
  <2>2. CASE n # m \/ t # s
    <3>1. MineSafe(n, t) /\ proc'[n][t] = proc[n][t]
      BY <2>2 DEF MineOK, MineAt, OthersStand
    <3> QED BY <1>1, <2>2, <3>1 DEF MineSafe
  <2> QED BY <2>1, <2>2
<1> QED BY <1>2, <1>3 DEF MineOK, MineAt

\* Whoever works is alone with its machine's journal.
LEMMA MineAlone ==
  ASSUME IInv, ShapeOK, MineOK, asked = 0, NEW m \in Machine, NEW s \in Procs, NEW t \in Procs, t # s,
         proc[m][s].pc \notin Resting
  PROVE  /\ proc[m][t].pc \in Resting
         /\ ~(proc[m][t].pc = "ended" /\ proc[m][t].rc = 2)
<1>1. lock[m] = s
  BY Holds
<1>2. MineSafe(m, t)
  BY DEF MineOK, MineAt
<1> QED BY <1>1, <1>2, Holds DEF MineSafe

LEMMA MineMoves ==
  ASSUME IInv, ShapeOK, MineOK, asked = 0, NEW m \in Machine, NEW s \in Procs,
         OthersStand(m, s), UNCHANGED <<gens, by, late, lock>>, proc[m][s].pc \notin Resting,
         \A n \in Machine : n # m => journal'[n] = journal[n],
         MineSafe(m, s)', Recorded(m)'
  PROVE  MineOK'
<1>1. \A n \in Machine : n # m => (Ahead(n)' <=> Ahead(n))
  BY DEF Ahead
<1>2. ASSUME NEW n \in Machine PROVE Recorded(n)'
  <2>1. Recorded(n)
    BY DEF MineOK, MineAt
  <2> QED BY <2>1 DEF Recorded, OthersStand
<1>3. ASSUME NEW n \in Machine, NEW t \in Procs PROVE MineSafe(n, t)'
  <2>1. CASE n = m /\ t = s
    BY <2>1
  <2>2. CASE n # m
    <3>1. MineSafe(n, t) /\ proc'[n][t] = proc[n][t]
      BY <2>2 DEF MineOK, MineAt, OthersStand
    <3> QED BY <1>1, <2>2, <3>1 DEF MineSafe
  <2>3. CASE n = m /\ t # s
    <3>1. proc'[n][t] = proc[n][t] /\ proc[m][t].pc \in Resting /\ ~(proc[m][t].pc = "ended" /\ proc[m][t].rc = 2)
      BY <2>3, MineAlone DEF OthersStand
    <3> QED BY <2>3, <3>1 DEF MineSafe, Resting
  <2> QED BY <2>1, <2>2, <2>3
<1> QED BY <1>2, <1>3 DEF MineOK, MineAt

\* A generation nobody here has recorded is somebody else's, for one that
\* works and is not hearing of its own.
LEMMA AheadOf ==
  ASSUME IInv, ShapeOK, MineOK, asked = 0, NEW m \in Machine, NEW s \in Procs,
         proc[m][s].pc \notin Resting \cup {"reply"}, Len(gens) > journal[m].gen
  PROVE  Ahead(m)
<1>1. Len(gens) \in DOMAIN gens
  BY DEF IInv, DataOK, JournalIsTrue
<1>2. ASSUME by[Len(gens)] = m PROVE FALSE
  <2>1. PICK t \in Procs : proc[m][t].pc = "reply"
    BY <1>1, <1>2 DEF MineOK, MineAt, Recorded
  <2>2. t # s
    BY <2>1
  <2> QED BY <2>1, <2>2, MineAlone DEF Resting
<1> QED BY <1>1, <1>2 DEF Ahead

LEMMA MineServe ==
  ASSUME IInv, ShapeOK, MineOK, asked = 0, NEW m \in Machine, NEW s \in Procs, PutArrives(m, s)
  PROVE  MineOK'
<1> DEFINE p == proc[m][s]
           q == proc'[m][s]
           r == Put(m, p)
<1>1. /\ OthersStand(m, s) /\ p.pc = "put" /\ q.op = p.op
      /\ \/ Refused(r) /\ q.pc = "ended" /\ q.rc = 2
         \/ /\ ~Refused(r) /\ q.pc = "reply" /\ q.head.gen = Len(gens')
      /\ r.by = m /\ r.body = p.hash /\ r.parent = p.head.hash /\ r.body \in Bundle
      /\ Serve(r)
      /\ UNCHANGED <<journal, lock, late>>
  BY PutArrivesDoes DEF local, Request
<1>2. /\ gens \in Seq(Bundle) /\ Len(gens) \in Nat /\ journal[m].gen \in Nat /\ journal[m].gen <= Len(gens)
      /\ by \in Seq(Machine \cup {Other}) /\ Len(by) = Len(gens) /\ lock[m] = s
      /\ p.head.hash = journal[m].hash
  <2>1. lock[m] = s
    BY <1>1, Holds DEF Resting
  <2>2. MineSafe(m, s)
    BY DEF MineOK, MineAt
  <2> QED BY <1>1, <2>1, <2>2 DEF IInv, DataOK, JournalIsTrue, MineOK, MineSafe
<1>3. CASE Refused(r)
  <2>1. Len(gens) > journal[m].gen
    <3>1. gens # <<>> /\ p.head.hash # gens[Len(gens)]
      BY <1>1, <1>3 DEF Refused, Current
    <3> QED BY <1>2, <3>1 DEF IInv, JournalIsTrue
  <2>2. Ahead(m)
    BY <1>1, <2>1, AheadOf DEF Resting
  <2>3. UNCHANGED <<gens, by>>
    BY <1>1, <1>3 DEF Serve, service
  <2>4. Ahead(m)'
    BY <1>1, <2>2, <2>3 DEF Ahead
  <2>5. MineSafe(m, s)'
    BY <1>1, <1>2, <1>3, <2>4 DEF MineSafe
  <2> QED BY <1>1, <2>3, <2>5, MineQuiet
<1>4. CASE ~Refused(r)
  <2>1. q.pc = "reply" /\ q.head.gen = Len(gens')
    BY <1>1, <1>4
  <2>2. CASE UNCHANGED <<gens, by>>
    <3>1. MineSafe(m, s)'
      BY <1>1, <1>2, <2>1, <2>2 DEF MineSafe
    <3> QED BY <1>1, <2>2, <3>1, MineQuiet
  <2>3. CASE gens' = Append(gens, r.body) /\ by' = Append(by, r.by)
    <3>1. /\ by' \in Seq(Machine \cup {Other}) /\ Len(by') = Len(gens') /\ Len(gens') = Len(gens) + 1
          /\ \A i \in DOMAIN gens' : i = Len(gens') \/ (i \in DOMAIN gens /\ by'[i] = by[i])
          /\ by'[Len(gens')] = m
      BY <1>1, <1>2, <2>3
    <3>2. \A n \in Machine : Ahead(n) => Ahead(n)'
      BY <1>1, <2>3, AheadStays
    <3>3. ASSUME NEW n \in Machine PROVE Recorded(n)'
      <4>1. Recorded(n)
        BY DEF MineOK, MineAt
      <4>2. ASSUME NEW i \in DOMAIN gens', by'[i] = n, i > journal[n].gen
            PROVE  \E t \in Procs : proc'[n][t].pc = "reply" /\ proc'[n][t].head.gen = i
        <5>1. CASE i = Len(gens')
          BY <2>1, <3>1, <4>2, <5>1
        <5>2. CASE i # Len(gens')
          <6>1. PICK t \in Procs : proc[n][t].pc = "reply" /\ proc[n][t].head.gen = i
            BY <3>1, <4>1, <4>2, <5>2 DEF Recorded
          <6>2. n # m \/ t # s
            BY <1>1, <6>1
          <6> QED BY <1>1, <6>1, <6>2 DEF OthersStand
        <5> QED BY <5>1, <5>2
      <4> QED BY <1>1, <4>2 DEF Recorded
    <3>4. ASSUME NEW n \in Machine, NEW t \in Procs PROVE MineSafe(n, t)'
      <4>1. CASE n = m /\ t = s
        BY <1>1, <1>2, <2>1, <3>1, <4>1 DEF MineSafe
      <4>2. CASE n # m \/ t # s
        <5>1. MineSafe(n, t) /\ proc'[n][t] = proc[n][t]
          BY <1>1, <4>2 DEF MineOK, MineAt, OthersStand
        <5> QED BY <1>1, <3>2, <5>1 DEF MineSafe
      <4> QED BY <4>1, <4>2
    <3> QED BY <1>1, <3>1, <3>3, <3>4 DEF MineOK, MineAt
  <2> QED BY <1>1, <1>4, <2>2, <2>3, ServeAdds
<1> QED BY <1>3, <1>4

LEMMA MineCommand ==
  ASSUME IInv, ShapeOK, MineOK, asked = 0, NEW m \in Machine, NEW s \in Procs, Command(m, s), ~Ended(m, s)
  PROVE  MineOK'
<1> DEFINE p == proc[m][s]
           q == proc'[m][s]
<1>1. /\ p \in Proc /\ ShapeAt(m, s) /\ MineSafe(m, s) /\ gens \in Seq(Bundle) /\ Len(gens) \in Nat
      /\ journal[m].gen \in Nat /\ journal[m].gen <= Len(gens) /\ p.head.gen \in Nat
  <2>1. p \in Proc /\ p.head.gen \in Nat
    BY DEF IInv, ProcsOK, Proc, HeadRecord
  <2> QED BY <2>1 DEF IInv, DataOK, JournalIsTrue, ShapeOK, MineOK, MineAt
<1>2. Current.gen = Len(gens)
  BY <1>1 DEF Current, NoHead
<1>3. CASE TakeLock(m, s)
  <2>1. /\ OthersStand(m, s) /\ UNCHANGED <<journal, gens, by, late>> /\ p.pc = "lock"
        /\ q.pc \in {"bundle", "look"} \/ (q.pc = "ended" /\ q.rc = 1)
    BY <1>3, TakeLockDoes DEF local, service
  <2>2. \A n \in Machine, t \in Procs : lock[n] = t /\ (n # m \/ t # s) => lock'[n] = t
    <3>1. lock' = lock \/ (lock[m] = Free /\ lock' = [lock EXCEPT ![m] = s])
      BY <1>3 DEF TakeLock
    <3>2. Free \notin Procs /\ lock \in [Machine -> Procs \cup {Free}]
      BY Types, SyncAssumption DEF IInv, DataOK
    <3> QED BY <3>1, <3>2
  <2>3. MineSafe(m, s)'
    BY <2>1 DEF MineSafe
  <2> QED BY <2>1, <2>2, <2>3, MineQuiet
<1>4. CASE Look(m, s) \/ PushBundle(m, s) \/ PushSend(m, s) \/ PullMeta(m, s) \/ Agree(m, s)
           \/ Snapshot(m, s) \/ PullFetch(m, s) \/ Place(m, s)
  <2>1. /\ OthersStand(m, s) /\ UNCHANGED <<journal, gens, by, late, lock>> /\ p.pc # "reply"
    BY <1>4, LookDoes, PushBundleDoes, PushSendDoes, NoteDoes, SnapshotDoes, PullFetchDoes, PlaceDoes
       DEF local, service
  <2>2. \/ q.pc = "ask" /\ q.head.gen = journal[m].gen
        \/ q.pc = "put" /\ q.head.hash = journal[m].hash
        \/ q.pc \in {"place", "compare"} /\ q.head = Current
        \/ q.pc = "place" /\ q.head = p.head /\ p.pc = "place"
        \/ q.pc \in {"send", "fetch", "remove", "record"}
        \/ q.pc = "ended" /\ q.rc # 2
    <3>1. CASE Look(m, s) \/ PushBundle(m, s) \/ PushSend(m, s)
      BY <3>1, LookDoes, PushBundleDoes, PushSendDoes
    <3>2. CASE PullMeta(m, s) \/ Agree(m, s) \/ Snapshot(m, s)
      BY <3>2, NoteDoes, SnapshotDoes
    <3>3. CASE PullFetch(m, s) \/ Place(m, s)
      BY <3>3, PullFetchDoes, PlaceDoes
    <3> QED BY <1>4, <3>1, <3>2, <3>3
  <2>3. MineSafe(m, s)'
    BY <1>1, <1>2, <2>1, <2>2 DEF MineSafe
  <2> QED BY <2>1, <2>3, MineQuiet
<1>5. CASE Compare(m, s)
  <2>1. /\ OthersStand(m, s) /\ UNCHANGED <<journal, gens, by, late, lock>> /\ p.pc = "ask"
        /\ \/ q.pc \in {"bundle", "meta"} 
           \/ q.pc = "ended" /\ q.rc = 0
           \/ q.pc = "ended" /\ InConflict(p)
    BY <1>5, CompareDoes DEF local, service
  <2>2. p.op \in Synced /\ lock[m] = s
    BY <1>1, <2>1, Holds DEF ShapeAt, ShapeOf, Resting, Synced
  <2>3. InConflict(p) => Ahead(m)
    BY <1>1, <1>2, <2>1, <2>2, AheadOf DEF InConflict, MineSafe, Resting
  <2>4. Ahead(m) => Ahead(m)'
    BY <2>1 DEF Ahead
  <2>5. MineSafe(m, s)'
    BY <2>1, <2>2, <2>3, <2>4 DEF MineSafe
  <2> QED BY <2>1, <2>5, MineQuiet
<1>6. CASE PushReply(m, s) \/ PullDone(m, s) \/ PullCompare(m, s) \/ RecordAgreed(m, s)
  <2>1. /\ OthersStand(m, s) /\ UNCHANGED <<gens, by, late, lock>>
        /\ \A n \in Machine : n # m => journal'[n] = journal[n]
        /\ p.pc \in {"reply", "place", "record", "compare"}
        /\ \/ q.pc = "ended" /\ q.rc = 0 /\ journal'[m].gen = p.head.gen
           \/ p.pc = "compare" /\ q.pc = "snapshot" /\ journal' = journal
    BY <1>6, RecordDoes DEF service
  <2>2. p.pc # "record" /\ p.pc \notin Resting
    BY <1>1, <2>1, Holds DEF Resting, ShapeAt, ShapeOf, Synced
  <2>3. journal'[m].gen >= journal[m].gen /\ (q.pc = "snapshot" \/ journal'[m].gen = p.head.gen)
    BY <1>1, <2>1, <2>2 DEF MineSafe
  <2>4. ASSUME NEW i \in DOMAIN gens, by[i] = m, i > journal'[m].gen PROVE FALSE
    <3>1. i \in Nat /\ journal'[m].gen \in Nat
      BY <1>1, <2>1
    <3>2. PICK t \in Procs : proc[m][t].pc = "reply" /\ proc[m][t].head.gen = i
      BY <1>1, <2>3, <2>4, <3>1 DEF MineOK, MineAt, Recorded
    <3>3. t = s
      BY <2>2, <3>2, MineAlone DEF Resting
    <3> QED BY <1>1, <2>1, <2>4, <3>2, <3>3
  <2>5. Recorded(m)'
    BY <2>1, <2>4 DEF Recorded
  <2>6. MineSafe(m, s)'
    BY <2>1 DEF MineSafe
  <2> QED BY <2>1, <2>2, <2>5, <2>6, MineMoves
<1>7. CASE Choose(m, s) \/ Remove(m, s) \/ Placed(m, s)
  <2>1. p.op = "restore"
    BY <1>1, <1>7, ChooseDoes, RemoveDoes, PlacedDoes DEF ShapeAt, ShapeOf
  <2> QED BY <1>1, <2>1 DEF ShapeAt, Asked
<1> QED BY <1>3, <1>4, <1>5, <1>6, <1>7, MineServe DEF Command

LEMMA MineFaults ==
  ASSUME IInv, ShapeOK, CountsOK, MineOK, NEW m \in Machine, NEW s \in Procs, Faults(m, s),
         lost' = 0, killed' = 0
  PROVE  MineOK'
<1> DEFINE q == proc'[m][s]
<1>1. lost \in Nat /\ killed \in Nat
  BY DEF CountsOK
<1>2. Broken(m, s)
  <2>1. ~(PutLost(m, s) \/ Unanswered(m, s) \/ Kill(m, s))
    BY <1>1, StopDoes
  <2> QED BY <2>1 DEF Faults
<1>3. /\ OthersStand(m, s) /\ UNCHANGED <<journal, gens, by, late, lock>> /\ proc[m][s].pc # "reply"
      /\ \/ q.pc = "ended" /\ q.rc = 1
         \/ q.pc = "fetch"
         \/ q.pc = "place" /\ proc[m][s].pc = "place" /\ q.head = proc[m][s].head
  BY <1>2, BrokenDoes DEF local, service
<1>4. MineSafe(m, s)
  BY DEF MineOK, MineAt
<1>5. MineSafe(m, s)'
  BY <1>3, <1>4 DEF MineSafe
<1> QED BY <1>3, <1>5, MineQuiet

LEMMA MineRests ==
  ASSUME IInv, ShapeOK, MineOK, NEW m \in Machine, Rests(m)
  PROVE  MineOK'
<1>1. UNCHANGED <<journal, gens, by, late>>
  BY RestsDoes DEF local, service
<1>2. \A n \in Machine : Ahead(n)' <=> Ahead(n)
  BY <1>1 DEF Ahead
<1>3. ASSUME NEW n \in Machine, NEW t \in Procs
      PROVE  \/ proc'[n][t] = proc[n][t] /\ (lock[n] = t /\ proc[n][t].pc = "ended" => lock'[n] = t)
             \/ /\ n = m /\ proc[m][t].pc \in {"idle", "ended", "done", "sleep"}
                /\ proc'[n][t].pc \in {"idle", "sleep", "done", "lock", "bundle", "meta", "choose"}
  <2>1. CASE lock' = lock
    BY <2>1, RestsDoes
  <2>2. ASSUME NEW s \in Procs, Ended(m, s)
        PROVE  \/ proc'[n][t] = proc[n][t] /\ (lock[n] = t /\ proc[n][t].pc = "ended" => lock'[n] = t)
               \/ /\ n = m /\ proc[m][t].pc \in {"idle", "ended", "done", "sleep"}
                  /\ proc'[n][t].pc \in {"idle", "sleep", "done", "lock", "bundle", "meta", "choose"}
    <3>1. lock' = [lock EXCEPT ![m] = IF @ = s THEN Free ELSE @] /\ lock \in [Machine -> Procs \cup {Free}]
      BY <2>2 DEF Ended, IInv, DataOK
    <3>2. CASE n = m /\ t = s
      <4>1. proc[m][s].pc = "ended" /\ proc'[m][s].pc \in {"idle", "sleep", "done"}
        <5>1. IdleProc.pc = "idle"
          BY DEF IdleProc
        <5> QED BY <2>2, <5>1, EndedDoes
      <4> QED BY <3>2, <4>1
    <3>3. CASE n # m \/ t # s
      <4>1. lock[n] = t => lock'[n] = t
        BY <3>1, <3>3
      <4> QED BY <4>1, RestsDoes
    <3> QED BY <3>2, <3>3
  <2>3. lock' = lock \/ \E s \in Procs : Ended(m, s)
    BY DEF Rests, Start, Tick
  <2> QED BY <2>1, <2>2, <2>3
<1>4. ASSUME NEW n \in Machine PROVE Recorded(n)'
  <2>1. Recorded(n)
    BY DEF MineOK, MineAt
  <2>2. \A t \in Procs : proc[n][t].pc = "reply" => proc'[n][t] = proc[n][t]
    BY <1>3
  <2> QED BY <1>1, <2>1, <2>2 DEF Recorded
<1>5. ASSUME NEW n \in Machine, NEW t \in Procs PROVE MineSafe(n, t)'
  <2>1. MineSafe(n, t)
    BY DEF MineOK, MineAt
  <2> QED BY <1>1, <1>2, <1>3, <2>1 DEF MineSafe
<1> QED BY <1>1, <1>4, <1>5 DEF MineOK, MineAt

LEMMA MineBeside ==
  ASSUME IInv, MineOK, Beside
  PROVE  MineOK'
<1>1. UNCHANGED <<journal, proc, lock>>
  BY BesideDoes
<1>2. /\ UNCHANGED late
      /\ \/ UNCHANGED <<gens, by>>
         \/ \E b \in Bundle : gens' = Append(gens, b) /\ by' = Append(by, Other)
  <2>1. CASE Elsewhere
    BY <2>1, ElsewhereDoes
  <2>2. CASE \E r \in late : PutArrivesLate(r)
    BY <2>2 DEF MineOK
  <2> QED BY <2>1, <2>2 DEF Beside, GameWrites, GameStops, GameResumes, vars, service
<1>3. CASE UNCHANGED <<gens, by>>
  <2>1. \A n \in Machine : Ahead(n)' <=> Ahead(n)
    BY <1>1, <1>3 DEF Ahead
  <2>2. ASSUME NEW n \in Machine PROVE Recorded(n)'
    BY <1>1, <1>3 DEF Recorded, MineOK, MineAt
  <2>3. ASSUME NEW n \in Machine, NEW t \in Procs PROVE MineSafe(n, t)'
    BY <1>1, <2>1 DEF MineSafe, MineOK, MineAt
  <2> QED BY <1>2, <1>3, <2>2, <2>3 DEF MineOK, MineAt
<1>4. ASSUME NEW b \in Bundle, gens' = Append(gens, b), by' = Append(by, Other) PROVE MineOK'
  <2>1. \A n \in Machine : Ahead(n) => Ahead(n)'
    BY <1>1, <1>4, AheadStays
  <2>2. /\ by' \in Seq(Machine \cup {Other}) /\ Len(by') = Len(gens')
        /\ \A i \in DOMAIN gens' : (i \in DOMAIN gens /\ by'[i] = by[i]) \/ by'[i] = Other
    BY <1>4 DEF MineOK, IInv, DataOK
  <2>3. Other \notin Machine
    BY SyncAssumption DEF SyncAssumption, Other
  <2>4. ASSUME NEW n \in Machine PROVE Recorded(n)'
    BY <1>1, <2>2, <2>3 DEF Recorded, MineOK, MineAt
  <2>5. ASSUME NEW n \in Machine, NEW t \in Procs PROVE MineSafe(n, t)'
    BY <1>1, <2>1 DEF MineSafe, MineOK, MineAt
  <2> QED BY <1>2, <2>2, <2>4, <2>5 DEF MineOK, MineAt
<1> QED BY <1>2, <1>3, <1>4

LEMMA MineNext ==
  IInv /\ ShapeOK /\ CountsOK /\ (Undisturbed => MineOK) /\ [Next]_vars => (Undisturbed' => MineOK')
<1> SUFFICES ASSUME IInv, ShapeOK, CountsOK, Undisturbed => MineOK, [Next]_vars, Undisturbed'
             PROVE  MineOK'
  OBVIOUS
<1>1. Undisturbed
  BY CountsNext DEF CountsOK, Undisturbed
<1> QED BY <1>1, NextCases, MineRests, MineCommand, MineFaults, MineBeside DEF Undisturbed

LEMMA MineInit == Init => MineOK
<1> SUFFICES ASSUME Init PROVE MineOK
  OBVIOUS
<1>1. IdleProc.pc = "idle"
  BY DEF IdleProc
<1> QED BY <1>1 DEF Init, MineOK, MineAt, MineSafe, Recorded

\* A conflict a sync or a watcher's push reports (status 2 of saves_check_one
\* and of store_save) is never with this machine's own push, as long as every
\* answer arrived, no sync was killed and nobody forced a push: each push of
\* its own is in its journal before the next begins.
THEOREM ConflictsAreReal == Spec => []ConflictIsRealAlone
<1>1. Init => ShapeOK /\ CountsOK /\ (Undisturbed => MineOK)
  BY ShapeInit, CountsInit, MineInit
<1>2. IInv /\ ShapeOK /\ CountsOK /\ (Undisturbed => MineOK) /\ [Next]_vars
        => ShapeOK' /\ CountsOK' /\ (Undisturbed => MineOK)'
  BY ShapeNext, CountsNext, MineNext
<1>3. (Undisturbed => MineOK) => ConflictIsRealAlone
  BY DEF ConflictIsRealAlone, MineOK, MineAt, MineSafe, Ahead, ConflictIsReal, At
<1> QED BY <1>1, <1>2, <1>3, IInvHolds, PTL DEF Spec

-----------------------------------------------------------------------------
(* Saves only grow, and each generation is a whole one *)

Below(x, y) == \A f \in File : x[f] <= y[f]
Dated(x) == \A f \in File : x[f] <= ver

\* What a machine has taken over from the service is no longer its head.
Parted(m) == journal[m].gen < Len(gens)
Overtaken(h) == \E g \in 0..(Len(gens) - 1) : Of(gens, g, h)

\* Every generation has the last one's files, or newer.
Chain ==
  /\ \A i, j \in DOMAIN gens : i < j => Below(gens[i], gens[j]) /\ gens[i] # gens[j]
  /\ \A i \in DOMAIN gens : Dated(gens[i])
  /\ OnService \subseteq whole

\* What is pushed is whole, unless the head its parent was is gone.
PushOK(body, parent) == Below(parent, body) /\ Dated(body) /\ (body \in whole \/ Overtaken(parent))

\* What is here is no older than what this machine last agreed on, and whole
\* unless it is about to be pulled over.
WholeHere(m) ==
  /\ Below(journal[m].hash, files[m]) /\ Dated(files[m])
  /\ files[m] \in whole \cup {Empty} \/ Parted(m)

WholeSafe(m, s) ==
  LET p == proc[m][s]
  IN  /\ p.pc \in Sends => /\ Below(p.hash, files[m]) /\ Dated(p.hash)
                           /\ files[m] = p.hash \/ files[m] \in whole
                           /\ Below(journal[m].hash, p.hash)
                           /\ p.hash \in whole \/ Parted(m)
      /\ p.pc = "put" => p.head.hash = journal[m].hash
      /\ p.pc \in Pulls => Parted(m)
      /\ p.pc = "place" => /\ journal[m].gen < p.head.gen
                           /\ Below(files[m], p.head.hash)
                           /\ \A f \in File \ p.todo : files[m][f] = p.head.hash[f]
                           /\ p.head.hash \in whole

WholeOK ==
  /\ Chain
  /\ \A r \in late : PushOK(r.body, r.parent)
  /\ \A m \in Machine : WholeHere(m) /\ \A s \in Procs : WholeSafe(m, s)

LEMMA BelowTrans ==
  ASSUME NEW x \in Bundle, NEW y \in Bundle, NEW z \in Bundle, Below(x, y), Below(y, z)
  PROVE  Below(x, z)
<1>1. \A f \in File : x[f] \in Nat /\ y[f] \in Nat /\ z[f] \in Nat
  BY DEF Bundle
<1> QED BY <1>1 DEF Below

LEMMA BelowBoth ==
  ASSUME NEW x \in Bundle, NEW y \in Bundle, Below(x, y), Below(y, x)
  PROVE  x = y
<1>1. \A f \in File : x[f] \in Nat /\ y[f] \in Nat
  BY DEF Bundle
<1>2. \A f \in File : x[f] = y[f]
  BY <1>1 DEF Below
<1> QED BY <1>2 DEF Bundle

LEMMA BelowSelf ==
  ASSUME NEW x \in Bundle
  PROVE  Below(x, x) /\ Below(Empty, x)
  BY DEF Bundle, Below, Empty

\* What is known of the service has a last generation at least.
LEMMA LastOf ==
  ASSUME IInv, SavesOK, Chain, NEW h \in Known
  PROVE  /\ h \in Bundle /\ Below(h, Current.hash)
         /\ Dated(h)
         /\ h \in whole \cup {Empty}
<1>1. gens \in Seq(Bundle) /\ Current.hash \in Bundle /\ Empty \in Bundle /\ ver \in Nat
  BY Types, CurrentType, SyncAssumption DEF IInv, DataOK, HeadRecord
<1>2. CASE h = Empty
  BY <1>1, <1>2, BelowSelf DEF Dated, Empty
<1>3. CASE h \in OnService
  <2>1. PICK i \in DOMAIN gens : h = gens[i]
    BY <1>3 DEF OnService
  <2>2. Current.hash = gens[Len(gens)] /\ Len(gens) \in DOMAIN gens /\ i <= Len(gens)
    BY <1>1, <2>1 DEF Current
  <2>3. Below(h, Current.hash)
    BY <1>1, <2>1, <2>2, BelowSelf DEF Chain
  <2> QED BY <1>1, <1>3, <2>1, <2>3 DEF Chain
<1> QED BY <1>2, <1>3 DEF Known

\* A newer last generation keeps the chain.
LEMMA ChainGrows ==
  ASSUME IInv, Chain, NEW b \in Bundle, gens' = Append(gens, b), Below(Current.hash, b), b # Current.hash,
         b \in whole', whole \subseteq whole', ver \in Nat, ver' \in Nat, ver' >= ver, \A f \in File : b[f] <= ver'
  PROVE  Chain'
<1>1. /\ gens \in Seq(Bundle) /\ Len(gens') = Len(gens) + 1 /\ DOMAIN gens' = 1..(Len(gens) + 1)
      /\ DOMAIN gens = 1..Len(gens) /\ Len(gens) \in Nat
      /\ \A i \in DOMAIN gens : gens'[i] = gens[i] /\ gens[i] \in Bundle
      /\ gens'[Len(gens) + 1] = b
  BY DEF IInv, DataOK
<1>2. ASSUME NEW i \in DOMAIN gens PROVE Below(gens[i], b) /\ gens[i] # b
  <2>1. Len(gens) \in DOMAIN gens /\ Current.hash = gens[Len(gens)] /\ i \in 1..Len(gens)
    BY <1>1, <1>2 DEF Current
  <2>2. Below(gens[i], Current.hash)
    BY <1>1, <2>1, BelowSelf DEF Chain
  <2>3. Below(gens[i], b)
    BY <1>1, <2>1, <2>2, BelowTrans
  <2>4. gens[i] # b
    <3>1. SUFFICES ASSUME gens[i] = b PROVE FALSE
      OBVIOUS
    <3>2. gens[i] = Current.hash
      BY <1>1, <2>1, <2>2, <3>1, BelowBoth
    <3> QED BY <3>1, <3>2
  <2> QED BY <2>3, <2>4
<1>3. \A i, j \in DOMAIN gens' : i < j => Below(gens'[i], gens'[j]) /\ gens'[i] # gens'[j]
  <2> SUFFICES ASSUME NEW i \in DOMAIN gens', NEW j \in DOMAIN gens', i < j
               PROVE  Below(gens'[i], gens'[j]) /\ gens'[i] # gens'[j]
    OBVIOUS
  <2>1. i \in DOMAIN gens /\ (j \in DOMAIN gens \/ j = Len(gens) + 1)
    BY <1>1
  <2> QED BY <1>1, <1>2, <2>1 DEF Chain
<1>4. \A i \in DOMAIN gens' : \A f \in File : gens'[i][f] <= ver'
  <2>1. \A i \in DOMAIN gens, f \in File : gens[i][f] \in Nat
    BY <1>1 DEF Bundle
  <2> QED BY <1>1, <2>1 DEF Chain, Dated
<1>5. OnService' \subseteq whole'
  BY <1>1 DEF Chain, OnService
<1> QED BY <1>3, <1>4, <1>5 DEF Chain, Below, Dated

\* A push that is accepted adds a whole save that is newer than the head.
LEMMA ChainServes ==
  ASSUME IInv, SavesOK, Chain, NEW r \in Request, ~r.force, r.body # Empty, PushOK(r.body, r.parent), Serve(r),
         UNCHANGED <<ver, whole>>
  PROVE  Chain'
<1>1. CASE gens' = gens
  BY <1>1 DEF Chain, OnService, Dated, Below
<1>2. CASE ~Same(r) /\ ~Refused(r) /\ gens' = Append(gens, r.body)
  <2>1. r.body \in Bundle /\ r.parent \in Bundle /\ gens \in Seq(Bundle) /\ ver \in Nat /\ Empty \in Bundle
    BY Types, SyncAssumption DEF Request, IInv, DataOK
  <2>2. CASE gens = <<>>
    <3>1. Current.hash = Empty /\ r.body \in whole
      BY <2>2 DEF Current, NoHead, PushOK, Overtaken
    <3> QED BY <1>2, <2>1, <3>1, BelowSelf, ChainGrows DEF PushOK, Dated
  <2>3. CASE gens # <<>>
    <3>1. r.parent = Current.hash /\ r.body # Current.hash
      BY <1>2, <2>3 DEF Same, Refused
    <3>2. Current.hash = gens[Len(gens)] /\ Len(gens) \in DOMAIN gens
      BY <2>1, <2>3 DEF Current
    <3>3. ~Overtaken(r.parent)
      <4> SUFFICES ASSUME NEW g \in 0..(Len(gens) - 1), Of(gens, g, Current.hash) PROVE FALSE
        BY <3>1 DEF Overtaken
      <4>1. CASE g = 0
        BY <3>2, <4>1 DEF Of, SavesOK
      <4>2. CASE g # 0
        <5>1. g \in DOMAIN gens /\ gens[g] = gens[Len(gens)] /\ g < Len(gens)
          BY <2>1, <3>2, <4>2 DEF Of
        <5> QED BY <3>2, <5>1 DEF Chain
      <4> QED BY <4>1, <4>2
    <3> QED BY <1>2, <2>1, <3>1, <3>3, ChainGrows DEF PushOK, Dated
  <2> QED BY <2>2, <2>3
<1> QED BY <1>1, <1>2, ServeAdds

LEMMA OvertakenStays ==
  ASSUME DataOK, Grows, NEW h
  PROVE  /\ Overtaken(h) => Overtaken(h)'
         /\ Len(gens) \in Nat /\ Len(gens') \in Nat /\ Len(gens') >= Len(gens)
         /\ \A m \in Machine : Parted(m) /\ journal'[m] = journal[m] => Parted(m)'
<1>1. gens \in Seq(Bundle) /\ Len(gens) \in Nat /\ Len(gens') \in Nat /\ Len(gens') >= Len(gens)
  BY DEF DataOK, Grows
<1>2. ASSUME Overtaken(h) PROVE Overtaken(h)'
  <2>1. PICK g \in 0..(Len(gens) - 1) : Of(gens, g, h)
    BY <1>2 DEF Overtaken
  <2>2. Of(gens', g, h) /\ g \in 0..(Len(gens') - 1) /\ Empty' = Empty
    BY <1>1, <2>1, OfStands DEF Empty
  <2> QED BY <2>2 DEF Overtaken, Of
<1>3. ASSUME NEW m \in Machine, Parted(m), journal'[m] = journal[m] PROVE Parted(m)'
  <2>1. journal[m].gen \in Nat
    BY DEF DataOK
  <2> QED BY <1>1, <1>3, <2>1 DEF Parted
<1> QED BY <1>1, <1>2, <1>3

\* What nobody moves stands, while the service and the history only add.
LEMMA WholeStands ==
  ASSUME IInv, WholeOK, Grows, ver' \in Nat, ver' >= ver, whole \subseteq whole', NEW m \in Machine,
         files'[m] = files[m], journal'[m] = journal[m]
  PROVE  /\ WholeHere(m)'
         /\ \A s \in Procs : proc'[m][s] = proc[m][s] => WholeSafe(m, s)'
<1>1. /\ Parted(m) => Parted(m)'
      /\ ver \in Nat /\ files[m] \in Bundle
  <2>1. DataOK
    BY DEF IInv
  <2>2. Parted(m) => Parted(m)'
    BY <2>1, OvertakenStays
  <2> QED BY <2>1, <2>2 DEF DataOK
<1>2. \A x \in Bundle : Dated(x) => Dated(x)'
  <2> SUFFICES ASSUME NEW x \in Bundle, Dated(x), NEW f \in File PROVE x[f] <= ver'
    BY DEF Dated
  <2>1. x[f] \in Nat
    BY DEF Bundle
  <2> QED BY <1>1, <2>1 DEF Dated
<1>3. WholeHere(m)'
  BY <1>1, <1>2 DEF WholeOK, WholeHere, Below, Empty
<1>4. ASSUME NEW s \in Procs, proc'[m][s] = proc[m][s] PROVE WholeSafe(m, s)'
  <2>1. proc[m][s].hash \in Bundle /\ WholeSafe(m, s)
    BY DEF IInv, ProcsOK, Proc, WholeOK
  <2> QED BY <1>1, <1>2, <1>4, <2>1 DEF WholeSafe, Below
<1> QED BY <1>3, <1>4

LEMMA PushStands ==
  ASSUME IInv, Grows, ver' \in Nat, ver' >= ver, whole \subseteq whole', NEW x \in Bundle, NEW h, PushOK(x, h)
  PROVE  PushOK(x, h)'
<1>1. ver \in Nat /\ \A f \in File : x[f] \in Nat
  BY DEF IInv, DataOK, Bundle
<1>2. Overtaken(h) => Overtaken(h)'
  BY OvertakenStays DEF IInv
<1> QED BY <1>1, <1>2 DEF PushOK, Below, Dated

\* A step of one command, which is the only one that works on its machine.
LEMMA WholeMoves ==
  ASSUME IInv, ShapeOK, WholeOK, asked = 0, NEW m \in Machine, NEW s \in Procs,
         OthersStand(m, s), Grows, ver' = ver, whole \subseteq whole', proc[m][s].pc \notin Resting,
         \A n \in Machine : n # m => files'[n] = files[n] /\ journal'[n] = journal[n],
         late' \subseteq late, Chain', WholeHere(m)', WholeSafe(m, s)'
  PROVE  WholeOK'
<1>1. ver \in Nat /\ late \subseteq Request
  BY DEF IInv, DataOK
<1>2. \A r \in late' : PushOK(r.body, r.parent)'
  <2> SUFFICES ASSUME NEW r \in late PROVE PushOK(r.body, r.parent)'
    OBVIOUS
  <2>1. r.body \in Bundle /\ PushOK(r.body, r.parent)
    BY <1>1 DEF Request, WholeOK
  <2> QED BY <1>1, <2>1, PushStands
<1>3. ASSUME NEW n \in Machine, n # m PROVE WholeHere(n)' /\ \A t \in Procs : WholeSafe(n, t)'
  BY <1>1, <1>3, WholeStands DEF OthersStand
<1>4. ASSUME NEW t \in Procs, t # s PROVE WholeSafe(m, t)'
  <2>1. proc[m][t].pc \in Resting
    <3>1. lock[m] = s
      BY Holds
    <3> QED BY <1>4, <3>1, Holds
  <2>2. proc'[m][t] = proc[m][t]
    BY <1>4 DEF OthersStand
  <2> QED BY <2>1, <2>2 DEF WholeSafe, Resting, Sends, Pulls
<1> QED BY <1>2, <1>3, <1>4 DEF WholeOK

LEMMA WholeQuiet ==
  ASSUME IInv, WholeOK, NEW m \in Machine, NEW s \in Procs,
         OthersStand(m, s), UNCHANGED <<files, journal, gens, ver, whole>>, late' \subseteq late, WholeSafe(m, s)'
  PROVE  WholeOK'
<1>1. ver \in Nat /\ late \subseteq Request /\ Grows
  BY DEF IInv, DataOK, Grows
<1>2. \A r \in late' : PushOK(r.body, r.parent)'
  <2> SUFFICES ASSUME NEW r \in late PROVE PushOK(r.body, r.parent)'
    OBVIOUS
  <2>1. r.body \in Bundle /\ PushOK(r.body, r.parent)
    BY <1>1 DEF Request, WholeOK
  <2> QED BY <1>1, <2>1, PushStands
<1>3. Chain'
  BY DEF WholeOK, Chain, OnService, Below, Dated
<1>4. ASSUME NEW n \in Machine PROVE WholeHere(n)' /\ \A t \in Procs : n # m \/ t # s => WholeSafe(n, t)'
  BY <1>1, WholeStands DEF OthersStand
<1> QED BY <1>2, <1>3, <1>4 DEF WholeOK

\* A push that goes out is in order.
LEMMA PushMade ==
  ASSUME IInv, WholeOK, NEW m \in Machine, NEW s \in Procs, proc[m][s].pc = "put"
  PROVE  PushOK(proc[m][s].hash, proc[m][s].head.hash)
<1> DEFINE p == proc[m][s]
<1>1. WholeSafe(m, s) /\ Of(gens, journal[m].gen, journal[m].hash) /\ journal[m].gen \in Nat /\ Len(gens) \in Nat
  BY DEF WholeOK, IInv, DataOK, JournalIsTrue, Of
<1>2. Parted(m) => Overtaken(journal[m].hash)
  BY <1>1 DEF Parted, Overtaken
<1> QED BY <1>1, <1>2 DEF WholeSafe, Sends, PushOK

\* Where nobody has asked for more and no file operation has failed, a
\* command is a sync or a push of the watcher's.
LEMMA WholeCommand ==
  ASSUME IInv, ShapeOK, Apart, SyncOK, SavesOK, WholeOK, asked = 0,
         NEW m \in Machine, NEW s \in Procs, Command(m, s), ~Ended(m, s)
  PROVE  WholeOK'
<1> DEFINE p == proc[m][s]
           q == proc'[m][s]
<1>1. /\ p \in Proc /\ ShapeAt(m, s) /\ WholeSafe(m, s) /\ WholeHere(m) /\ SyncSafe(m, s) /\ Fits(gens, p)
      /\ Chain /\ p.op \notin Asked
  BY DEF IInv, ProcsOK, ShapeOK, ShapeAt, WholeOK, SyncOK
<1>2. /\ gens \in Seq(Bundle) /\ Len(gens) \in Nat /\ ver \in Nat
      /\ journal[m].gen \in Nat /\ journal[m].hash \in Bundle /\ Of(gens, journal[m].gen, journal[m].hash)
      /\ files \in [Machine -> Bundle] /\ files[m] \in Bundle
  BY DEF IInv, DataOK, JournalIsTrue, Of
<1>3. Current.gen = Len(gens) /\ Current.hash \in Bundle
  <2>1. Current \in HeadRecord
    BY CurrentType, SyncAssumption DEF IInv
  <2> QED BY <1>2, <2>1 DEF Current, NoHead, HeadRecord
<1>4. p.hash \in Bundle /\ p.head.hash \in Bundle /\ p.head.gen \in Nat
  BY <1>1 DEF Proc, HeadRecord
<1>5. CASE TakeLock(m, s) \/ Look(m, s)
  <2>1. /\ OthersStand(m, s) /\ UNCHANGED <<files, journal, gens, late, ver, whole>>
        /\ q.pc \in {"bundle", "look", "ended", "ask"}
    BY <1>5, TakeLockDoes, LookDoes DEF local, service, counts, history
  <2>2. WholeSafe(m, s)'
    BY <2>1 DEF WholeSafe, Sends, Pulls
  <2> QED BY <2>1, <2>2, WholeQuiet
<1>6. CASE Compare(m, s)
  <2>1. /\ OthersStand(m, s) /\ UNCHANGED <<files, journal, gens, late, ver, whole>> /\ p.pc = "ask"
        /\ q.pc \in {"bundle", "ended"} \/ (RemoteNewer(p) /\ q.pc = "meta")
    BY <1>6, CompareDoes DEF local, service, counts, history
  <2>2. p.op \in Synced
    BY <1>1, <2>1 DEF ShapeAt, ShapeOf, Synced
  <2>3. ASSUME RemoteNewer(p) PROVE Parted(m)
    <3>1. p.hash = files[m] /\ p.head.gen = journal[m].gen /\ Len(gens) > 0
      BY <1>1, <1>3, <2>1, <2>2, <2>3 DEF SyncSafe, RemoteNewer
    <3>2. CASE Current.gen > p.head.gen
      BY <1>3, <3>1, <3>2 DEF Parted
    <3>3. CASE files[m] = Empty
      <4>1. journal[m].hash = Empty
        <5>1. Below(journal[m].hash, Empty) /\ Below(Empty, journal[m].hash) /\ Empty \in Bundle
          BY <1>1, <1>2, <3>3, BelowSelf, Types, SyncAssumption DEF WholeHere
        <5> QED BY <1>2, <5>1, BelowBoth
      <4>2. journal[m].gen = 0
        BY <1>2, <4>1 DEF Of, SavesOK
      <4> QED BY <3>1, <4>2 DEF Parted
    <3> QED BY <2>3, <3>1, <3>2, <3>3 DEF RemoteNewer
  <2>4. WholeSafe(m, s)'
    BY <2>1, <2>3 DEF WholeSafe, Sends, Pulls, Parted
  <2> QED BY <2>1, <2>4, WholeQuiet
<1>7. CASE PushBundle(m, s) \/ PushSend(m, s)
  <2>1. /\ OthersStand(m, s) /\ UNCHANGED <<files, journal, gens, late, ver, whole>>
        /\ \/ q.pc = "ended"
           \/ files[m] # Empty /\ q.pc = "send" /\ q.hash = files[m]
           \/ p.pc = "send" /\ q.pc = "put" /\ q.hash = p.hash /\ q.head.hash = journal[m].hash
    BY <1>7, PushBundleDoes, PushSendDoes DEF local, service, counts, history
  <2>2. WholeSafe(m, s)'
    <3>1. CASE q.pc = "ended"
      BY <3>1 DEF WholeSafe, Sends, Pulls
    <3>2. CASE files[m] # Empty /\ q.pc = "send" /\ q.hash = files[m]
      <4>1. Below(files[m], files[m])
        BY <1>2, BelowSelf
      <4> QED BY <1>1, <2>1, <3>2, <4>1 DEF WholeHere, WholeSafe, Sends, Pulls, Below, Dated, Parted
    <3>3. CASE p.pc = "send" /\ q.pc = "put" /\ q.hash = p.hash /\ q.head.hash = journal[m].hash
      BY <1>1, <2>1, <3>3 DEF WholeSafe, Sends, Pulls, Below, Dated, Parted
    <3> QED BY <2>1, <3>1, <3>2, <3>3
  <2> QED BY <2>1, <2>2, WholeQuiet
<1>8. CASE PullMeta(m, s) \/ Snapshot(m, s) \/ PullFetch(m, s)
  <2>1. /\ OthersStand(m, s) /\ UNCHANGED <<files, journal, gens, late, ver, whole>> /\ q.op = p.op
        /\ p.pc \in Pulls
        /\ \/ q.pc = "ended"
           \/ q.pc \in Pulls
           \/ q.pc = "remove" /\ p.op = "restore"
           \/ /\ p.pc = "fetch" /\ q.pc = "place" /\ q.head = Current
              /\ q.todo = {f \in File : Current.hash[f] # 0}
    <3>1. CASE PullMeta(m, s)
      BY <3>1, NoteDoes DEF local, service, counts, history, Pulls, PullMeta, At
    <3>2. CASE Snapshot(m, s) \/ PullFetch(m, s)
      BY <3>2, SnapshotDoes, PullFetchDoes DEF local, service, counts, history, Pulls
    <3> QED BY <1>8, <3>1, <3>2
  <2>2. p.op \in Synced /\ Parted(m)
    <3>1. p.op \in Synced
      BY <1>1, <2>1 DEF ShapeAt, ShapeOf, Pulls, Synced, Asked
    <3> QED BY <1>1, <2>1, <3>1 DEF WholeSafe
  <2>3. ASSUME p.pc = "fetch", q.pc = "place", q.head = Current, q.todo = {f \in File : Current.hash[f] # 0}
        PROVE  WholeSafe(m, s)'
    <3>1. files[m] \in Known /\ Current.hash \in Known
      <4>1. Of(gens, Current.gen, Current.hash)
        BY CurrentType, SyncAssumption DEF IInv
      <4> QED BY <1>1, <2>2, <2>3, <4>1, OfKnown DEF SyncSafe, Pulls
    <3>2. Below(files[m], Current.hash)
      BY <3>1, LastOf, <1>1
    <3>3. Current.hash \in whole
      <4>1. gens # <<>> /\ Current.hash = gens[Len(gens)] /\ Len(gens) \in DOMAIN gens
        BY <1>2, <2>2 DEF Parted, Current
      <4> QED BY <1>1, <4>1 DEF Chain, OnService
    <3>4. \A f \in File \ q.todo : files[m][f] = Current.hash[f]
      <4>1. \A f \in File : files[m][f] \in Nat /\ Current.hash[f] \in Nat
        BY <1>2, <1>3 DEF Bundle
      <4> QED BY <2>3, <3>2, <4>1 DEF Below
    <3> QED BY <1>3, <2>1, <2>2, <2>3, <3>2, <3>3, <3>4 DEF WholeSafe, Sends, Pulls, Parted, Below
  <2>4. WholeSafe(m, s)'
    <3>1. CASE q.pc \in Pulls \cup {"ended"}
      BY <2>1, <2>2, <3>1 DEF WholeSafe, Sends, Pulls, Parted
    <3> QED BY <2>1, <2>2, <2>3, <3>1 DEF Synced
  <2> QED BY <2>1, <2>4, WholeQuiet
<1>9. CASE Choose(m, s) \/ Remove(m, s) \/ Placed(m, s) \/ Agree(m, s) \/ RecordAgreed(m, s)
  <2>1. p.pc \in {"choose", "remove", "agree", "record"} \/ p.op = "restore"
    BY <1>9 DEF Choose, Remove, Placed, Agree, RecordAgreed, At
  <2> QED BY <1>1, <2>1 DEF ShapeAt, ShapeOf, Asked, Synced
<1>10. CASE PutArrives(m, s)
  <2> DEFINE r == Put(m, p)
  <2>1. /\ OthersStand(m, s) /\ p.pc = "put" /\ q.op = p.op /\ Grows
        /\ \/ q.pc = "ended"
           \/ q.pc = "reply" /\ q.hash = p.hash
        /\ r \in Request /\ r.body = p.hash /\ r.parent = p.head.hash /\ r.force = (p.op = "keepHere")
        /\ Serve(r)
        /\ UNCHANGED <<files, journal, late, ver, whole>>
    BY <1>10, PutArrivesDoes DEF local, counts, history
  <2> HIDE DEF r
  <2>2. ~r.force /\ r.body # Empty
    <3>1. SaveAt(m, s)
      BY DEF SavesOK
    <3> QED BY <1>1, <2>1, <3>1 DEF Asked, SaveAt, Sends
  <2>3. PushOK(r.body, r.parent)
    BY <1>1, <1>2, <2>1, PushMade
  <2>4. Chain'
    BY <1>1, <2>1, <2>2, <2>3, ChainServes
  <2>5. WholeHere(m)'
    BY <1>2, <2>1, WholeStands
  <2>6. WholeSafe(m, s)'
    <3>1. Parted(m) => Parted(m)'
      BY <2>1, OvertakenStays DEF IInv
    <3>2. CASE q.pc = "reply"
      BY <1>1, <2>1, <3>1, <3>2 DEF WholeSafe, Sends, Pulls, Below, Dated
    <3>3. CASE q.pc = "ended"
      BY <3>3 DEF WholeSafe, Sends, Pulls
    <3> QED BY <2>1, <3>2, <3>3
  <2> QED BY <2>1, <2>4, <2>5, <2>6, WholeMoves DEF Resting
<1>11. CASE PushReply(m, s) \/ PullDone(m, s) \/ PullCompare(m, s)
  <2>1. /\ OthersStand(m, s) /\ UNCHANGED <<files, gens, late, ver, whole>>
        /\ \A n \in Machine : n # m => journal'[n] = journal[n]
        /\ p.pc \notin Resting
        /\ \/ /\ p.pc = "reply" /\ q.pc = "ended" /\ journal'[m].gen = p.head.gen /\ journal'[m].hash = p.hash
           \/ /\ p.pc = "place" /\ p.todo = {} /\ p.op # "restore" /\ q.pc = "ended"
              /\ journal'[m].gen = p.head.gen /\ journal'[m].hash = p.head.hash
           \/ /\ p.pc = "compare" /\ q.pc = "ended" /\ files[m] = p.head.hash
              /\ journal'[m].gen = p.head.gen /\ journal'[m].hash = p.head.hash
           \/ p.pc = "compare" /\ q.pc = "snapshot" /\ journal' = journal
    <3>1. p.pc # "record"
      BY <1>1 DEF ShapeAt, ShapeOf, Asked, Synced
    <3>2. UNCHANGED <<files, gens, late, ver, whole>> /\ OthersStand(m, s)
          /\ \A n \in Machine : n # m => journal'[n] = journal[n]
      BY <1>11, RecordDoes DEF service, counts
    <3> QED BY <1>11, <3>1, <3>2, RecordDoes DEF Resting
  <2>2. CASE p.pc = "compare" /\ q.pc = "snapshot" /\ journal' = journal
    <3>1. WholeSafe(m, s)'
      BY <1>1, <2>1, <2>2 DEF WholeSafe, Sends, Pulls, Parted
    <3> QED BY <2>1, <2>2, <3>1, WholeQuiet
  <2>3. CASE q.pc = "ended"
    <3>1. journal'[m].hash \in Known /\ Below(journal'[m].hash, files[m]) /\ files[m] \in whole \cup {Empty}
      <4>1. CASE p.pc = "reply"
        <5>1. p.hash \in Known
          BY <1>1, <4>1, OfKnown DEF Fits
        <5>2. p.hash \in whole \cup {Empty}
          BY <1>1, <5>1, LastOf
        <5> QED BY <1>1, <2>1, <2>3, <4>1, <5>1, <5>2 DEF WholeSafe, Sends
      <4>2. CASE p.pc = "place"
        <5>1. p.head.hash \in Known
          BY <1>1, <2>1, <4>2, OfKnown DEF Fits
        <5>2. files[m] = p.head.hash
          <6>1. \A g \in File : files[m][g] = p.head.hash[g]
            BY <1>1, <2>1, <2>3, <4>2 DEF WholeSafe
          <6> QED BY <1>2, <1>4, <6>1 DEF Bundle
        <5>3. Below(files[m], files[m])
          BY <1>2, BelowSelf
        <5> QED BY <1>1, <2>1, <4>2, <5>1, <5>2, <5>3 DEF WholeSafe
      <4>3. CASE p.pc = "compare"
        <5>1. p.head.hash \in Known
          BY <1>1, <4>3, OfKnown DEF Fits
        <5>2. p.head.hash \in whole \cup {Empty}
          BY <1>1, <5>1, LastOf
        <5>3. Below(files[m], files[m])
          BY <1>2, BelowSelf
        <5> QED BY <2>1, <2>3, <4>3, <5>1, <5>2, <5>3
      <4> QED BY <2>1, <4>1, <4>2, <4>3
    <3>2. WholeHere(m)'
      BY <1>1, <2>1, <3>1 DEF WholeHere, Dated, Below, Empty
    <3>3. WholeSafe(m, s)'
      BY <2>3 DEF WholeSafe, Sends, Pulls
    <3>4. Chain' /\ Grows
      BY <1>1, <2>1 DEF Chain, OnService, Dated, Below, Grows
    <3> QED BY <2>1, <3>2, <3>3, <3>4, WholeMoves
  <2> QED BY <2>1, <2>2, <2>3
<1>12. CASE Place(m, s)
  <2>1. PICK f \in p.todo :
          /\ OthersStand(m, s) /\ p.pc = "place" /\ q.pc = "place" /\ q.op = p.op /\ q.head = p.head
          /\ q.todo = p.todo \ {f} /\ f \in File
          /\ \A n \in Machine : n # m => files'[n] = files[n]
          /\ \A g \in File : files'[m][g] = IF g = f THEN p.head.hash[f] ELSE files[m][g]
          /\ whole \subseteq whole' /\ UNCHANGED <<journal, gens, by, late, ver>>
    BY <1>12, PlaceDoes DEF service, counts
  <2>2. /\ journal[m].gen < p.head.gen /\ Below(files[m], p.head.hash) /\ p.head.hash \in whole
        /\ \A g \in File \ p.todo : files[m][g] = p.head.hash[g]
        /\ Below(journal[m].hash, files[m]) /\ Dated(files[m])
    BY <1>1, <2>1 DEF WholeSafe, WholeHere
  <2>3. p.op # "restore" /\ Of(gens, p.head.gen, p.head.hash)
    BY <1>1, <2>1 DEF Asked, Fits
  <2>4. Dated(p.head.hash) /\ Below(journal[m].hash, p.head.hash)
    <3>1. p.head.hash \in Known
      BY <2>3, OfKnown
    <3> QED BY <1>1, <1>2, <1>4, <2>2, <3>1, LastOf, BelowTrans
  <2>5. \A g \in File : files[m][g] \in Nat /\ p.head.hash[g] \in Nat
    BY <1>2, <1>4 DEF Bundle
  <2>6. WholeHere(m)'
    <3>1. Parted(m)'
      BY <1>2, <1>4, <2>1, <2>2, <2>3 DEF Parted, Of
    <3>2. Below(journal[m].hash, files[m])'
      BY <2>1, <2>2, <2>4, <2>5 DEF Below
    <3>3. Dated(files[m])'
      BY <2>1, <2>2, <2>4, <2>5 DEF Dated
    <3> QED BY <3>1, <3>2, <3>3 DEF WholeHere
  <2>7. WholeSafe(m, s)'
    <3>1. Below(files[m], p.head.hash)'
      BY <2>1, <2>2, <2>5 DEF Below
    <3>2. \A g \in File \ q.todo : files'[m][g] = q.head.hash[g]
      BY <2>1, <2>2
    <3> QED BY <2>1, <2>2, <3>1, <3>2 DEF WholeSafe, Sends, Pulls, Below
  <2>8. Chain' /\ Grows
    BY <1>1, <2>1 DEF Chain, OnService, Dated, Below, Grows
  <2> QED BY <2>1, <2>6, <2>7, <2>8, WholeMoves DEF Resting
<1> QED BY <1>5, <1>6, <1>7, <1>8, <1>9, <1>10, <1>11, <1>12 DEF Command

LEMMA WholeFaults ==
  ASSUME IInv, ShapeOK, CountsOK, WholeOK, NEW m \in Machine, NEW s \in Procs, Faults(m, s), broken' = 0
  PROVE  WholeOK'
<1> DEFINE p == proc[m][s]
<1>1. ~Broken(m, s)
  BY BrokenDoes DEF CountsOK
<1>2. /\ OthersStand(m, s) /\ UNCHANGED <<files, journal, gens, ver, whole>> /\ proc'[m][s].pc = "ended"
      /\ late' = late \/ (p.pc = "put" /\ late' = late \cup {Put(m, p)})
  BY <1>1, StopDoes DEF Faults, local, service, history
<1>3. WholeSafe(m, s)'
  BY <1>2 DEF WholeSafe, Sends, Pulls
<1>4. Chain' /\ \A n \in Machine : WholeHere(n)' /\ \A t \in Procs : WholeSafe(n, t)'
  <2>1. ver \in Nat /\ Grows
    BY <1>2 DEF IInv, DataOK, Grows
  <2>2. Chain'
    BY <1>2 DEF WholeOK, Chain, OnService, Below, Dated
  <2>3. ASSUME NEW n \in Machine PROVE WholeHere(n)' /\ \A t \in Procs : n # m \/ t # s => WholeSafe(n, t)'
    BY <1>2, <2>1, WholeStands DEF OthersStand
  <2> QED BY <1>3, <2>2, <2>3
<1>5. \A r \in late' : PushOK(r.body, r.parent)
  <2>1. p.pc = "put" => PushOK(Put(m, p).body, Put(m, p).parent)
    BY PushMade DEF Put
  <2> QED BY <1>2, <2>1 DEF WholeOK
<1>6. \A r \in late' : PushOK(r.body, r.parent)'
  BY <1>2, <1>5 DEF PushOK, Below, Dated, Overtaken, Of, Empty
<1> QED BY <1>4, <1>6 DEF WholeOK

LEMMA WholeRests ==
  ASSUME IInv, ShapeOK, WholeOK, NEW m \in Machine, Rests(m), ShapeOK', asked' = 0
  PROVE  WholeOK'
<1>1. UNCHANGED <<files, journal, gens, late, ver, whole>>
  BY RestsDoes DEF local, service, history
<1>2. ver \in Nat /\ Grows
  BY <1>1 DEF IInv, DataOK, Grows
<1>3. ASSUME NEW n \in Machine PROVE WholeHere(n)' /\ \A t \in Procs : WholeSafe(n, t)'
  <2>1. WholeHere(n)' /\ \A t \in Procs : proc'[n][t] = proc[n][t] => WholeSafe(n, t)'
    BY <1>1, <1>2, WholeStands
  <2>2. ASSUME NEW t \in Procs PROVE WholeSafe(n, t)'
    <3>1. CASE proc'[n][t] = proc[n][t]
      BY <2>1, <3>1
    <3>2. CASE proc'[n][t].pc \in {"idle", "sleep", "done", "lock"}
      BY <3>2 DEF WholeSafe, Sends, Pulls
    <3>3. proc'[n][t].op \notin Asked
      BY DEF ShapeOK, ShapeAt, Asked
    <3> QED BY <3>1, <3>2, <3>3, RestsDoes
  <2> QED BY <2>1, <2>2
<1>4. Chain' /\ \A r \in late' : PushOK(r.body, r.parent)'
  BY <1>1 DEF WholeOK, Chain, OnService, PushOK, Below, Dated, Overtaken, Of, Empty
<1> QED BY <1>3, <1>4 DEF WholeOK

LEMMA WholeBeside ==
  ASSUME IInv, ShapeOK, Apart, SavesOK, WholeOK, asked = 0, Beside
  PROVE  WholeOK'
<1>1. UNCHANGED <<journal, proc>> /\ Grows /\ late' \subseteq late
  BY BesideDoes, BesideGrows
<1>2. ver \in Nat /\ ver' \in Nat /\ ver' >= ver /\ whole \subseteq whole' /\ late \subseteq Request
  <2>1. ver \in Nat /\ late \subseteq Request
    BY DEF IInv, DataOK
  <2>2. (ver' = ver \/ ver' = ver + 1) /\ whole \subseteq whole'
    BY DEF Beside, GameWrites, GameStops, GameResumes, PutArrivesLate, Elsewhere, vars, counts, history
  <2> QED BY <2>1, <2>2
<1>3. \A r \in late' : PushOK(r.body, r.parent)'
  <2> SUFFICES ASSUME NEW r \in late PROVE PushOK(r.body, r.parent)'
    BY <1>1
  <2>1. r.body \in Bundle /\ PushOK(r.body, r.parent)
    BY <1>2 DEF Request, WholeOK
  <2> QED BY <1>1, <1>2, <2>1, PushStands
<1>4. \A n \in Machine : files'[n] = files[n] => WholeHere(n)' /\ \A t \in Procs : WholeSafe(n, t)'
  BY <1>1, <1>2, WholeStands
<1>5. Chain'
  <2>1. CASE gens' = gens
    <3>1. \A i \in DOMAIN gens, f \in File : gens[i][f] \in Nat
      BY DEF IInv, DataOK, Bundle
    <3> QED BY <1>2, <2>1, <3>1 DEF WholeOK, Chain, OnService, Dated, Below
  <2>2. CASE Elsewhere
    <3>1. PICK b \in Bundle :
           /\ gens' = Append(gens, b) /\ whole' = whole \cup {b} /\ ver' = ver + 1
           /\ b = [f \in File |-> ver + 1] \/ \E f \in File : b = [Current.hash EXCEPT ![f] = ver + 1]
      BY <2>2, ElsewhereDoes
    <3>2. Current.hash \in Bundle /\ Dated(Current.hash)
      <4>1. Of(gens, Current.gen, Current.hash)
        BY CurrentType, SyncAssumption DEF IInv
      <4>2. Current.hash \in Known
        BY <4>1, OfKnown
      <4> QED BY <4>2, LastOf DEF WholeOK
    <3>3. \A f \in File : Current.hash[f] \in Nat /\ Current.hash[f] <= ver
      BY <3>2 DEF Bundle, Dated
    <3>4. /\ \A f \in File : Current.hash[f] <= b[f] /\ b[f] <= ver + 1
          /\ \E f \in File : b[f] # Current.hash[f]
      <4>1. CASE b = [f \in File |-> ver + 1]
        BY <1>2, <3>3, <4>1, SyncAssumption DEF SyncAssumption
      <4>2. ASSUME NEW f \in File, b = [Current.hash EXCEPT ![f] = ver + 1]
            PROVE  /\ \A g \in File : Current.hash[g] <= b[g] /\ b[g] <= ver + 1
                   /\ \E g \in File : b[g] # Current.hash[g]
        <5>1. \A g \in File : b[g] = IF g = f THEN ver + 1 ELSE Current.hash[g]
          BY <3>2, <4>2 DEF Bundle
        <5> QED BY <1>2, <3>3, <5>1
      <4> QED BY <3>1, <4>1, <4>2
    <3> QED BY <1>2, <3>1, <3>4, ChainGrows DEF WholeOK, Below
  <2>3. ASSUME NEW r \in late, PutArrivesLate(r) PROVE Chain'
    <3>1. Serve(r) /\ UNCHANGED <<ver, whole>>
      BY <2>3 DEF PutArrivesLate, counts, history
    <3>2. ~r.force /\ r.body # Empty /\ PushOK(r.body, r.parent)
      BY DEF ShapeOK, SavesOK, WholeOK
    <3> QED BY <1>2, <3>1, <3>2, ChainServes DEF WholeOK
  <2> QED BY <2>1, <2>2, <2>3 DEF Beside, GameWrites, GameStops, GameResumes, vars, service
<1>6. CASE files' = files
  BY <1>3, <1>4, <1>5, <1>6 DEF WholeOK
<1>7. ASSUME NEW m \in Machine, GameWrites(m) PROVE WholeOK'
  <2>1. PICK f \in File : files' = [files EXCEPT ![m][f] = ver']
    BY <1>7 DEF GameWrites
  <2>2. game[m] = "on" /\ ver' = ver + 1 /\ whole' = whole \cup {files'[m]} /\ gens' = gens
    BY <1>7 DEF GameWrites, service
  <2>3. /\ \A n \in Machine : n # m => files'[n] = files[n]
        /\ \A g \in File : files'[m][g] = IF g = f THEN ver + 1 ELSE files[m][g]
        /\ \A g \in File : files[m][g] \in Nat
    BY <2>1, <2>2 DEF IInv, DataOK, Bundle
  <2>4. WholeHere(m) /\ Dated(files[m])
    BY DEF WholeOK, WholeHere
  <2>5. \A x \in Bundle : Below(x, files[m]) => Below(x, files'[m])
    <3> SUFFICES ASSUME NEW x \in Bundle, Below(x, files[m]), NEW g \in File PROVE x[g] <= files'[m][g]
      BY DEF Below
    <3>1. x[g] \in Nat /\ x[g] <= files[m][g] /\ files[m][g] <= ver
      BY <2>4 DEF Bundle, Below, Dated
    <3> QED BY <1>2, <2>3, <3>1
  <2>6. WholeHere(m)'
    <3>1. Below(journal[m].hash, files'[m])
      BY <2>4, <2>5 DEF WholeHere, IInv, DataOK
    <3>2. \A g \in File : files'[m][g] <= ver + 1
      BY <1>2, <2>3, <2>4 DEF Dated
    <3> QED BY <1>1, <2>2, <3>1, <3>2 DEF WholeHere, Below, Dated
  <2>7. ASSUME NEW t \in Procs PROVE WholeSafe(m, t)'
    <3>1. proc[m][t].pc \notin Pulls \cup {"place"}
      <4>1. ShapeAt(m, t)
        BY DEF ShapeOK
      <4>2. t \in Slot => proc[m][t].op \notin Movers
        BY <2>2 DEF Apart
      <4> QED BY <4>1, <4>2 DEF ShapeAt, ShapeOf, Pulls, Movers, Synced, Procs
    <3>2. WholeSafe(m, t) /\ proc[m][t].hash \in Bundle /\ proc'[m][t] = proc[m][t]
      BY <1>1 DEF WholeOK, IInv, ProcsOK, Proc
    <3>3. Dated(proc[m][t].hash) => Dated(proc[m][t].hash)'
      <4>1. \A g \in File : proc[m][t].hash[g] \in Nat
        BY <3>2 DEF Bundle
      <4> QED BY <1>1, <1>2, <4>1 DEF Dated
    <3> QED BY <1>1, <2>2, <2>5, <3>1, <3>2, <3>3 DEF WholeSafe, Below, Parted
  <2> QED BY <1>3, <1>4, <1>5, <2>3, <2>6, <2>7 DEF WholeOK
<1> QED BY <1>6, <1>7, BesideGrows

\* Nobody has run a command beside the syncs, and no file operation failed.
Plain == asked = 0 /\ broken = 0

LEMMA PlainBefore == IInv /\ ShapeOK /\ CountsOK /\ [Next]_vars /\ Plain' => Plain
  BY CountsNext DEF Plain, CountsOK

LEMMA WholeNext ==
  IInv /\ ShapeOK /\ CountsOK /\ Apart /\ SyncOK /\ SavesOK /\ (Plain => WholeOK) /\ [Next]_vars
    => (Plain' => WholeOK')
<1> SUFFICES ASSUME IInv, ShapeOK, CountsOK, Apart, SyncOK, SavesOK, Plain => WholeOK, [Next]_vars, Plain'
             PROVE  WholeOK'
  OBVIOUS
<1>1. Plain /\ ShapeOK'
  BY PlainBefore, ShapeNext
<1> QED BY <1>1, NextCases, WholeRests, WholeCommand, WholeFaults, WholeBeside DEF Plain

LEMMA WholeInit == Init => WholeOK
<1> SUFFICES ASSUME Init PROVE WholeOK
  OBVIOUS
<1>1. IdleProc.pc = "idle"
  BY DEF IdleProc
<1>2. gens = <<>> /\ ver = 0 /\ late = {} /\ \A m \in Machine : files[m] = Empty /\ journal[m].hash = Empty
  BY DEF Init
<1>3. Chain
  BY <1>2 DEF Chain, OnService
<1>4. \A m \in Machine : WholeHere(m)
  BY <1>2 DEF WholeHere, Below, Dated, Empty
<1>5. \A m \in Machine, s \in Procs : WholeSafe(m, s)
  BY <1>1 DEF Init, WholeSafe, Sends, Pulls
<1> QED BY <1>2, <1>3, <1>4, <1>5 DEF WholeOK

\* No generation is half of one save and half of another: what a push bundles
\* is a state a game or a finished placing left, or its parent is no longer the
\* head and the service refuses it (saves-sync.sh saves_push_try under
\* with_lock, against store.py put_save).
THEOREM GenerationsWhole == Spec /\ []Apart => []GenerationsAreWhole
<1>1. Init => ShapeOK /\ CountsOK /\ SyncOK /\ SavesOK /\ (Plain => WholeOK)
  BY ShapeInit, CountsInit, SyncInit, SavesInit, WholeInit
<1>2. IInv /\ ShapeOK /\ CountsOK /\ SyncOK /\ SavesOK /\ (Plain => WholeOK) /\ Apart /\ [Next]_vars
        => ShapeOK' /\ CountsOK' /\ SyncOK' /\ SavesOK' /\ (Plain => WholeOK)'
  BY ShapeNext, CountsNext, SyncNext, SavesNext, WholeNext
<1>3. (Plain => WholeOK) => GenerationsAreWhole
  BY DEF Plain, WholeOK, Chain, GenerationsAreWhole
<1> QED BY <1>1, <1>2, <1>3, IInvHolds, PTL DEF Spec

-----------------------------------------------------------------------------
(* What the watcher leaves *)

Watching == [sig : Bundle, seen : Bundle, last : BOOLEAN]

\* What the watcher took as pushed is settled, and files only grow from there;
\* so is what its last look leaves, if its push came to an end.
WatchAt(m) ==
  LET w == proc[m][Watch]
      n == watch[m]
  IN  /\ game[m] # "off" => w.pc \notin {"idle", "done"} /\ ~n.last
      /\ Dated(n.sig) /\ Dated(n.seen) /\ Below(n.sig, files[m])
      /\ files[m] = n.sig => Settled(m)
      /\ w.op = "tick" => /\ Below(n.seen, files[m]) /\ Below(n.sig, n.seen)
                          /\ w.pc # "done" => n.sig # n.seen
      /\ w.pc \in Sends => Below(n.seen, w.hash) /\ (n.last => w.hash = files[m])
      /\ w.op = "tick" /\ w.pc = "ended" /\ w.rc # 1 /\ (n.last \/ files[m] = n.seen) => Settled(m)
      /\ w.pc = "done" /\ w.rc # 1 => Settled(m)

\* A sync pushes what is here.
PushesHere(m, s) == proc[m][s].pc \in Sends => proc[m][s].hash = files[m]

WatchOK ==
  /\ watch \in [Machine -> Watching]
  /\ \A m \in Machine : WatchAt(m) /\ \A s \in Slot : PushesHere(m, s)

LEMMA SettledIs == \A m \in Machine : Settled(m) <=> files[m] \in Known \/ Parted(m)
  BY DEF Settled, Known, Parted, IInv, DataOK

LEMMA SettledStays ==
  ASSUME IInv, Grows, NEW m \in Machine, journal'[m] = journal[m], files'[m] = files[m], Settled(m)
  PROVE  Settled(m)'
<1>1. Known \subseteq Known' /\ (Parted(m) => Parted(m)')
  BY KnownGrows, OvertakenStays DEF IInv
<1>2. files[m] \in Known \/ Parted(m)
  BY SettledIs
<1>3. files'[m] \in Known' \/ Parted(m)'
  BY <1>1, <1>2
<1> QED BY <1>3 DEF Settled, Known, Parted, Empty, OnService

LEMMA DatedStays ==
  ASSUME ver \in Nat, ver' \in Nat, ver' >= ver, NEW x \in Bundle, Dated(x)
  PROVE  Dated(x)'
<1>1. \A f \in File : x[f] \in Nat
  BY DEF Bundle
<1> QED BY <1>1 DEF Dated

\* A machine whose watcher does not move: its files only grow, and where they
\* or its journal do, it is settled.
LEMMA WatchStays ==
  ASSUME IInv, WatchOK, ver' \in Nat, ver' >= ver, NEW m \in Machine,
         watch'[m] = watch[m], proc'[m][Watch] = proc[m][Watch], game'[m] # "off" => game[m] # "off",
         files'[m] \in Bundle, Below(files[m], files'[m]),
         files'[m] = files[m] \/ proc[m][Watch].pc \notin Sends,
         Settled(m)' \/ (files'[m] = files[m] /\ (Settled(m) => Settled(m)'))
  PROVE  WatchAt(m)'
<1> DEFINE w == proc[m][Watch]
           n == watch[m]
<1>1. /\ WatchAt(m) /\ n.sig \in Bundle /\ n.seen \in Bundle
      /\ ver \in Nat /\ files[m] \in Bundle
  BY DEF WatchOK, Watching, IInv, DataOK
<1>2. Dated(n.sig)' /\ Dated(n.seen)'
  BY <1>1, DatedStays DEF WatchAt, Dated
<1>3. Below(n.sig, files'[m]) /\ (w.op = "tick" => Below(n.seen, files'[m]))
  BY <1>1, BelowTrans DEF WatchAt
<1>4. CASE files'[m] = files[m] /\ (Settled(m) => Settled(m)')
  BY <1>1, <1>2, <1>4 DEF WatchAt, Below
<1>5. CASE Settled(m)'
  BY <1>1, <1>2, <1>3, <1>5 DEF WatchAt, Below
<1> QED BY <1>4, <1>5

\* A step of a machine, once its watcher and the command that moved are looked
\* at.
LEMMA WatchMoves ==
  ASSUME IInv, ShapeOK, WatchOK, asked = 0, Grows, ver' \in Nat, ver' >= ver, NEW m \in Machine, NEW s \in Procs,
         watch' \in [Machine -> Watching],
         \A n \in Machine, t \in Procs : n # m \/ t \notin {s, Watch} => proc'[n][t] = proc[n][t],
         \A n \in Machine : n # m => UNCHANGED <<files[n], journal[n], watch[n], game[n]>>,
         files'[m] = files[m] \/ proc[m][s].pc \notin Resting,
         WatchAt(m)', s \in Slot => PushesHere(m, s)'
  PROVE  WatchOK'
<1>1. ASSUME NEW n \in Machine, n # m PROVE WatchAt(n)' /\ \A t \in Slot : PushesHere(n, t)'
  <2>1. /\ UNCHANGED <<files[n], journal[n], watch[n], game[n]>>
        /\ \A t \in Procs : proc'[n][t] = proc[n][t]
        /\ Watch \in Procs /\ Slot \subseteq Procs /\ files[n] \in Bundle
    BY <1>1, Types, SyncAssumption DEF IInv, DataOK
  <2>2. Below(files[n], files[n])
    BY <2>1, BelowSelf
  <2>3. Settled(n) => Settled(n)'
    BY <2>1, SettledStays
  <2>4. WatchAt(n)'
    BY <2>1, <2>2, <2>3, WatchStays
  <2> QED BY <2>1, <2>4 DEF PushesHere, WatchOK
<1>2. ASSUME NEW t \in Slot, t # s PROVE PushesHere(m, t)'
  <2>1. proc'[m][t] = proc[m][t] /\ t \in Procs /\ PushesHere(m, t)
    BY <1>2, SyncAssumption DEF SyncAssumption, Procs, Watch, WatchOK
  <2>2. CASE files'[m] = files[m]
    BY <2>1, <2>2 DEF PushesHere
  <2>3. CASE proc[m][s].pc \notin Resting
    <3>1. proc[m][t].pc \in Resting
      BY <1>2, <2>1, <2>3, Holds
    <3> QED BY <2>1, <3>1 DEF PushesHere, Sends, Resting
  <2> QED BY <2>2, <2>3
<1> QED BY <1>1, <1>2 DEF WatchOK

\* A command beside the watcher.
LEMMA WatchCommand ==
  ASSUME IInv, ShapeOK, SyncOK, SavesOK, WholeOK, WatchOK, asked = 0,
         NEW m \in Machine, NEW s \in Slot, Command(m, s), ~Ended(m, s)
  PROVE  WatchOK'
<1> DEFINE p == proc[m][s]
           q == proc'[m][s]
<1>1. /\ s \in Procs /\ s # Watch /\ Watch \in Procs /\ p \in Proc /\ files[m] \in Bundle
      /\ ShapeAt(m, s) /\ p.op \notin Asked /\ p.op # "tick"
      /\ SyncSafe(m, s) /\ WholeSafe(m, s) /\ PushesHere(m, s) /\ Fits(gens, p)
      /\ watch \in [Machine -> Watching] /\ ver \in Nat
  <2>1. s \in Procs /\ s # Watch /\ Watch \in Procs
    BY Types, SyncAssumption DEF SyncAssumption, Watch
  <2>2. ShapeAt(m, s) /\ p \in Proc /\ files[m] \in Bundle /\ Fits(gens, p) /\ ver \in Nat
    BY <2>1 DEF ShapeOK, IInv, ProcsOK, DataOK
  <2> QED BY <2>1, <2>2 DEF ShapeAt, SyncOK, WholeOK, WatchOK
<1>2. CASE /\ OthersStand(m, s) /\ UNCHANGED <<files, journal, game, watch, ver>> /\ Grows
           /\ q.pc \in Sends => q.hash = files[m]
  <2>1. Settled(m) => Settled(m)'
    BY <1>2, SettledStays
  <2>2. Below(files[m], files[m])
    BY <1>1, BelowSelf
  <2>3. proc'[m][Watch] = proc[m][Watch]
    BY <1>1, <1>2 DEF OthersStand
  <2>4. WatchAt(m)'
    BY <1>1, <1>2, <2>1, <2>2, <2>3, WatchStays
  <2>5. PushesHere(m, s)'
    BY <1>2 DEF PushesHere
  <2> QED BY <1>1, <1>2, <2>4, <2>5, WatchMoves DEF OthersStand
<1>3. CASE /\ OthersStand(m, s) /\ UNCHANGED <<game, watch, ver>> /\ Grows /\ q.pc \notin Sends
           /\ p.pc \notin Resting /\ files'[m] \in Bundle /\ Below(files[m], files'[m]) /\ Settled(m)'
           /\ \A n \in Machine : n # m => files'[n] = files[n] /\ journal'[n] = journal[n]
  <2>1. proc'[m][Watch] = proc[m][Watch]
    BY <1>1, <1>3 DEF OthersStand
  <2>2. proc[m][Watch].pc \in Resting
    BY <1>1, <1>3, Holds
  <2>3. WatchAt(m)'
    BY <1>1, <1>3, <2>1, <2>2, WatchStays DEF Resting, Sends
  <2>4. PushesHere(m, s)'
    BY <1>3 DEF PushesHere
  <2> QED BY <1>1, <1>3, <2>3, <2>4, WatchMoves DEF OthersStand
<1>4. CASE TakeLock(m, s) \/ Look(m, s) \/ Compare(m, s)
  <2>1. /\ OthersStand(m, s) /\ UNCHANGED <<files, journal, game, watch, ver, gens>>
        /\ q.pc \in {"bundle", "look", "ended", "ask", "meta"}
    BY <1>1, <1>4, TakeLockDoes, LookDoes, CompareDoes DEF local, service, counts
  <2> QED BY <1>2, <2>1 DEF Grows, Sends
<1>5. CASE PushBundle(m, s) \/ PushSend(m, s)
  <2>1. /\ OthersStand(m, s) /\ UNCHANGED <<files, journal, game, watch, ver, gens>>
        /\ \/ q.pc = "ended"
           \/ q.pc = "send" /\ q.hash = files[m]
           \/ p.pc = "send" /\ q.pc = "put" /\ q.hash = p.hash
    BY <1>1, <1>5, PushBundleDoes, PushSendDoes DEF local, service, counts
  <2> QED BY <1>1, <1>2, <2>1 DEF Grows, Sends, PushesHere
<1>6. CASE PutArrives(m, s)
  <2>1. /\ OthersStand(m, s) /\ UNCHANGED <<files, journal, game, watch, ver>> /\ Grows /\ p.pc = "put"
        /\ q.pc = "ended" \/ q.hash = p.hash
    BY <1>1, <1>6, PutArrivesDoes DEF local, counts
  <2> QED BY <1>1, <1>2, <2>1 DEF Sends, PushesHere
<1>7. CASE PullMeta(m, s)
  <2>1. OthersStand(m, s) /\ UNCHANGED <<files, journal, game, watch, ver, gens>> /\ q.pc \in {"ended", "compare"}
    BY <1>1, <1>7, NoteDoes DEF local, service, counts, PullMeta, At
  <2> QED BY <1>2, <2>1 DEF Grows, Sends
<1>8. CASE Snapshot(m, s) \/ PullFetch(m, s)
  <2>1. /\ OthersStand(m, s) /\ UNCHANGED <<files, journal, game, watch, ver, gens>>
        /\ q.pc \in {"remove", "fetch", "place"}
    BY <1>1, <1>8, SnapshotDoes, PullFetchDoes DEF local, service, counts
  <2> QED BY <1>2, <2>1 DEF Grows, Sends
<1>9. CASE Choose(m, s) \/ Remove(m, s) \/ Placed(m, s) \/ Agree(m, s) \/ RecordAgreed(m, s)
  <2>1. p.pc \in {"choose", "remove", "agree", "record"} \/ p.op = "restore"
    BY <1>9 DEF Choose, Remove, Placed, Agree, RecordAgreed, At
  <2> QED BY <1>1, <2>1 DEF ShapeAt, ShapeOf, Asked, Synced
<1>10. CASE PushReply(m, s) \/ PullDone(m, s) \/ PullCompare(m, s)
  <2>1. /\ OthersStand(m, s) /\ UNCHANGED <<files, game, watch, gens, ver>>
        /\ \A n \in Machine : n # m => journal'[n] = journal[n]
        /\ \/ p.pc = "reply" /\ q.pc = "ended"
           \/ p.pc = "place" /\ p.todo = {} /\ p.op # "restore" /\ q.pc = "ended"
           \/ p.pc = "compare" /\ q.pc = "ended" /\ files[m] = p.head.hash
           \/ p.pc = "compare" /\ q.pc = "snapshot" /\ journal' = journal
    <3>1. p.pc # "record"
      BY <1>1 DEF ShapeAt, ShapeOf, Asked, Synced
    <3> QED BY <1>1, <1>10, <3>1, RecordDoes DEF service, counts
  <2>2. CASE q.pc = "snapshot" /\ journal' = journal
    BY <1>2, <2>1, <2>2 DEF Grows, Sends
  <2>3. CASE q.pc = "ended"
    <3>1. files[m] \in Known
      <4>1. CASE p.pc = "reply"
        BY <1>1, <4>1, OfKnown DEF Fits, PushesHere, Sends
      <4>2. CASE p.pc = "place"
        <5>1. /\ p.todo = {} /\ p.head.hash \in Bundle /\ Of(gens, p.head.gen, p.head.hash)
              /\ \A g \in File \ p.todo : files[m][g] = p.head.hash[g]
          BY <1>1, <2>1, <2>3, <4>2 DEF WholeSafe, Fits, Proc, HeadRecord
        <5>2. \A g \in File : files[m][g] = p.head.hash[g]
          BY <5>1
        <5>3. files[m] = p.head.hash
          BY <1>1, <5>1, <5>2 DEF Bundle
        <5> QED BY <5>1, <5>3, OfKnown
      <4>3. CASE p.pc = "compare"
        BY <1>1, <2>1, <2>3, <4>3, OfKnown DEF Fits
      <4> QED BY <2>1, <2>3, <4>1, <4>2, <4>3
    <3>2. Settled(m)'
      BY <2>1, <3>1 DEF Settled, Known, OnService
    <3>3. Below(files[m], files[m])
      BY <1>1, BelowSelf
    <3> QED BY <1>1, <1>3, <2>1, <2>3, <3>2, <3>3 DEF Grows, Sends, Resting
  <2> QED BY <2>1, <2>2, <2>3
<1>11. CASE Place(m, s)
  <2>1. PICK f \in p.todo :
          /\ OthersStand(m, s) /\ p.pc = "place" /\ q.pc = "place"
          /\ f \in File
          /\ \A n \in Machine : n # m => files'[n] = files[n]
          /\ \A g \in File : files'[m][g] = IF g = f THEN p.head.hash[f] ELSE files[m][g]
          /\ UNCHANGED <<journal, gens, game, watch, ver>>
    BY <1>1, <1>11, PlaceDoes DEF service, counts
  <2>2. /\ journal[m].gen < p.head.gen /\ Below(files[m], p.head.hash) /\ Of(gens, p.head.gen, p.head.hash)
        /\ journal[m].gen \in Nat /\ p.head.gen \in Nat /\ Len(gens) \in Nat
    BY <1>1, <2>1 DEF WholeSafe, Fits, Asked, IInv, DataOK, Proc, HeadRecord
  <2>3. Settled(m)'
    BY <2>1, <2>2 DEF Of, Settled
  <2>4. Below(files[m], files'[m])
    <3>1. \A g \in File : files[m][g] \in Nat
      BY <1>1 DEF Bundle
    <3> QED BY <2>1, <2>2, <3>1 DEF Below
  <2>5. files'[m] \in Bundle
    BY <1>11, PlaceStep, SyncAssumption, <1>1 DEF IInv, DataOK
  <2> QED BY <1>3, <2>1, <2>3, <2>4, <2>5 DEF Grows, Sends, Resting
<1> QED BY <1>4, <1>5, <1>6, <1>7, <1>8, <1>9, <1>10, <1>11 DEF Command

\* What the watcher saw is what it pushes, if that is what is here still.
LEMMA SeenPushed ==
  ASSUME IInv, WholeOK, WatchOK, NEW m \in Machine, proc[m][Watch].pc \in Sends, proc[m][Watch].op = "tick",
         watch[m].last \/ files[m] = watch[m].seen
  PROVE  files[m] = proc[m][Watch].hash
<1>1. /\ WatchAt(m) /\ WholeSafe(m, Watch) /\ proc[m][Watch].hash \in Bundle /\ files[m] \in Bundle
  BY Types, SyncAssumption DEF WatchOK, WholeOK, IInv, DataOK, ProcsOK, Proc
<1>2. CASE watch[m].last
  BY <1>1, <1>2 DEF WatchAt
<1>3. CASE files[m] = watch[m].seen
  <2>1. Below(files[m], proc[m][Watch].hash) /\ Below(proc[m][Watch].hash, files[m])
    BY <1>1, <1>3 DEF WatchAt, WholeSafe
  <2> QED BY <1>1, <2>1, BelowBoth
<1> QED BY <1>2, <1>3

\* The watcher's push, a step of it: nothing here moves but perhaps the journal.
LEMMA WatchSteps ==
  ASSUME IInv, WatchOK, NEW m \in Machine, UNCHANGED <<files, watch, game, ver>>, Grows,
         LET w == proc'[m][Watch]
         IN  /\ w.op = "tick" /\ w.pc \in {"bundle", "send", "put", "reply", "ended"}
             /\ w.pc \in Sends => w.hash = files[m] \/ (proc[m][Watch].pc \in Sends /\ w.hash = proc[m][Watch].hash)
             /\ w.pc = "ended" => w.rc = 1 \/ Settled(m)' \/ ~(watch[m].last \/ files[m] = watch[m].seen),
         proc[m][Watch].op = "tick", proc[m][Watch].pc # "done", 
         journal'[m] = journal[m]
  PROVE  WatchAt(m)'
<1> DEFINE w == proc'[m][Watch]
           n == watch[m]
<1>1. /\ WatchAt(m) /\ n.sig \in Bundle /\ n.seen \in Bundle /\ files[m] \in Bundle
  BY DEF WatchOK, Watching, IInv, DataOK
<1>2. Settled(m) => Settled(m)'
  BY SettledStays
<1>3. /\ Dated(n.sig)' /\ Dated(n.seen)' /\ Below(n.sig, files[m])
      /\ Below(n.seen, files[m]) /\ Below(n.sig, n.seen) /\ n.sig # n.seen
      /\ (files[m] = n.sig => Settled(m))
  BY <1>1 DEF WatchAt, Dated
<1>4. game'[m] # "off" => w.pc \notin {"idle", "done"} /\ ~n.last
  BY <1>1 DEF WatchAt
<1>5. w.pc \in Sends => Below(n.seen, w.hash) /\ (n.last => w.hash = files[m])
  BY <1>1, <1>3 DEF WatchAt
<1> QED BY <1>2, <1>3, <1>4, <1>5 DEF WatchAt, Below

LEMMA WatchPushes ==
  ASSUME IInv, ShapeOK, SyncOK, SavesOK, WholeOK, WatchOK, asked = 0,
         NEW m \in Machine, Command(m, Watch), ~Ended(m, Watch)
  PROVE  WatchOK'
<1> DEFINE w == proc[m][Watch]
           q == proc'[m][Watch]
           n == watch[m]
<1>1. /\ Watch \in Procs /\ Watch \notin Slot
      /\ ShapeAt(m, Watch) /\ WatchAt(m) /\ WholeSafe(m, Watch) /\ Fits(gens, w)
      /\ w.hash \in Bundle /\ files[m] \in Bundle /\ n.sig \in Bundle /\ n.seen \in Bundle
      /\ watch \in [Machine -> Watching] /\ ver \in Nat
  <2>1. Watch \in Procs /\ Watch \notin Slot
    BY Types, SyncAssumption DEF SyncAssumption, Watch
  <2> QED BY <2>1 DEF ShapeOK, WatchOK, Watching, WholeOK, IInv, ProcsOK, DataOK, Proc
<1>2. /\ w.op = "tick" /\ w.pc \in {"lock", "bundle", "send", "put", "reply"}
      /\ TakeLock(m, Watch) \/ PushBundle(m, Watch) \/ PushSend(m, Watch) \/ PutArrives(m, Watch)
          \/ PushReply(m, Watch)
  <2>1. w.pc \notin {"idle", "sleep", "done", "ended"}
    BY DEF Command, TakeLock, Look, Compare, Ended, PushBundle, PushSend, PutArrives, PushReply, PullMeta,
           PullCompare, Snapshot, PullFetch, Place, PullDone, Choose, Remove, Placed, Agree, RecordAgreed, At
  <2>2. w.op = "tick" /\ w.pc \in {"lock", "bundle", "send", "put", "reply"}
    BY <1>1, <2>1 DEF ShapeAt, ShapeOf, Asked, Synced
  <2> QED BY <2>2 DEF Command, Look, Compare, Ended, PullMeta,
           PullCompare, Snapshot, PullFetch, Place, PullDone, Choose, Remove, Placed, Agree, RecordAgreed, At
<1>3. SUFFICES /\ OthersStand(m, Watch) /\ UNCHANGED <<files, watch, game, ver>> /\ Grows
               /\ \A k \in Machine : k # m => journal'[k] = journal[k]
               /\ WatchAt(m)'
  BY <1>1, WatchMoves DEF OthersStand
<1>4. CASE TakeLock(m, Watch)
  <2>1. /\ OthersStand(m, Watch) /\ UNCHANGED <<files, journal, watch, game, ver, gens>>
        /\ q.op = "tick" /\ (q.pc = "bundle" \/ (q.pc = "ended" /\ q.rc = 1))
    BY <1>1, <1>2, <1>4, TakeLockDoes DEF local, service, counts
  <2> QED BY <1>2, <2>1, WatchSteps DEF Grows, Sends
<1>5. CASE PushBundle(m, Watch)
  <2>1. /\ OthersStand(m, Watch) /\ UNCHANGED <<files, journal, watch, game, ver, gens>> /\ q.op = "tick"
        /\ (q.pc = "ended" /\ files[m] = Empty) \/ (q.pc = "send" /\ q.hash = files[m])
    BY <1>1, <1>2, <1>5, PushBundleDoes DEF local, service, counts
  <2>2. files[m] = Empty => Settled(m)'
    BY <2>1 DEF Settled, Empty
  <2> QED BY <1>2, <2>1, <2>2, WatchSteps DEF Grows, Sends
<1>6. CASE PushSend(m, Watch)
  <2>1. /\ OthersStand(m, Watch) /\ UNCHANGED <<files, journal, watch, game, ver, gens>> /\ q.op = "tick"
        /\ w.pc = "send"
        /\ (q.pc = "ended" /\ w.hash = journal[m].pushed) \/ (q.pc = "put" /\ q.hash = w.hash)
    BY <1>1, <1>2, <1>6, PushSendDoes DEF local, service, counts
  <2>2. q.pc = "ended" => Settled(m)' \/ ~(n.last \/ files[m] = n.seen)
    <3> SUFFICES ASSUME q.pc = "ended", n.last \/ files[m] = n.seen PROVE Settled(m)'
      OBVIOUS
    <3>1. files[m] = w.hash
      BY <1>2, <2>1, SeenPushed DEF Sends
    <3>2. files[m] \in Known
      BY <2>1, <3>1 DEF SyncOK
    <3> QED BY <2>1, <3>2 DEF Settled, Known, OnService
  <2> QED BY <1>2, <2>1, <2>2, WatchSteps DEF Grows, Sends
<1>7. CASE PutArrives(m, Watch)
  <2> DEFINE r == Put(m, w)
  <2>1. /\ OthersStand(m, Watch) /\ UNCHANGED <<files, journal, watch, game, ver>> /\ Grows /\ q.op = "tick"
        /\ w.pc = "put"
        /\ (q.pc = "ended" /\ Refused(r)) \/ (q.pc = "reply" /\ q.hash = w.hash)
        /\ r.parent = w.head.hash /\ Serve(r)
    BY <1>1, <1>2, <1>7, PutArrivesDoes DEF local, counts
  <2> HIDE DEF r
  <2>2. Refused(r) => Settled(m)'
    <3> SUFFICES ASSUME Refused(r) PROVE Settled(m)'
      OBVIOUS
    <3>1. gens # <<>> /\ journal[m].hash # Current.hash
      BY <1>1, <2>1 DEF Refused, WholeSafe
    <3>2. Of(gens, journal[m].gen, journal[m].hash) /\ journal[m].gen \in Nat /\ gens \in Seq(Bundle)
      BY DEF IInv, DataOK, JournalIsTrue, Of
    <3>3. journal[m].gen < Len(gens)
      BY <3>1, <3>2 DEF Of, Current
    <3>4. gens' = gens
      BY <2>1 DEF Serve, service
    <3> QED BY <2>1, <3>3, <3>4, <3>2 DEF Settled
  <2> QED BY <1>2, <2>1, <2>2, WatchSteps DEF Sends
<1>8. CASE PushReply(m, Watch)
  <2>1. /\ OthersStand(m, Watch) /\ UNCHANGED <<files, watch, game, ver, gens>> /\ q.op = "tick"
        /\ \A k \in Machine : k # m => journal'[k] = journal[k]
        /\ w.pc = "reply" /\ q.pc = "ended"
    BY <1>1, <1>2, <1>8, RecordDoes DEF service, counts, PushReply, PullCompare, PullDone, RecordAgreed, At
  <2>2. n.last \/ files[m] = n.seen => Settled(m)'
    <3> SUFFICES ASSUME n.last \/ files[m] = n.seen PROVE Settled(m)'
      OBVIOUS
    <3>1. files[m] = w.hash
      BY <1>2, <2>1, SeenPushed DEF Sends
    <3>2. files[m] \in Known
      BY <1>1, <2>1, <3>1, OfKnown DEF Fits
    <3> QED BY <2>1, <3>2 DEF Settled, Known, OnService
  <2>3. /\ Dated(n.sig)' /\ Dated(n.seen)' /\ Below(n.sig, files[m])
        /\ Below(n.seen, files[m]) /\ Below(n.sig, n.seen) /\ n.sig # n.seen
    BY <1>1, <1>2, <2>1 DEF WatchAt, Dated
  <2>4. files[m] # n.sig
    BY <1>1, <2>3, BelowBoth
  <2>5. WatchAt(m)'
    BY <1>1, <2>1, <2>2, <2>3, <2>4 DEF WatchAt, Below, Sends
  <2> QED BY <2>1, <2>5 DEF Grows
<1> QED BY <1>2, <1>4, <1>5, <1>6, <1>7, <1>8

LEMMA WatchFaults ==
  ASSUME IInv, ShapeOK, CountsOK, WatchOK, asked = 0, NEW m \in Machine, NEW s \in Procs, Faults(m, s), broken' = 0
  PROVE  WatchOK'
<1> DEFINE p == proc[m][s]
           q == proc'[m][s]
<1>1. ~Broken(m, s)
  BY BrokenDoes DEF CountsOK
<1>2. /\ OthersStand(m, s) /\ UNCHANGED <<files, journal, gens, ver, watch, game>> /\ q.pc = "ended" /\ q.op = p.op
      /\ p.pc \in {"put", "reply"} => q.rc = 1
      /\ p.pc \in {"put", "reply", "ask", "meta", "fetch", "choose", "agree"} \/ p.op = "sync"
  BY <1>1, StopDoes DEF Faults, local, service
<1>3. /\ Grows /\ ver \in Nat /\ files[m] \in Bundle /\ watch \in [Machine -> Watching]
      /\ Watch \in Procs /\ Watch \notin Slot /\ ShapeAt(m, s) /\ WatchAt(m)
  <2>1. Watch \in Procs /\ Watch \notin Slot
    BY Types, SyncAssumption DEF SyncAssumption, Watch
  <2> QED BY <1>2, <2>1 DEF Grows, IInv, DataOK, WatchOK, ShapeOK
<1>4. WatchAt(m)'
  <2>1. CASE s = Watch
    <3>1. p.op = "tick" /\ p.pc \in {"put", "reply"}
      BY <1>2, <1>3, <2>1 DEF ShapeAt, ShapeOf, Asked, Synced
    <3> QED BY <1>2, <1>3, <2>1, <3>1, WatchSteps DEF Sends
  <2>2. CASE s # Watch
    <3>1. proc'[m][Watch] = proc[m][Watch]
      BY <1>2, <1>3, <2>2 DEF OthersStand
    <3>2. (Settled(m) => Settled(m)') /\ Below(files[m], files[m])
      BY <1>2, <1>3, SettledStays, BelowSelf
    <3> QED BY <1>2, <1>3, <3>1, <3>2, WatchStays
  <2> QED BY <2>1, <2>2
<1>5. PushesHere(m, s)'
  BY <1>2 DEF PushesHere, Sends
<1> QED BY <1>2, <1>3, <1>4, <1>5, WatchMoves DEF OthersStand

\* What the watcher's last look or a finished push leaves.
LEMMA WatchEnded ==
  ASSUME IInv, ShapeOK, WatchOK, NEW m \in Machine, NEW s \in Procs, Ended(m, s)
  PROVE  WatchAt(m)' /\ watch' \in [Machine -> Watching]
<1> DEFINE w == proc[m][Watch]
           v == proc'[m][Watch]
           n == watch[m]
<1>1. /\ UNCHANGED <<files, journal, gens, ver>>
      /\ \/ /\ v.pc = "sleep" /\ v.op = "none" /\ watch' = [watch EXCEPT ![m] = NoWatch]
         \/ /\ s = Watch /\ w.op = "tick" /\ w.pc = "ended" /\ game' = game
            /\ v.pc = (IF n.last THEN "done" ELSE "sleep") /\ v.op = "none" /\ v.rc = w.rc
            /\ watch' = [watch EXCEPT ![m].seen = Empty, ![m].sig = IF w.rc = 1 THEN n.sig ELSE n.seen]
         \/ game' = game /\ watch' = watch /\ v = w
  BY EndedDoes DEF local, service, counts, SigAfter
<1>2. /\ watch \in [Machine -> Watching] /\ NoWatch \in Watching /\ n \in Watching
      /\ WatchAt(m) /\ files[m] \in Bundle /\ ver \in Nat /\ Empty \in Bundle
  BY Types, SyncAssumption DEF WatchOK, Watching, NoWatch, IInv, DataOK
<1>3. Settled(m)' = Settled(m) /\ Below(Empty, files[m]) /\ Dated(Empty)
  <2>1. Settled(m)' = Settled(m)
    BY <1>1 DEF Settled, OnService, Empty
  <2> QED BY <1>2, <2>1, BelowSelf DEF Dated, Empty
<1>4. CASE v.pc = "sleep" /\ v.op = "none" /\ watch' = [watch EXCEPT ![m] = NoWatch]
  <2>1. watch'[m].sig = Empty /\ watch'[m].seen = Empty /\ watch'[m].last = FALSE
    BY <1>2, <1>4 DEF NoWatch
  <2>2. files[m] = Empty => Settled(m)
    BY DEF Settled
  <2>3. WatchAt(m)'
    BY <1>1, <1>3, <1>4, <2>1, <2>2 DEF WatchAt, Dated, Below, Sends
  <2> QED BY <1>2, <1>4, <2>3
<1>5. CASE /\ w.op = "tick" /\ w.pc = "ended" /\ game' = game
           /\ v.pc = (IF n.last THEN "done" ELSE "sleep") /\ v.op = "none" /\ v.rc = w.rc
           /\ watch' = [watch EXCEPT ![m].seen = Empty, ![m].sig = IF w.rc = 1 THEN n.sig ELSE n.seen]
  <2>1. /\ watch'[m].sig = (IF w.rc = 1 THEN n.sig ELSE n.seen) /\ watch'[m].seen = Empty
        /\ watch'[m].last = n.last /\ watch' \in [Machine -> Watching]
    BY <1>2, <1>5 DEF Watching
  <2>2. game'[m] # "off" => v.pc \notin {"idle", "done"} /\ ~n.last
    BY <1>2, <1>5 DEF WatchAt
  <2>3. /\ Dated(n.sig) /\ Dated(n.seen) /\ Below(n.sig, files[m]) /\ Below(n.seen, files[m])
        /\ (files[m] = n.sig => Settled(m))
        /\ (w.rc # 1 /\ (n.last \/ files[m] = n.seen) => Settled(m))
    BY <1>2, <1>5 DEF WatchAt
  <2>4. WatchAt(m)'
    BY <1>1, <1>3, <1>5, <2>1, <2>2, <2>3 DEF WatchAt, Dated, Below, Sends
  <2> QED BY <2>1, <2>4
<1>6. CASE game' = game /\ watch' = watch /\ v = w
  BY <1>1, <1>2, <1>3, <1>6 DEF WatchAt, Dated, Below
<1> QED BY <1>1, <1>4, <1>5, <1>6

LEMMA WatchTick ==
  ASSUME IInv, WholeOK, WatchOK, NEW m \in Machine, Tick(m)
  PROVE  WatchAt(m)' /\ watch' \in [Machine -> Watching]
<1> DEFINE v == proc'[m][Watch]
           n == watch[m]
<1>1. /\ UNCHANGED <<files, journal, gens, ver, game>>
      /\ v.op = "tick" /\ v.rc = 0 /\ v.pc = (IF files[m] # n.sig THEN "lock" ELSE "done")
      /\ watch' = [watch EXCEPT ![m].seen = files[m], ![m].last = (game[m] = "off")]
      /\ game[m] = "off" \/ files[m] # n.sig
  BY TickDoes DEF local, service, counts, Tick
<1>2. watch \in [Machine -> Watching] /\ n \in Watching /\ WatchAt(m) /\ Dated(files[m]) /\ files[m] \in Bundle
  BY DEF WatchOK, WholeOK, WholeHere, IInv, DataOK
<1>3. /\ watch'[m].sig = n.sig /\ watch'[m].seen = files[m] /\ watch'[m].last = (game[m] = "off")
      /\ watch' \in [Machine -> Watching]
  BY <1>1, <1>2 DEF Watching
<1>4. Settled(m)' = Settled(m) /\ Below(files[m], files[m])
  BY <1>1, <1>2, BelowSelf DEF Settled, OnService, Empty
<1>5. WatchAt(m)'
  BY <1>1, <1>2, <1>3, <1>4 DEF WatchAt, Dated, Below, Sends
<1> QED BY <1>3, <1>5

LEMMA WatchRests ==
  ASSUME IInv, ShapeOK, WholeOK, WatchOK, asked = 0, NEW m \in Machine, Rests(m), ShapeOK', asked' = 0
  PROVE  WatchOK'
<1>1. /\ UNCHANGED <<files, journal, gens, ver>> /\ Grows /\ ver \in Nat /\ files[m] \in Bundle
      /\ Watch \in Procs /\ Watch \notin Slot /\ Slot \subseteq Procs /\ watch \in [Machine -> Watching]
  <2>1. UNCHANGED <<files, journal, gens, ver>> /\ Grows
    BY RestsDoes DEF local, service, Grows
  <2>2. Watch \in Procs /\ Watch \notin Slot /\ Slot \subseteq Procs
    BY Types, SyncAssumption DEF SyncAssumption, Watch
  <2> QED BY <2>1, <2>2 DEF IInv, DataOK, WatchOK
<1>2. ASSUME NEW t \in Slot PROVE PushesHere(m, t)'
  <2>1. t \in Procs /\ PushesHere(m, t)
    BY <1>1 DEF WatchOK
  <2>2. proc'[m][t].op \notin Asked
    BY <2>1 DEF ShapeOK, ShapeAt
  <2>3. proc'[m][t] = proc[m][t] \/ proc'[m][t].pc \in {"idle", "sleep", "done", "lock"}
    BY <2>1, <2>2, RestsDoes
  <2> QED BY <1>1, <2>1, <2>3 DEF PushesHere, Sends
<1>3. ASSUME NEW s \in Slot, NEW op \in Ops, Start(m, s, op) PROVE WatchOK'
  <2>1. /\ OthersStand(m, s) /\ UNCHANGED <<game, watch>> /\ proc'[m][Watch] = proc[m][Watch]
    BY <1>1, <1>3, StartDoes DEF OthersStand
  <2>2. (Settled(m) => Settled(m)') /\ Below(files[m], files[m])
    BY <1>1, SettledStays, BelowSelf
  <2>3. WatchAt(m)'
    BY <1>1, <2>1, <2>2, WatchStays
  <2> QED BY <1>1, <1>2, <2>1, <2>3, WatchMoves DEF OthersStand
<1>4. ASSUME NEW s \in Procs, Ended(m, s) PROVE WatchOK'
  <2>1. /\ \A n \in Machine, t \in Procs : n # m \/ t \notin {s, Watch} => proc'[n][t] = proc[n][t]
        /\ \A n \in Machine : n # m => game'[n] = game[n] /\ watch'[n] = watch[n]
    <3>1. \A n \in Machine, t \in Procs : n # m \/ t \notin {s, Watch} => proc'[n][t] = proc[n][t]
      <4>1. /\ \A n \in Machine, t \in Procs : n # m => proc'[n][t] = proc[n][t]
            /\ \A t \in Procs : t \notin {s, Watch} => proc'[m][t] = proc[m][t]
        BY <1>4, EndedDoes
      <4> QED BY <4>1
    <3>2. \A n \in Machine : n # m => game'[n] = game[n] /\ watch'[n] = watch[n]
      BY <1>1, <1>4 DEF Ended, IInv, DataOK
    <3> QED BY <3>1, <3>2
  <2>2. WatchAt(m)' /\ watch' \in [Machine -> Watching]
    BY <1>4, WatchEnded
  <2> QED BY <1>1, <1>2, <2>1, <2>2, WatchMoves
<1>5. CASE Tick(m)
  <2>1. /\ OthersStand(m, Watch) /\ game' = game
        /\ \A n \in Machine : n # m => watch'[n] = watch[n]
    BY <1>1, <1>5, TickDoes
  <2>2. WatchAt(m)' /\ watch' \in [Machine -> Watching]
    BY <1>5, WatchTick
  <2> QED BY <1>1, <1>2, <2>1, <2>2, WatchMoves DEF OthersStand
<1> QED BY <1>3, <1>4, <1>5 DEF Rests

\* What the game writes is newer than all the watcher has seen.
LEMMA WatchWrites ==
  ASSUME IInv, ShapeOK, Apart, WholeOK, WatchOK, asked = 0, NEW m \in Machine, GameWrites(m)
  PROVE  WatchAt(m)' /\ \A s \in Slot : PushesHere(m, s)'
<1> DEFINE w == proc[m][Watch]
           n == watch[m]
<1>1. PICK f \in File : files' = [files EXCEPT ![m][f] = ver']
  BY DEF GameWrites
<1>2. game[m] = "on" /\ ver' = ver + 1 /\ UNCHANGED <<game, proc, watch>>
  BY DEF GameWrites
<1>3. /\ ver \in Nat /\ files \in [Machine -> Bundle] /\ n.sig \in Bundle /\ n.seen \in Bundle
      /\ Dated(files[m]) /\ WatchAt(m) /\ Slot \subseteq Procs
  BY Types, SyncAssumption DEF WatchOK, Watching, WholeOK, WholeHere, IInv, DataOK
<1>4. \A x \in Bundle : Dated(x) /\ Below(x, files[m]) => Dated(x)' /\ Below(x, files'[m]) /\ files'[m] # x
  <2> SUFFICES ASSUME NEW x \in Bundle, Dated(x), Below(x, files[m])
               PROVE  Dated(x)' /\ Below(x, files'[m]) /\ files'[m] # x
    OBVIOUS
  <2>1. \A g \in File : x[g] \in Nat /\ x[g] <= ver /\ x[g] <= files[m][g]
    BY <1>3 DEF Bundle, Dated, Below
  <2>2. \A g \in File : files'[m][g] = IF g = f THEN ver + 1 ELSE files[m][g]
    BY <1>1, <1>2, <1>3 DEF Bundle
  <2>3. Below(x, files'[m]) /\ files'[m] # x
    BY <1>3, <2>1, <2>2 DEF Below
  <2>4. Dated(x)'
    BY <1>2, <1>3, <2>1 DEF Dated
  <2> QED BY <2>3, <2>4
<1>5. w.pc \notin {"idle", "done"} /\ ~n.last /\ Dated(n.sig) /\ Dated(n.seen) /\ Below(n.sig, files[m])
  BY <1>2, <1>3 DEF WatchAt
<1>6. /\ Dated(n.sig)' /\ Dated(n.seen)' /\ Below(n.sig, files'[m]) /\ files'[m] # n.sig
      /\ w.op = "tick" => Below(n.seen, files'[m]) /\ files'[m] # n.seen
  <2>1. w.op = "tick" => Below(n.seen, files[m])
    BY <1>3 DEF WatchAt
  <2>2. Dated(n.seen)'
    <3>1. ver' \in Nat /\ ver' >= ver
      BY <1>2, <1>3
    <3>2. Dated(n.seen)
      BY <1>5
    <3>3. \A g \in File : n.seen[g] \in Nat /\ n.seen[g] <= ver
      BY <1>3, <3>2 DEF Bundle, Dated
    <3> QED BY <1>2, <1>3, <3>1, <3>3 DEF Dated
  <2>3. \A g \in File : n.sig[g] \in Nat /\ n.sig[g] <= ver
    BY <1>3, <1>5 DEF Bundle, Dated
  <2>4. Dated(n.sig)'
    BY <1>2, <1>3, <2>3 DEF Dated
  <2>5. Below(n.sig, files'[m]) /\ files'[m] # n.sig
    BY <1>3, <1>4, <1>5
  <2>6. w.op = "tick" => Below(n.seen, files'[m]) /\ files'[m] # n.seen
    BY <1>3, <1>4, <1>5, <2>1
  <2> QED BY <2>2, <2>4, <2>5, <2>6
<1>7. WatchAt(m)'
  BY <1>2, <1>3, <1>5, <1>6 DEF WatchAt, Below, Dated
<1>8. ASSUME NEW s \in Slot PROVE PushesHere(m, s)'
  <2>1. ShapeAt(m, s) /\ proc[m][s].op \notin Movers
    BY <1>2, <1>3 DEF ShapeOK, Apart
  <2>2. proc[m][s].pc \notin Sends
    BY <2>1, <1>3, SyncAssumption DEF ShapeAt, ShapeOf, Movers, Synced, Asked, Sends, SyncAssumption, Watch
  <2> QED BY <1>2, <2>2 DEF PushesHere
<1> QED BY <1>7, <1>8

LEMMA WatchBeside ==
  ASSUME IInv, ShapeOK, Apart, WholeOK, WatchOK, asked = 0, Beside
  PROVE  WatchOK'
<1>1. UNCHANGED <<journal, proc, watch>> /\ Grows
  BY BesideDoes, BesideGrows
<1>2. /\ ver \in Nat /\ ver' \in Nat /\ ver' >= ver
      /\ \A n \in Machine : game'[n] # "off" => game[n] # "off"
  <2>1. ver \in Nat /\ game \in [Machine -> {"off", "on", "paused"}]
    BY DEF IInv, DataOK
  <2>2. ver' = ver \/ ver' = ver + 1
    BY DEF Beside, GameWrites, GameStops, GameResumes, PutArrivesLate, Elsewhere, vars, counts
  <2>3. game' = game \/ \E n \in Machine : GameStops(n) \/ GameResumes(n)
    BY DEF Beside, GameWrites, PutArrivesLate, Elsewhere, vars
  <2>4. ASSUME NEW k \in Machine, GameStops(k) \/ GameResumes(k), NEW n \in Machine, game'[n] # "off"
        PROVE  game[n] # "off"
    <3>1. game[k] # "off" /\ \E g : game' = [game EXCEPT ![k] = g]
      BY <2>4 DEF GameStops, GameResumes
    <3> QED BY <2>1, <2>4, <3>1
  <2> QED BY <2>1, <2>2, <2>3, <2>4
<1>3. ASSUME NEW n \in Machine, files'[n] = files[n] PROVE WatchAt(n)' /\ \A s \in Slot : PushesHere(n, s)'
  <2>1. (Settled(n) => Settled(n)') /\ Below(files[n], files[n]) /\ files[n] \in Bundle
    BY <1>1, <1>3, SettledStays, BelowSelf DEF IInv, DataOK
  <2>2. WatchAt(n)'
    BY <1>1, <1>2, <1>3, <2>1, WatchStays
  <2> QED BY <1>1, <1>3, <2>2 DEF WatchOK, PushesHere
<1>4. CASE files' = files
  BY <1>1, <1>3, <1>4 DEF WatchOK
<1>5. ASSUME NEW m \in Machine, GameWrites(m) PROVE WatchOK'
  <2>1. \A n \in Machine : n # m => files'[n] = files[n]
    BY <1>5 DEF GameWrites, IInv, DataOK
  <2>2. WatchAt(m)' /\ \A s \in Slot : PushesHere(m, s)'
    BY <1>5, WatchWrites
  <2> QED BY <1>1, <1>3, <2>1, <2>2 DEF WatchOK
<1> QED BY <1>4, <1>5, BesideGrows

LEMMA WatchNext ==
  /\ IInv /\ ShapeOK /\ CountsOK /\ Apart /\ SyncOK /\ SavesOK
  /\ Plain => WholeOK /\ WatchOK
  /\ [Next]_vars
  => (Plain' => WatchOK')
<1> SUFFICES ASSUME IInv, ShapeOK, CountsOK, Apart, SyncOK, SavesOK, Plain => WholeOK /\ WatchOK,
                    [Next]_vars, Plain'
             PROVE  WatchOK'
  OBVIOUS
<1>1. Plain /\ ShapeOK'
  BY PlainBefore, ShapeNext
<1>2. ASSUME NEW m \in Machine, NEW s \in Procs, Command(m, s), ~Ended(m, s) PROVE WatchOK'
  BY <1>1, <1>2, WatchCommand, WatchPushes DEF Plain, Procs
<1> QED BY <1>1, <1>2, NextCases, WatchRests, WatchFaults, WatchBeside DEF Plain

LEMMA WatchInit == Init => WatchOK
<1> SUFFICES ASSUME Init PROVE WatchOK
  OBVIOUS
<1>1. NoWatch \in Watching /\ IdleProc.pc = "idle" /\ IdleProc.op = "none"
  BY Types, SyncAssumption DEF NoWatch, Watching, IdleProc
<1>2. /\ ver = 0 /\ watch = [m \in Machine |-> NoWatch]
      /\ \A m \in Machine : files[m] = Empty /\ game[m] = "off" /\ \A s \in Procs : proc[m][s] = IdleProc
  BY DEF Init
<1>3. Watch \in Procs /\ Slot \subseteq Procs
  BY Types, SyncAssumption
<1>4. ASSUME NEW m \in Machine PROVE WatchAt(m)
  BY <1>1, <1>2, <1>3 DEF WatchAt, NoWatch, Dated, Below, Empty, Settled, Sends
<1>5. ASSUME NEW m \in Machine, NEW s \in Slot PROVE PushesHere(m, s)
  BY <1>1, <1>2, <1>3 DEF PushesHere, Sends
<1> QED BY <1>1, <1>2, <1>4, <1>5 DEF WatchOK

\* What the watcher's last look leaves is on the service, or the machine and the
\* service have parted (cmd-saves.sh saves_cmd_watch: its signature is taken
\* before the push it stands for), while file operations work.
THEOREM WatcherSettles == Spec /\ []Apart => [](broken = 0 => WatcherLeavesNothing)
<1>1. Init => ShapeOK /\ CountsOK /\ SyncOK /\ SavesOK /\ (Plain => WholeOK /\ WatchOK)
  BY ShapeInit, CountsInit, SyncInit, SavesInit, WholeInit, WatchInit
<1>2. IInv /\ ShapeOK /\ CountsOK /\ SyncOK /\ SavesOK /\ (Plain => WholeOK /\ WatchOK) /\ Apart /\ [Next]_vars
        => ShapeOK' /\ CountsOK' /\ SyncOK' /\ SavesOK' /\ (Plain => WholeOK /\ WatchOK)'
  BY ShapeNext, CountsNext, SyncNext, SavesNext, WholeNext, WatchNext
<1>3. (Plain => WholeOK /\ WatchOK) => (broken = 0 => WatcherLeavesNothing)
  BY DEF Plain, WatchOK, WatchAt, WatcherLeavesNothing, At
<1> QED BY <1>1, <1>2, <1>3, IInvHolds, PTL DEF Spec

\* Where one command runs at a time on a machine, and none that moves save files
\* beside a game, none of this needs more: the picker stops its sync before it
\* hands over to a launch (syncing.py), and what the overlay asks for runs while
\* the game is stopped (cmd-saves.sh).
THEOREM OneCommandIsSafe ==
  ASSUME OneCommand
  PROVE  Spec => /\ []SyncPlacesOnlyOverSynced /\ []RestoreStandsOnline /\ []GenerationsAreWhole
                 /\ [](broken = 0 => WatcherLeavesNothing)
  BY ApartHolds, PlacesOverSynced, RestoreStandsFor, GenerationsWhole, WatcherSettles, PTL
=============================================================================
