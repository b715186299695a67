----------------------------- MODULE PortsStore ------------------------------
(***************************************************************************)
(* The pushed builds of one user's one output (gotg/ports.py, PortsStore,  *)
(* and service/routes_ports.py): a directory of build-<sha>.run files and  *)
(* current.json, which names one.  An upload streams to a file of its own  *)
(* without the lock and is hashed; under the lock it gets its name, then   *)
(* the pointer, and the other builds go.  A download reads the pointer,    *)
(* looks for the file and opens it, with no lock.  The service may stop    *)
(* between any two of these.  A build stands for its bytes and their hash. *)
(***************************************************************************)
EXTENDS FiniteSets

CONSTANTS Build,
          TooBig,   \* the builds over max_bytes
          Uploader  \* request threads

VARIABLES builds,   \* the builds that have their file
          pointer,  \* what current.json names: at most one build
          holder,   \* the lock's holder: at most one thread
          calls,    \* per thread: where its request is
          missed,   \* history: a download that began found nothing
          moved     \* history: threads whose request another's change overtook

vars == <<builds, pointer, holder, calls, missed, moved>>

Idle == [at |-> "idle", build |-> {}]
Call == [at : {"idle", "stream", "lock", "name", "point", "sweep",
               "drop", "dropAll", "look", "open"},
         build : SUBSET Build]

Init == /\ builds = {} /\ pointer = {} /\ holder = {}
        /\ calls = [t \in Uploader |-> Idle]
        /\ missed = FALSE /\ moved = {}

Goes(t, at, build) == calls' = [calls EXCEPT ![t] = [at |-> at, build |-> build]]
Moves(t) == moved' = moved \cup (Uploader \ {t})

\* _ports_put, put: over the cap it is refused before a byte is read.
BeginPut(t, b) ==
  /\ calls[t].at = "idle" /\ b \notin TooBig
  /\ Goes(t, "stream", {b})
  /\ UNCHANGED <<builds, pointer, holder, moved, missed>>

\* The body: whole and as claimed, or cut short or not what was claimed, and
\* then its file goes with it.
Stream(t) ==
  /\ calls[t].at = "stream"
  /\ \/ Goes(t, "lock", calls[t].build)
     \/ Goes(t, "idle", {})
  /\ UNCHANGED <<builds, pointer, holder, moved, missed>>

Lock(t) ==
  /\ calls[t].at \in {"lock", "drop"} /\ holder = {}
  /\ IF calls[t].at = "lock"
     THEN Goes(t, "name", calls[t].build) /\ holder' = {t}
     ELSE IF pointer = {} THEN Goes(t, "idle", {}) /\ UNCHANGED holder
     ELSE Goes(t, "dropAll", {}) /\ holder' = {t}
  \* delete: the pointer goes first.
  /\ pointer' = IF calls[t].at = "drop" THEN {} ELSE pointer
  /\ IF pointer' # pointer THEN Moves(t) ELSE UNCHANGED moved
  /\ UNCHANGED <<builds, missed>>

\* A slip of put's order: the pointer first.
PointBeforeName(t) ==
  /\ calls[t].at = "name"
  /\ pointer' = calls[t].build
  /\ Goes(t, "sweep", calls[t].build)
  /\ builds' = builds \cup IF pointer = {} THEN {} ELSE calls[t].build
  /\ UNCHANGED <<holder, moved, missed>>

Name(t) ==
  /\ calls[t].at = "name"
  /\ builds' = builds \cup calls[t].build
  /\ Goes(t, "point", calls[t].build)
  /\ UNCHANGED <<pointer, holder, moved, missed>>

\* current.json is written beside itself and renamed.
Point(t) ==
  /\ calls[t].at = "point"
  /\ pointer' = calls[t].build
  /\ Goes(t, "sweep", calls[t].build)
  /\ Moves(t)
  /\ UNCHANGED <<builds, holder, missed>>

\* The other builds, one at a time, in the directory's order; the last frees
\* the lock.  Of a delete they are all.
Sweep(t) ==
  LET rest == builds \ calls[t].build IN
  /\ calls[t].at \in {"sweep", "dropAll"}
  /\ IF rest = {} THEN holder' = {} /\ Goes(t, "idle", {}) /\ UNCHANGED builds
     ELSE \E b \in rest : builds' = builds \ {b} /\ UNCHANGED <<holder, calls>>
  /\ UNCHANGED <<pointer, moved, missed>>

BeginDelete(t) ==
  /\ calls[t].at = "idle"
  /\ Goes(t, "drop", {})
  /\ UNCHANGED <<builds, pointer, holder, moved, missed>>

\* build_path: the pointer, then the file's presence, then _ports_file opens it.
Meta(t) ==
  /\ calls[t].at = "idle" /\ pointer # {}
  /\ Goes(t, "look", pointer)
  /\ moved' = moved \ {t}
  /\ UNCHANGED <<builds, pointer, holder, missed>>

Look(t) ==
  LET there == calls[t].build \subseteq builds IN
  /\ calls[t].at = "look"
  /\ IF there THEN Goes(t, "open", calls[t].build) ELSE Goes(t, "idle", {})
  /\ missed' = (missed \/ (~there /\ t \notin moved))
  /\ UNCHANGED <<builds, pointer, holder, moved>>

Open(t) ==
  LET there == calls[t].build \subseteq builds IN
  /\ calls[t].at = "open"
  /\ missed' = (missed \/ (~there /\ t \notin moved))
  /\ Goes(t, "idle", {})
  /\ UNCHANGED <<builds, pointer, holder, moved>>

\* A stop: the uploads' own files stay behind, unnamed; the lock is new.
Crash ==
  /\ \E t \in Uploader : calls[t].at # "idle"
  /\ calls' = [t \in Uploader |-> Idle]
  /\ holder' = {}
  /\ UNCHANGED <<builds, pointer, moved, missed>>

Next == \/ \E t \in Uploader : \/ \E b \in Build : BeginPut(t, b)
                               \/ Stream(t) \/ Lock(t) \/ Name(t) \/ Point(t) \/ Sweep(t)
                               \/ BeginDelete(t) \/ Meta(t) \/ Look(t) \/ Open(t)
        \/ Crash

Spec == Init /\ [][Next]_vars

-----------------------------------------------------------------------------
\* The shape of the state.
TypeOK == /\ builds \subseteq Build /\ pointer \subseteq Build
          /\ holder \subseteq Uploader /\ moved \subseteq Uploader
          /\ calls \in [Uploader -> Call]
          /\ missed \in BOOLEAN

\* What current.json names is there, whole ("the file is whole and hashed on
\* disk before the pointer names it"), at every step of a put or a delete and
\* after a stop between any two; and a download whose build nobody replaced or
\* deleted meanwhile finds it.
PointerStands == pointer \subseteq builds /\ ~missed

=============================================================================
