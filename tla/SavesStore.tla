------------------------------ MODULE SavesStore -----------------------------
(***************************************************************************)
(* The service's saves store (gotg/saves.py) for one environment of one    *)
(* user, down to the order its files reach the disk.  A push runs under    *)
(* the store's lock and takes several steps: the bundle, the history       *)
(* record, the pointer current.json, and then retention, one file at a     *)
(* time.  The service may stop between any two of them, and a GET of the   *)
(* head reads the same files without the lock.                             *)
(*                                                                         *)
(* A file is what its name says it is: a bundle's name carries its         *)
(* generation and digest, and .part files are invisible until replace().   *)
(***************************************************************************)
EXTENDS Integers, FiniteSets

CONSTANTS Thread,      \* request threads serving a PUT
          Reader,      \* request threads serving a GET of the head
          Hash,        \* digests; numbers, for names sort by them
          Keep,        \* generations retention keeps
          LastGen,     \* the last generation whose name matches GEN_RE
          MaxAsks,     \* bound: pushes asked for
          MaxFaults   \* bound: restarts of the service and failed writes

NoHash == 0
NoThread == "none"

ASSUME StoreAssumption ==
  /\ Hash \subseteq Nat \ {NoHash}
  /\ NoThread \notin Thread
  /\ Keep \in Nat \ {0}
  /\ LastGen \in Nat \ {0}
  /\ MaxAsks \in Nat /\ MaxFaults \in Nat

VARIABLES bundles,   \* gen/: the bundle files, by name
          records,   \* history/: what is known of each
          pointer,   \* current.json
          lock,      \* the store's one lock
          push,      \* per thread: the PUT it is serving
          get,       \* per reader: the GET it is serving
          asks, faults,  \* how much of the two bounds is used
          committed  \* history: every pointer ever put in place

disk == <<bundles, records, pointer>>
bounds == <<asks, faults>>
vars == <<bundles, records, pointer, lock, push, get, asks, faults, committed>>

Name == [gen : Nat \ {0}, hash : Hash]
Meta == [gen : Nat \ {0}, hash : Hash, over : Nat]
NoMeta == [gen |-> 0, hash |-> NoHash, over |-> 0]

\* The file a pointer or a record speaks of.
NameOf(m) == [gen |-> m.gen, hash |-> m.hash]

\* Zero-padded names: lexical order is age order, then digest order.
Older(n, o) == n.gen < o.gen \/ (n.gen = o.gen /\ n.hash < o.hash)

\* meta() refuses a pointer whose bundle is not shaped like a generation.
Readable(m) == m.gen <= LastGen

IdlePush == [pc |-> "idle", body |-> NoHash, parent |-> NoHash,
             force |-> FALSE, seen |-> NoMeta, drop |-> {}, reply |-> "none"]
IdleGet == [pc |-> "idle", label |-> NoMeta, file |-> NoMeta]

Init == /\ bundles = {} /\ records = {} /\ pointer = NoMeta
        /\ lock = NoThread
        /\ push = [t \in Thread |-> IdlePush]
        /\ get = [r \in Reader |-> IdleGet]
        /\ asks = 0 /\ faults = 0
        /\ committed = {}

-----------------------------------------------------------------------------
(* A push, in the order save() does it *)

Ask(t) ==
  /\ push[t].pc = "idle" /\ asks < MaxAsks
  /\ \E b \in Hash, p \in Hash \cup {NoHash}, f \in BOOLEAN :
       push' = [push EXCEPT ![t] = [pc |-> "ask", body |-> b, parent |-> p,
                                    force |-> f, seen |-> NoMeta,
                                    drop |-> {}, reply |-> "none"]]
  /\ asks' = asks + 1
  /\ UNCHANGED <<disk, lock, get, faults, committed>>


\* A slip of Leave: the early return that forgets the lock.
LeaveHolding(t, r) == /\ push' = [push EXCEPT ![t].pc = "answer", ![t].reply = r]
                      /\ UNCHANGED lock

\* The end of a push's critical section, with what it will be answered.
Leave(t, r) == /\ push' = [push EXCEPT ![t].pc = "answer", ![t].reply = r]
               /\ lock' = NoThread


\* A slip of MayAdvance: a push that names no parent passes for a descendant.
MayAdvanceOrphan(t, m) ==
  m.gen > 0 => /\ push[t].body # m.hash
               /\ push[t].force \/ push[t].parent \in {m.hash, NoHash}

\* Whether a push that saw the pointer m may advance it.
MayAdvance(t, m) ==
  m.gen > 0 => /\ push[t].body # m.hash
               /\ push[t].force \/ push[t].parent = m.hash

\* The lock is taken and the pointer read: the push is settled here, or goes
\* on to write.
Decide(t) ==
  /\ push[t].pc = "ask" /\ lock = NoThread
  /\ \/ /\ ~Readable(pointer)
        /\ Leave(t, "error")
     \/ /\ Readable(pointer) /\ pointer.gen > 0
        /\ push[t].body = pointer.hash
        /\ Leave(t, "same")
     \/ /\ Readable(pointer) /\ pointer.gen > 0
        /\ push[t].body # pointer.hash
        /\ ~push[t].force /\ push[t].parent # pointer.hash
        /\ Leave(t, "conflict")
     \/ /\ Readable(pointer) /\ MayAdvance(t, pointer)
        /\ lock' = t
        /\ push' = [push EXCEPT ![t].pc = "bundle", ![t].seen = pointer]
  /\ UNCHANGED <<disk, get, bounds, committed>>

\* What the push will make current.  Only a forced push can find a head it
\* does not descend from, and its meta says which generation it replaced.
NextMeta(t) ==
  LET seen == push[t].seen
  IN  [gen |-> seen.gen + 1, hash |-> push[t].body,
       over |-> IF seen.gen > 0 /\ push[t].parent # seen.hash
                THEN seen.gen ELSE 0]

\* A slip of WriteBundle: the .part file is never moved into place.
WriteBundlePart(t) ==
  /\ push[t].pc = "bundle"
  /\ push' = [push EXCEPT ![t].pc = "record"]
  /\ UNCHANGED <<disk, lock, get, bounds, committed>>

WriteBundle(t) ==
  /\ push[t].pc = "bundle"
  /\ bundles' = bundles \cup {NameOf(NextMeta(t))}
  /\ push' = [push EXCEPT ![t].pc = "record"]
  /\ UNCHANGED <<records, pointer, lock, get, bounds, committed>>


\* A slip of WriteRecord: a record already under that name is left as it is.
WriteRecordOnce(t) ==
  /\ push[t].pc = "record"
  /\ records' = IF \E r \in records : NameOf(r) = NameOf(NextMeta(t))
                THEN records ELSE records \cup {NextMeta(t)}
  /\ push' = [push EXCEPT ![t].pc = "pointer"]
  /\ UNCHANGED <<bundles, pointer, lock, get, bounds, committed>>

WriteRecord(t) ==
  /\ push[t].pc = "record"
  /\ records' = {r \in records : NameOf(r) # NameOf(NextMeta(t))}
                  \cup {NextMeta(t)}
  /\ push' = [push EXCEPT ![t].pc = "pointer"]
  /\ UNCHANGED <<bundles, pointer, lock, get, bounds, committed>>

WritePointer(t) ==
  /\ push[t].pc = "pointer"
  /\ pointer' = NextMeta(t)
  /\ committed' = committed \cup {NextMeta(t)}
  /\ push' = [push EXCEPT ![t].pc = "list"]
  /\ UNCHANGED <<bundles, records, lock, get, bounds>>


\* A slip of Excess: one generation too many goes.
ExcessByOne(keepName) ==
  {n \in bundles : Cardinality({o \in bundles : Older(n, o)}) >= Keep - 1}
    \ {keepName}

\* All but the newest Keep, of the names shaped like a generation, and never
\* the one just pointed at.
Excess(keepName) ==
  LET names == {n \in bundles : Readable(n)}
  IN  {n \in names : Cardinality({o \in names : Older(n, o)}) >= Keep}
        \ {keepName}

ListExcess(t) ==
  /\ push[t].pc = "list"
  /\ push' = [push EXCEPT ![t].pc = "prune",
                          ![t].drop = Excess(NameOf(NextMeta(t)))]
  /\ UNCHANGED <<disk, lock, get, bounds, committed>>

\* The oldest of the names still to drop.
IsOldest(n, S) == n \in S /\ \A o \in S : o # n => Older(n, o)

DropBundle(t) ==
  /\ push[t].pc = "prune"
  /\ \E n \in push[t].drop :
       /\ IsOldest(n, push[t].drop)
       /\ bundles' = bundles \ {n}
  /\ push' = [push EXCEPT ![t].pc = "unlink"]
  /\ UNCHANGED <<records, pointer, lock, get, bounds, committed>>

DropRecord(t) ==
  /\ push[t].pc = "unlink"
  /\ \E n \in push[t].drop :
       /\ IsOldest(n, push[t].drop)
       /\ records' = {r \in records : NameOf(r) # n}
       /\ push' = [push EXCEPT ![t].pc = "prune", ![t].drop = @ \ {n}]
  /\ UNCHANGED <<bundles, pointer, lock, get, bounds, committed>>

Finish(t) ==
  /\ push[t].pc = "prune" /\ push[t].drop = {}
  /\ Leave(t, "advanced")
  /\ UNCHANGED <<disk, get, bounds, committed>>

Writing == {"bundle", "record", "pointer", "list", "prune", "unlink"}

\* The disk says no part way through.  The with statement gives the lock back;
\* what was already written stays.
Fail(t) ==
  /\ push[t].pc \in Writing /\ faults < MaxFaults
  /\ Leave(t, "error")
  /\ faults' = faults + 1
  /\ UNCHANGED <<disk, get, asks, committed>>

Answer(t) ==
  /\ push[t].pc = "answer"
  /\ push' = [push EXCEPT ![t] = IdlePush]
  /\ UNCHANGED <<disk, lock, get, bounds, committed>>

-----------------------------------------------------------------------------
(* GET of the head: two reads of the pointer, then the file, no lock *)

ReadLabel(r) ==
  /\ get[r].pc = "idle" /\ pointer.gen > 0
  /\ get' = [get EXCEPT ![r] =
       IF Readable(pointer)
       THEN [pc |-> "label", label |-> pointer, file |-> NoMeta]
       ELSE [pc |-> "error", label |-> NoMeta, file |-> NoMeta]]
  /\ UNCHANGED <<disk, lock, push, bounds, committed>>


\* A slip of ReadPath: the newest file in gen/ instead of the one pointed at.
ReadPathNewest(r) ==
  /\ get[r].pc = "label"
  /\ \E n \in bundles :
       /\ \A o \in bundles : ~Older(n, o)
       /\ get' = [get EXCEPT ![r].pc = "path",
                  ![r].file = [gen |-> n.gen, hash |-> n.hash, over |-> 0]]
  /\ UNCHANGED <<disk, lock, push, bounds, committed>>

ReadPath(r) ==
  /\ get[r].pc = "label"
  /\ get' = [get EXCEPT ![r] =
       [@ EXCEPT !.pc = IF Readable(pointer) THEN "path" ELSE "error",
                 !.file = pointer]]
  /\ UNCHANGED <<disk, lock, push, bounds, committed>>

\* The file the second read named is opened, or retention has been there
\* first: 404 at is_file(), 500 at read_bytes().
ReadBytes(r) ==
  /\ get[r].pc = "path"
  /\ get' = [get EXCEPT ![r].pc =
       IF NameOf(get[r].file) \in bundles THEN "sent" ELSE "gone"]
  /\ UNCHANGED <<disk, lock, push, bounds, committed>>

EndGet(r) ==
  /\ get[r].pc \in {"sent", "gone", "error"}
  /\ get' = [get EXCEPT ![r] = IdleGet]
  /\ UNCHANGED <<disk, lock, push, bounds, committed>>

-----------------------------------------------------------------------------

\* The service stops and starts again: its threads are gone, its files are not.
Crash ==
  /\ faults < MaxFaults
  /\ faults' = faults + 1
  /\ lock' = NoThread
  /\ push' = [t \in Thread |-> IdlePush]
  /\ get' = [r \in Reader |-> IdleGet]
  /\ UNCHANGED <<disk, asks, committed>>

Push(t) == \/ Decide(t) \/ WriteBundle(t) \/ WriteRecord(t) \/ WritePointer(t)
           \/ ListExcess(t) \/ DropBundle(t) \/ DropRecord(t) \/ Finish(t)
           \/ Answer(t)
Get(r) == ReadPath(r) \/ ReadBytes(r) \/ EndGet(r)

Next == \/ \E t \in Thread : Ask(t) \/ Push(t) \/ Fail(t)
        \/ \E r \in Reader : ReadLabel(r) \/ Get(r)
        \/ Crash

Spec == Init /\ [][Next]_vars

\* Every thread the service has started is scheduled; nothing makes a client
\* ask.
FairSpec == Spec /\ \A t \in Thread : WF_vars(Push(t))
                 /\ \A r \in Reader : WF_vars(Get(r))
-----------------------------------------------------------------------------
(* What has to hold *)

PushRecord ==
  [pc : Writing \cup {"idle", "ask", "answer"},
   body : Hash \cup {NoHash}, parent : Hash \cup {NoHash},
   force : BOOLEAN, seen : Meta \cup {NoMeta}, drop : SUBSET Name,
   reply : {"none", "same", "conflict", "advanced", "error"}]

GetRecord == [pc : {"idle", "label", "path", "sent", "gone", "error"},
              label : Meta \cup {NoMeta}, file : Meta \cup {NoMeta}]

\* Every variable holds what its file or thread can hold, and the lock is
\* held by exactly the thread that is writing.
TypeOK ==
  /\ bundles \subseteq Name
  /\ records \subseteq Meta
  /\ pointer \in Meta \cup {NoMeta}
  /\ committed \subseteq Meta
  /\ lock \in Thread \cup {NoThread}
  /\ asks \in Nat /\ faults \in Nat
  /\ push \in [Thread -> PushRecord]
  /\ get \in [Reader -> GetRecord]

\* "The bundle is durable on disk before the pointer names it": whatever the
\* store was doing when it was stopped, current.json names a bundle that is
\* there, and neither retention nor an orphan takes it.
HeadIsStored == pointer.gen > 0 => NameOf(pointer) \in bundles

\* A generation that was ever current and whose bundle is kept has the record
\* that was true of it -- not one an interrupted push of the same name left.
HistoryIsTrue ==
  \A m \in committed : NameOf(m) \in bundles => m \in records

\* A GET without the lock: the bytes it sends are a generation that really was
\* the head, and never older than the generation the reply is labelled with.
ServedWasHead ==
  \A r \in Reader : get[r].pc = "sent" =>
    /\ get[r].file \in committed /\ get[r].label \in committed
    /\ get[r].label.gen <= get[r].file.gen

\* While nothing fails, the last Keep heads are all there, the one a forced
\* push replaced among them.
KeptAreThere ==
  faults = 0 =>
    \A m \in committed : m.gen > pointer.gen - Keep => NameOf(m) \in bundles

\* While nothing fails, a GET finds its file gone only when Keep pushes went
\* by between its two looks.
GoneOnlyWhenOverrun ==
  faults = 0 =>
    \A r \in Reader : get[r].pc = "gone" => pointer.gen >= get[r].file.gen + Keep

\* Retention finishes what it started: with no push under way and nothing
\* having failed, no more than Keep bundles are on the disk.  The bundle whose
\* number has one digit too many is not shaped like a generation: retention
\* does not count it, and one more is left beside it.
RetentionBounds ==
  Readable(pointer) /\ lock = NoThread /\ faults = 0
    => Cardinality(bundles) <= Keep

\* What retention promises, whatever two pushes and a reader do at once: it keeps
\* the last heads, drops only what Keep pushes went by, and leaves no more.
RetentionIsKept == KeptAreThere /\ GoneOnlyWhenOverrun /\ RetentionBounds

\* Each push the service reads is answered (or its thread dies with the
\* service): the lock is given back on every way out of save().
PushIsAnswered ==
  \A t \in Thread : push[t].pc = "ask" ~> push[t].pc \in {"answer", "idle"}

\* The store under the lock is the compare-and-set register of SavesHead: a
\* push takes effect when the pointer is replaced, one that changes nothing
\* when the pointer is read.
Call(p) ==
  [st |-> CASE p.pc = "idle" -> "idle"
            [] p.pc \in {"ask", "bundle", "record", "pointer"} -> "asked"
            [] OTHER -> "done",
   body |-> p.body, parent |-> p.parent, force |-> p.force,
   reply |-> IF p.pc \in {"list", "prune", "unlink"} THEN "advanced"
             ELSE p.reply]

AbstractCall == [t \in Thread |-> Call(push[t])]
AbstractHead == [gen |-> pointer.gen, hash |-> pointer.hash]

Abstract == INSTANCE SavesHead WITH head <- AbstractHead, call <- AbstractCall

ImplementsHead == Abstract!HSpec

-----------------------------------------------------------------------------
(* What history() says of the disk *)

\* The generations history() marks as the head.
MarkedCurrent == {n \in bundles : Readable(n) /\ n.gen = pointer.gen}

\* history() marks each kept generation "whether it is the head": with a head
\* there, exactly one of them is.  It does not hold: it marks by number, and a
\* push cut before its pointer leaves an orphan that the next one numbers again.
OneIsCurrent ==
  pointer.gen > 0 /\ Readable(pointer) => Cardinality(MarkedCurrent) = 1
=============================================================================
