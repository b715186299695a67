--------------------------- MODULE SavesStoreProofs --------------------------
(***************************************************************************)
(* The saves store, for every number of threads, digests, restarts and     *)
(* every retention: its types, that the head's bundle is always there,     *)
(* that the record of a kept generation is the true one, that an unlocked  *)
(* GET serves a generation that was the head, and that retention keeps the *)
(* last heads and no more.                                                 *)
(***************************************************************************)
EXTENDS SavesStore, FiniteSetTheorems, TLAPS

\* A thread that is serving a push has bytes to push.
BodyInv == \A t \in Thread : push[t].pc # "idle" => push[t].body \in Hash

\* The lock is held by the thread that is between reading the pointer and
\* leaving, and by no other.
LockInv == \A t \in Thread : push[t].pc \in Writing <=> lock = t

\* What the writing thread knows of the disk at each of its steps.
BeforePointer == {"bundle", "record", "pointer"}
AfterPointer == {"list", "prune", "unlink"}

StepInv ==
  \A t \in Thread :
    /\ push[t].pc \in BeforePointer =>
         push[t].seen = pointer /\ MayAdvance(t, pointer)
    /\ push[t].pc \in {"record", "pointer"} => NameOf(NextMeta(t)) \in bundles
    /\ push[t].pc = "pointer" => NextMeta(t) \in records
    /\ push[t].pc \in AfterPointer => pointer = NextMeta(t)
    /\ push[t].pc \in {"prune", "unlink"} => NameOf(pointer) \notin push[t].drop
    /\ push[t].pc = "unlink" =>
         \A n \in push[t].drop : IsOldest(n, push[t].drop) => n \notin bundles

\* Generations only grow, so what was ever current is at or below the head.
CommittedInv ==
  /\ pointer.gen > 0 => pointer \in committed
  /\ \A m \in committed : m.gen <= pointer.gen

\* What a GET has read by now was current when it read it.
GetInv ==
  \A r \in Reader :
    /\ get[r].pc \in {"label", "path", "sent", "gone"}
         => get[r].label \in committed
    /\ get[r].pc \in {"path", "sent", "gone"}
         => /\ get[r].file \in committed
            /\ get[r].label.gen <= get[r].file.gen

IInv == /\ TypeOK /\ BodyInv /\ LockInv /\ StepInv
        /\ CommittedInv /\ HeadIsStored /\ HistoryIsTrue /\ GetInv

USE StoreAssumption

-----------------------------------------------------------------------------

LEMMA NoMetaFacts == NoMeta.gen = 0 /\ NoMeta.hash = NoHash
  BY DEF NoMeta

\* What a push makes current is a well-formed meta, one generation on.
LEMMA NextMetaType ==
  ASSUME TypeOK, BodyInv, NEW t \in Thread, push[t].pc # "idle"
  PROVE  /\ NextMeta(t) \in Meta
         /\ NextMeta(t).gen = push[t].seen.gen + 1
         /\ NextMeta(t).hash = push[t].body
         /\ NameOf(NextMeta(t)) \in Name
         /\ NextMeta(t).gen > 0
<1>1. push[t].seen \in Meta \cup {NoMeta} /\ push[t].body \in Hash
  BY DEF TypeOK, PushRecord, BodyInv
<1>2. push[t].seen.gen \in Nat
  BY <1>1 DEF Meta, NoMeta
<1> QED BY <1>1, <1>2 DEF NextMeta, NameOf, Name, Meta

\* One thread writes at a time.
LEMMA OnlyWriter ==
  ASSUME LockInv, NEW t \in Thread, push[t].pc \in Writing,
         NEW u \in Thread, u # t
  PROVE  push[u].pc \notin Writing
  BY DEF LockInv

LEMMA InitInv == Init => IInv
  BY DEF Init, IInv, TypeOK, PushRecord, GetRecord, BodyInv, LockInv, StepInv, CommittedInv,
     HeadIsStored, HistoryIsTrue, GetInv, IdlePush, IdleGet, NoMeta, Writing,
     BeforePointer, AfterPointer

\* Asking touches nothing but the thread's own push.
LEMMA AskInv ==
  ASSUME IInv, NEW t \in Thread, Ask(t)
  PROVE  IInv'
<1> USE DEF IInv, vars, disk, bounds
<1>1. TypeOK'
  BY DEF TypeOK, PushRecord, GetRecord, Writing, Ask, NoMeta, Writing
<1>2. BodyInv'
  BY DEF TypeOK, PushRecord, GetRecord, BodyInv, Writing, Ask, NoMeta, Writing
<1>3. LockInv'
  BY DEF TypeOK, PushRecord, GetRecord, LockInv, Writing, Ask, NoMeta, Writing
<1>4. StepInv'
  BY DEF TypeOK, PushRecord, GetRecord, StepInv, MayAdvance, BeforePointer, AfterPointer, NextMeta, Ask, NoMeta, Writing
<1>5. CommittedInv'
  BY DEF TypeOK, PushRecord, GetRecord, StepInv, CommittedInv, Ask, NoMeta, Writing
<1>6. HeadIsStored'
  BY DEF TypeOK, PushRecord, GetRecord, HeadIsStored, StepInv, Ask, NoMeta, Writing
<1>7. HistoryIsTrue'
  BY DEF TypeOK, PushRecord, GetRecord, HistoryIsTrue, StepInv, CommittedInv, Ask, NoMeta, Writing
<1>8. GetInv'
  BY DEF TypeOK, PushRecord, GetRecord, GetInv, CommittedInv, Ask, NoMeta, Writing
<1> QED BY <1>1, <1>2, <1>3, <1>4, <1>5, <1>6, <1>7, <1>8


\* A push that goes on takes the lock knowing the pointer.
LEMMA DecideInv ==
  ASSUME IInv, NEW t \in Thread, Decide(t)
  PROVE  IInv'
<1> USE DEF IInv, vars, disk, bounds
<1>1. TypeOK'
  BY DEF TypeOK, PushRecord, GetRecord, Writing, Decide, Leave, Writing
<1>2. BodyInv'
  BY DEF TypeOK, PushRecord, GetRecord, BodyInv, Writing, Decide, Leave, Writing
<1>3. LockInv'
  BY DEF TypeOK, PushRecord, GetRecord, LockInv, Writing, Decide, Leave, Writing
<1>4. StepInv'
  BY DEF TypeOK, PushRecord, GetRecord, StepInv, MayAdvance, BeforePointer, AfterPointer, NextMeta, Decide, Leave, Writing
<1>5. CommittedInv'
  BY DEF TypeOK, PushRecord, GetRecord, StepInv, CommittedInv, Decide, Leave, Writing
<1>6. HeadIsStored'
  BY DEF TypeOK, PushRecord, GetRecord, HeadIsStored, StepInv, Decide, Leave, Writing
<1>7. HistoryIsTrue'
  BY DEF TypeOK, PushRecord, GetRecord, HistoryIsTrue, StepInv, CommittedInv, Decide, Leave, Writing
<1>8. GetInv'
  BY DEF TypeOK, PushRecord, GetRecord, GetInv, CommittedInv, Decide, Leave, Writing
<1> QED BY <1>1, <1>2, <1>3, <1>4, <1>5, <1>6, <1>7, <1>8


\* The bundle's name is one past every generation that was ever current.
LEMMA WriteBundleInv ==
  ASSUME IInv, NEW t \in Thread, WriteBundle(t)
  PROVE  IInv'
<1> USE DEF IInv, vars, disk, bounds
<1>0. /\ NextMeta(t) \in Meta /\ NameOf(NextMeta(t)) \in Name
      /\ NextMeta(t).gen = push[t].seen.gen + 1
      /\ push[t].pc \in BeforePointer
  BY NextMetaType DEF BeforePointer, WriteBundle
<1>1. TypeOK'
  BY <1>0 DEF TypeOK, PushRecord, GetRecord, Writing, WriteBundle
<1>2. BodyInv'
  BY DEF TypeOK, PushRecord, GetRecord, BodyInv, Writing, WriteBundle
<1>3. LockInv'
  BY DEF TypeOK, PushRecord, GetRecord, LockInv, Writing, WriteBundle
<1>4. StepInv'
  <2> SUFFICES ASSUME NEW u \in Thread PROVE StepInv!(u)'
    BY DEF StepInv
  <2>1. CASE u # t
    BY <2>1, OnlyWriter DEF TypeOK, PushRecord, GetRecord, Writing, BeforePointer, AfterPointer, WriteBundle
  <2>2. CASE u = t
    <3>1. NextMeta(t)' = NextMeta(t)
      BY DEF TypeOK, PushRecord, GetRecord, NextMeta, WriteBundle
    <3> QED
      BY <1>0, <2>2, <3>1 DEF TypeOK, PushRecord, GetRecord, StepInv, MayAdvance, Writing, BeforePointer, AfterPointer, WriteBundle
  <2> QED BY <2>1, <2>2
<1>5. CommittedInv'
  BY <1>0 DEF TypeOK, PushRecord, GetRecord, StepInv, CommittedInv, WriteBundle
<1>6. HeadIsStored'
  BY <1>0 DEF TypeOK, PushRecord, GetRecord, HeadIsStored, StepInv, WriteBundle
<1>7. HistoryIsTrue'
  <2> SUFFICES ASSUME NEW m \in committed, NameOf(m) \in bundles' PROVE m \in records
    BY DEF HistoryIsTrue, WriteBundle
  <2>1. NameOf(m) # NameOf(NextMeta(t))
    BY <1>0 DEF TypeOK, PushRecord, GetRecord, CommittedInv, StepInv, BeforePointer, NameOf, Meta, NoMeta, WriteBundle
  <2> QED BY <2>1 DEF HistoryIsTrue, WriteBundle
<1>8. GetInv'
  BY DEF TypeOK, PushRecord, GetRecord, GetInv, CommittedInv, WriteBundle
<1> QED BY <1>1, <1>2, <1>3, <1>4, <1>5, <1>6, <1>7, <1>8


\* No record of a generation that was ever current has that name.
LEMMA WriteRecordInv ==
  ASSUME IInv, NEW t \in Thread, WriteRecord(t)
  PROVE  IInv'
<1> USE DEF IInv, vars, disk, bounds
<1>0. /\ NextMeta(t) \in Meta /\ NameOf(NextMeta(t)) \in Name
      /\ NextMeta(t).gen = push[t].seen.gen + 1
      /\ push[t].pc \in BeforePointer
  BY NextMetaType DEF BeforePointer, WriteRecord
<1>1. TypeOK'
  BY <1>0 DEF TypeOK, PushRecord, GetRecord, Writing, WriteRecord
<1>2. BodyInv'
  BY DEF TypeOK, PushRecord, GetRecord, BodyInv, Writing, WriteRecord
<1>3. LockInv'
  BY DEF TypeOK, PushRecord, GetRecord, LockInv, Writing, WriteRecord
<1>4. StepInv'
  <2> SUFFICES ASSUME NEW u \in Thread PROVE StepInv!(u)'
    BY DEF StepInv
  <2>1. CASE u # t
    BY <2>1, OnlyWriter DEF TypeOK, PushRecord, GetRecord, Writing, BeforePointer, AfterPointer, WriteRecord
  <2>2. CASE u = t
    <3>1. NextMeta(t)' = NextMeta(t)
      BY DEF TypeOK, PushRecord, GetRecord, NextMeta, WriteRecord
    <3> QED
      BY <1>0, <2>2, <3>1 DEF TypeOK, PushRecord, GetRecord, StepInv, MayAdvance, Writing, BeforePointer, AfterPointer, WriteRecord
  <2> QED BY <2>1, <2>2
<1>5. CommittedInv'
  BY <1>0 DEF TypeOK, PushRecord, GetRecord, StepInv, CommittedInv, WriteRecord
<1>6. HeadIsStored'
  BY <1>0 DEF TypeOK, PushRecord, GetRecord, HeadIsStored, StepInv, WriteRecord
<1>7. HistoryIsTrue'
  <2> SUFFICES ASSUME NEW m \in committed, NameOf(m) \in bundles PROVE m \in records'
    BY DEF HistoryIsTrue, WriteRecord
  <2>1. NameOf(m) # NameOf(NextMeta(t))
    BY <1>0 DEF TypeOK, PushRecord, GetRecord, CommittedInv, StepInv, BeforePointer, NameOf, Meta, NoMeta, WriteRecord
  <2> QED BY <2>1 DEF HistoryIsTrue, WriteRecord
<1>8. GetInv'
  BY DEF TypeOK, PushRecord, GetRecord, GetInv, CommittedInv, WriteRecord
<1> QED BY <1>1, <1>2, <1>3, <1>4, <1>5, <1>6, <1>7, <1>8


\* The pointer names what the two writes before it left on the disk.
LEMMA WritePointerInv ==
  ASSUME IInv, NEW t \in Thread, WritePointer(t)
  PROVE  IInv'
<1> USE DEF IInv, vars, disk, bounds
<1>0. /\ NextMeta(t) \in Meta /\ NameOf(NextMeta(t)) \in Name
      /\ NextMeta(t).gen = push[t].seen.gen + 1
      /\ push[t].pc \in BeforePointer
  BY NextMetaType DEF BeforePointer, WritePointer
<1>1. TypeOK'
  BY <1>0 DEF TypeOK, PushRecord, GetRecord, Writing, WritePointer
<1>2. BodyInv'
  BY DEF TypeOK, PushRecord, GetRecord, BodyInv, Writing, WritePointer
<1>3. LockInv'
  BY DEF TypeOK, PushRecord, GetRecord, LockInv, Writing, WritePointer
<1>4. StepInv'
  <2> SUFFICES ASSUME NEW u \in Thread PROVE StepInv!(u)'
    BY DEF StepInv
  <2>1. CASE u # t
    BY <2>1, OnlyWriter DEF TypeOK, PushRecord, GetRecord, Writing, BeforePointer, AfterPointer, WritePointer
  <2>2. CASE u = t
    <3>1. NextMeta(t)' = NextMeta(t)
      BY DEF TypeOK, PushRecord, GetRecord, NextMeta, WritePointer
    <3> QED
      BY <1>0, <2>2, <3>1 DEF TypeOK, PushRecord, GetRecord, StepInv, MayAdvance, Writing, BeforePointer, AfterPointer, WritePointer
  <2> QED BY <2>1, <2>2
<1>5. CommittedInv'
  <2>1. pointer.gen < NextMeta(t).gen /\ pointer.gen \in Nat
    BY <1>0 DEF TypeOK, PushRecord, GetRecord, StepInv, Meta, NoMeta, WritePointer
  <2> QED BY <1>0, <2>1 DEF TypeOK, PushRecord, GetRecord, CommittedInv, Meta, WritePointer
<1>6. HeadIsStored'
  BY <1>0 DEF TypeOK, PushRecord, GetRecord, HeadIsStored, StepInv, WritePointer
<1>7. HistoryIsTrue'
  BY <1>0 DEF TypeOK, PushRecord, GetRecord, HistoryIsTrue, StepInv, CommittedInv, WritePointer
<1>8. GetInv'
  BY DEF TypeOK, PushRecord, GetRecord, GetInv, CommittedInv, WritePointer
<1> QED BY <1>1, <1>2, <1>3, <1>4, <1>5, <1>6, <1>7, <1>8


\* What retention will drop never holds the name just pointed at.
LEMMA ListExcessInv ==
  ASSUME IInv, NEW t \in Thread, ListExcess(t)
  PROVE  IInv'
<1> USE DEF IInv, vars, disk, bounds
<1>1. TypeOK'
  <2> DEFINE E == Excess(NameOf(NextMeta(t)))
  <2>1. E \in SUBSET Name
    BY DEF TypeOK, Excess
  <2>2. push[t] \in PushRecord
    BY DEF TypeOK
  <2>3. [push[t] EXCEPT !.pc = "prune", !.drop = E] \in PushRecord
    <3> HIDE DEF E
    <3> QED BY <2>1, <2>2 DEF PushRecord, Writing
  <2>4. push' = [push EXCEPT ![t] = [push[t] EXCEPT !.pc = "prune", !.drop = E]]
    BY DEF ListExcess
  <2> QED BY <2>3, <2>4 DEF TypeOK, ListExcess
<1>2. BodyInv'
  BY DEF TypeOK, PushRecord, GetRecord, BodyInv, Writing, ListExcess
<1>3. LockInv'
  BY DEF TypeOK, PushRecord, GetRecord, LockInv, Writing, ListExcess
<1>4. StepInv'
  <2> SUFFICES ASSUME NEW u \in Thread PROVE StepInv!(u)'
    BY DEF StepInv
  <2>1. CASE u # t
    BY <2>1, OnlyWriter DEF TypeOK, PushRecord, GetRecord, Writing, BeforePointer, AfterPointer, ListExcess
  <2>2. CASE u = t
    <3>1. NextMeta(t)' = NextMeta(t)
      BY DEF TypeOK, PushRecord, GetRecord, NextMeta, ListExcess
    <3>2. NameOf(NextMeta(t)) \notin Excess(NameOf(NextMeta(t)))
      BY DEF Excess
    <3> QED
      BY <2>2, <3>1, <3>2 DEF TypeOK, PushRecord, GetRecord, StepInv, BeforePointer, AfterPointer, ListExcess
  <2> QED BY <2>1, <2>2
<1>5. CommittedInv'
  BY DEF TypeOK, PushRecord, GetRecord, StepInv, CommittedInv, ListExcess
<1>6. HeadIsStored'
  BY DEF TypeOK, PushRecord, GetRecord, HeadIsStored, StepInv, ListExcess
<1>7. HistoryIsTrue'
  BY DEF TypeOK, PushRecord, GetRecord, HistoryIsTrue, StepInv, CommittedInv, ListExcess
<1>8. GetInv'
  BY DEF TypeOK, PushRecord, GetRecord, GetInv, CommittedInv, ListExcess
<1> QED BY <1>1, <1>2, <1>3, <1>4, <1>5, <1>6, <1>7, <1>8


\* A dropped bundle is not the head's.
LEMMA DropBundleInv ==
  ASSUME IInv, NEW t \in Thread, DropBundle(t)
  PROVE  IInv'
<1> USE DEF IInv, vars, disk, bounds
<1>1. TypeOK'
  BY DEF TypeOK, PushRecord, GetRecord, Writing, DropBundle
<1>2. BodyInv'
  BY DEF TypeOK, PushRecord, GetRecord, BodyInv, Writing, DropBundle
<1>3. LockInv'
  BY DEF TypeOK, PushRecord, GetRecord, LockInv, Writing, DropBundle
<1>4. StepInv'
  <2> SUFFICES ASSUME NEW u \in Thread PROVE StepInv!(u)'
    BY DEF StepInv
  <2>1. CASE u # t
    BY <2>1, OnlyWriter DEF TypeOK, PushRecord, GetRecord, Writing, BeforePointer, AfterPointer, DropBundle
  <2>2. CASE u = t
    <3>1. NextMeta(t)' = NextMeta(t) /\ push'[t].pc = "unlink"
          /\ push'[t].drop = push[t].drop
      BY DEF TypeOK, PushRecord, GetRecord, NextMeta, DropBundle
    <3>2. PICK n \in push[t].drop : IsOldest(n, push[t].drop) /\ bundles' = bundles \ {n}
      BY DEF DropBundle
    <3>3. \A o \in push[t].drop : IsOldest(o, push[t].drop) => o = n
      <4> SUFFICES ASSUME NEW o \in push[t].drop, IsOldest(o, push[t].drop), o # n
                   PROVE  FALSE
        OBVIOUS
      <4>1. n \in Name /\ o \in Name
        BY DEF TypeOK, PushRecord
      <4>2. /\ n.gen \in Nat /\ n.hash \in Nat
            /\ o.gen \in Nat /\ o.hash \in Nat
        BY <4>1 DEF Name
      <4>3. Older(n, o) /\ Older(o, n)
        BY <3>2 DEF IsOldest
      <4> QED BY <4>2, <4>3 DEF Older
    <3> QED
      BY <2>2, <3>1, <3>2, <3>3 DEF StepInv, BeforePointer, AfterPointer, DropBundle
  <2> QED BY <2>1, <2>2
<1>5. CommittedInv'
  BY DEF TypeOK, PushRecord, GetRecord, StepInv, CommittedInv, DropBundle
<1>6. HeadIsStored'
  BY DEF TypeOK, PushRecord, GetRecord, HeadIsStored, StepInv, DropBundle
<1>7. HistoryIsTrue'
  BY DEF TypeOK, PushRecord, GetRecord, HistoryIsTrue, StepInv, CommittedInv, DropBundle
<1>8. GetInv'
  BY DEF TypeOK, PushRecord, GetRecord, GetInv, CommittedInv, DropBundle
<1> QED BY <1>1, <1>2, <1>3, <1>4, <1>5, <1>6, <1>7, <1>8


\* A record goes only after its bundle has.
LEMMA DropRecordInv ==
  ASSUME IInv, NEW t \in Thread, DropRecord(t)
  PROVE  IInv'
<1> USE DEF IInv, vars, disk, bounds
<1>1. TypeOK'
  BY DEF TypeOK, PushRecord, GetRecord, Writing, DropRecord
<1>2. BodyInv'
  BY DEF TypeOK, PushRecord, GetRecord, BodyInv, Writing, DropRecord
<1>3. LockInv'
  BY DEF TypeOK, PushRecord, GetRecord, LockInv, Writing, DropRecord
<1>4. StepInv'
  <2> SUFFICES ASSUME NEW u \in Thread PROVE StepInv!(u)'
    BY DEF StepInv
  <2>1. CASE u # t
    BY <2>1, OnlyWriter DEF TypeOK, PushRecord, GetRecord, Writing, BeforePointer, AfterPointer, DropRecord
  <2>2. CASE u = t
    <3>1. NextMeta(t)' = NextMeta(t)
      BY DEF TypeOK, PushRecord, GetRecord, NextMeta, DropRecord
    <3> QED
      BY <2>2, <3>1 DEF TypeOK, PushRecord, GetRecord, StepInv, MayAdvance, Writing, BeforePointer, AfterPointer, DropRecord
  <2> QED BY <2>1, <2>2
<1>5. CommittedInv'
  BY DEF TypeOK, PushRecord, GetRecord, StepInv, CommittedInv, DropRecord
<1>6. HeadIsStored'
  BY DEF TypeOK, PushRecord, GetRecord, HeadIsStored, StepInv, DropRecord
<1>7. HistoryIsTrue'
  BY DEF TypeOK, PushRecord, GetRecord, HistoryIsTrue, StepInv, CommittedInv, DropRecord
<1>8. GetInv'
  BY DEF TypeOK, PushRecord, GetRecord, GetInv, CommittedInv, DropRecord
<1> QED BY <1>1, <1>2, <1>3, <1>4, <1>5, <1>6, <1>7, <1>8


\* Leaving gives the lock back.
LEMMA FinishInv ==
  ASSUME IInv, NEW t \in Thread, Finish(t)
  PROVE  IInv'
<1> USE DEF IInv, vars, disk, bounds
<1>1. TypeOK'
  <2>1. push[t] \in PushRecord
    BY DEF TypeOK
  <2>2. [push[t] EXCEPT !.pc = "answer", !.reply = "advanced"] \in PushRecord
    BY <2>1 DEF PushRecord
  <2>3. push' = [push EXCEPT ![t] = [push[t] EXCEPT !.pc = "answer", !.reply = "advanced"]]
    BY DEF Finish, Leave
  <2> QED BY <2>2, <2>3 DEF TypeOK, Finish, Leave
<1>2. BodyInv'
  BY DEF TypeOK, PushRecord, GetRecord, BodyInv, Writing, Finish, Leave
<1>3. LockInv'
  BY DEF TypeOK, PushRecord, GetRecord, LockInv, Writing, Finish, Leave
<1>4. StepInv'
  <2> SUFFICES ASSUME NEW u \in Thread PROVE StepInv!(u)'
    BY DEF StepInv
  <2>1. CASE u # t
    BY <2>1, OnlyWriter DEF TypeOK, PushRecord, GetRecord, Writing, BeforePointer, AfterPointer, Finish, Leave
  <2>2. CASE u = t
    <3>1. NextMeta(t)' = NextMeta(t)
      BY DEF TypeOK, PushRecord, GetRecord, NextMeta, Finish, Leave
    <3> QED
      BY <2>2, <3>1 DEF TypeOK, PushRecord, GetRecord, StepInv, MayAdvance, Writing, BeforePointer, AfterPointer, Finish, Leave
  <2> QED BY <2>1, <2>2
<1>5. CommittedInv'
  BY DEF TypeOK, PushRecord, GetRecord, StepInv, CommittedInv, Finish, Leave
<1>6. HeadIsStored'
  BY DEF TypeOK, PushRecord, GetRecord, HeadIsStored, StepInv, Finish, Leave
<1>7. HistoryIsTrue'
  BY DEF TypeOK, PushRecord, GetRecord, HistoryIsTrue, StepInv, CommittedInv, Finish, Leave
<1>8. GetInv'
  BY DEF TypeOK, PushRecord, GetRecord, GetInv, CommittedInv, Finish, Leave
<1> QED BY <1>1, <1>2, <1>3, <1>4, <1>5, <1>6, <1>7, <1>8


\* So does failing.
LEMMA FailInv ==
  ASSUME IInv, NEW t \in Thread, Fail(t)
  PROVE  IInv'
<1> USE DEF IInv, vars, disk, bounds
<1>1. TypeOK'
  <2>1. push[t] \in PushRecord
    BY DEF TypeOK
  <2>2. [push[t] EXCEPT !.pc = "answer", !.reply = "error"] \in PushRecord
    BY <2>1 DEF PushRecord
  <2>3. push' = [push EXCEPT ![t] = [push[t] EXCEPT !.pc = "answer", !.reply = "error"]]
    BY DEF Fail, Leave
  <2> QED BY <2>2, <2>3 DEF TypeOK, Fail, Leave
<1>2. BodyInv'
  BY DEF TypeOK, PushRecord, GetRecord, BodyInv, Writing, Fail, Leave
<1>3. LockInv'
  BY DEF TypeOK, PushRecord, GetRecord, LockInv, Writing, Fail, Leave
<1>4. StepInv'
  <2> SUFFICES ASSUME NEW u \in Thread PROVE StepInv!(u)'
    BY DEF StepInv
  <2>1. CASE u # t
    BY <2>1, OnlyWriter DEF TypeOK, PushRecord, GetRecord, Writing, BeforePointer, AfterPointer, Fail, Leave
  <2>2. CASE u = t
    <3>1. NextMeta(t)' = NextMeta(t)
      BY DEF TypeOK, PushRecord, GetRecord, NextMeta, Fail, Leave
    <3> QED
      BY <2>2, <3>1 DEF TypeOK, PushRecord, GetRecord, StepInv, MayAdvance, Writing, BeforePointer, AfterPointer, Fail, Leave
  <2> QED BY <2>1, <2>2
<1>5. CommittedInv'
  BY DEF TypeOK, PushRecord, GetRecord, StepInv, CommittedInv, Fail, Leave
<1>6. HeadIsStored'
  BY DEF TypeOK, PushRecord, GetRecord, HeadIsStored, StepInv, Fail, Leave
<1>7. HistoryIsTrue'
  BY DEF TypeOK, PushRecord, GetRecord, HistoryIsTrue, StepInv, CommittedInv, Fail, Leave
<1>8. GetInv'
  BY DEF TypeOK, PushRecord, GetRecord, GetInv, CommittedInv, Fail, Leave
<1> QED BY <1>1, <1>2, <1>3, <1>4, <1>5, <1>6, <1>7, <1>8


\* An answered push is forgotten.
LEMMA AnswerInv ==
  ASSUME IInv, NEW t \in Thread, Answer(t)
  PROVE  IInv'
<1> USE DEF IInv, vars, disk, bounds
<1>1. TypeOK'
  BY DEF TypeOK, PushRecord, GetRecord, Writing, Answer, IdlePush, Writing, NoMeta
<1>2. BodyInv'
  BY DEF TypeOK, PushRecord, GetRecord, BodyInv, Writing, Answer, IdlePush, Writing, NoMeta
<1>3. LockInv'
  BY DEF TypeOK, PushRecord, GetRecord, LockInv, Writing, Answer, IdlePush, Writing, NoMeta
<1>4. StepInv'
  BY DEF TypeOK, PushRecord, GetRecord, StepInv, MayAdvance, BeforePointer, AfterPointer, NextMeta, Answer, IdlePush, Writing, NoMeta
<1>5. CommittedInv'
  BY DEF TypeOK, PushRecord, GetRecord, StepInv, CommittedInv, Answer, IdlePush, Writing, NoMeta
<1>6. HeadIsStored'
  BY DEF TypeOK, PushRecord, GetRecord, HeadIsStored, StepInv, Answer, IdlePush, Writing, NoMeta
<1>7. HistoryIsTrue'
  BY DEF TypeOK, PushRecord, GetRecord, HistoryIsTrue, StepInv, CommittedInv, Answer, IdlePush, Writing, NoMeta
<1>8. GetInv'
  BY DEF TypeOK, PushRecord, GetRecord, GetInv, CommittedInv, Answer, IdlePush, Writing, NoMeta
<1> QED BY <1>1, <1>2, <1>3, <1>4, <1>5, <1>6, <1>7, <1>8


\* A GET changes nothing but itself.
LEMMA ReadLabelInv ==
  ASSUME IInv, NEW r \in Reader, ReadLabel(r)
  PROVE  IInv'
<1> USE DEF IInv, vars, disk, bounds
<1>1. TypeOK'
  BY DEF TypeOK, PushRecord, GetRecord, Writing, ReadLabel, IdleGet
<1>2. BodyInv'
  BY DEF TypeOK, PushRecord, GetRecord, BodyInv, Writing, ReadLabel, IdleGet
<1>3. LockInv'
  BY DEF TypeOK, PushRecord, GetRecord, LockInv, Writing, ReadLabel, IdleGet
<1>4. StepInv'
  BY DEF TypeOK, PushRecord, GetRecord, StepInv, MayAdvance, BeforePointer, AfterPointer, NextMeta, ReadLabel, IdleGet
<1>5. CommittedInv'
  BY DEF TypeOK, PushRecord, GetRecord, StepInv, CommittedInv, ReadLabel, IdleGet
<1>6. HeadIsStored'
  BY DEF TypeOK, PushRecord, GetRecord, HeadIsStored, StepInv, ReadLabel, IdleGet
<1>7. HistoryIsTrue'
  BY DEF TypeOK, PushRecord, GetRecord, HistoryIsTrue, StepInv, CommittedInv, ReadLabel, IdleGet
<1>8. GetInv'
  BY DEF TypeOK, PushRecord, GetRecord, GetInv, CommittedInv, ReadLabel, IdleGet
<1> QED BY <1>1, <1>2, <1>3, <1>4, <1>5, <1>6, <1>7, <1>8


\* A GET changes nothing but itself.
LEMMA ReadPathInv ==
  ASSUME IInv, NEW r \in Reader, ReadPath(r)
  PROVE  IInv'
<1> USE DEF IInv, vars, disk, bounds
<1>1. TypeOK'
  <2>1. get' \in [Reader -> GetRecord]
    BY DEF TypeOK, PushRecord, GetRecord, GetRecord, ReadPath
  <2> QED BY <2>1 DEF TypeOK, PushRecord, GetRecord, ReadPath
<1>2. BodyInv'
  BY DEF TypeOK, PushRecord, GetRecord, BodyInv, Writing, ReadPath, IdleGet
<1>3. LockInv'
  BY DEF TypeOK, PushRecord, GetRecord, LockInv, Writing, ReadPath, IdleGet
<1>4. StepInv'
  BY DEF TypeOK, PushRecord, GetRecord, StepInv, MayAdvance, BeforePointer, AfterPointer, NextMeta, ReadPath, IdleGet
<1>5. CommittedInv'
  BY DEF TypeOK, PushRecord, GetRecord, StepInv, CommittedInv, ReadPath, IdleGet
<1>6. HeadIsStored'
  BY DEF TypeOK, PushRecord, GetRecord, HeadIsStored, StepInv, ReadPath, IdleGet
<1>7. HistoryIsTrue'
  BY DEF TypeOK, PushRecord, GetRecord, HistoryIsTrue, StepInv, CommittedInv, ReadPath, IdleGet
<1>8. GetInv'
  <2>1. get[r].label.gen <= pointer.gen /\ pointer \in committed /\ pointer.gen \in Nat
    BY DEF TypeOK, PushRecord, GetRecord, GetInv, CommittedInv, Meta, NoMeta, ReadPath
  <2> QED BY <2>1 DEF TypeOK, PushRecord, GetRecord, GetInv, CommittedInv, ReadPath
<1> QED BY <1>1, <1>2, <1>3, <1>4, <1>5, <1>6, <1>7, <1>8


\* A GET changes nothing but itself.
LEMMA ReadBytesInv ==
  ASSUME IInv, NEW r \in Reader, ReadBytes(r)
  PROVE  IInv'
<1> USE DEF IInv, vars, disk, bounds
<1>1. TypeOK'
  BY DEF TypeOK, PushRecord, GetRecord, Writing, ReadBytes, IdleGet
<1>2. BodyInv'
  BY DEF TypeOK, PushRecord, GetRecord, BodyInv, Writing, ReadBytes, IdleGet
<1>3. LockInv'
  BY DEF TypeOK, PushRecord, GetRecord, LockInv, Writing, ReadBytes, IdleGet
<1>4. StepInv'
  BY DEF TypeOK, PushRecord, GetRecord, StepInv, MayAdvance, BeforePointer, AfterPointer, NextMeta, ReadBytes, IdleGet
<1>5. CommittedInv'
  BY DEF TypeOK, PushRecord, GetRecord, StepInv, CommittedInv, ReadBytes, IdleGet
<1>6. HeadIsStored'
  BY DEF TypeOK, PushRecord, GetRecord, HeadIsStored, StepInv, ReadBytes, IdleGet
<1>7. HistoryIsTrue'
  BY DEF TypeOK, PushRecord, GetRecord, HistoryIsTrue, StepInv, CommittedInv, ReadBytes, IdleGet
<1>8. GetInv'
  BY DEF TypeOK, PushRecord, GetRecord, GetInv, CommittedInv, ReadBytes, IdleGet
<1> QED BY <1>1, <1>2, <1>3, <1>4, <1>5, <1>6, <1>7, <1>8


\* A GET changes nothing but itself.
LEMMA EndGetInv ==
  ASSUME IInv, NEW r \in Reader, EndGet(r)
  PROVE  IInv'
<1> USE DEF IInv, vars, disk, bounds
<1>1. TypeOK'
  BY DEF TypeOK, PushRecord, GetRecord, Writing, EndGet, IdleGet
<1>2. BodyInv'
  BY DEF TypeOK, PushRecord, GetRecord, BodyInv, Writing, EndGet, IdleGet
<1>3. LockInv'
  BY DEF TypeOK, PushRecord, GetRecord, LockInv, Writing, EndGet, IdleGet
<1>4. StepInv'
  BY DEF TypeOK, PushRecord, GetRecord, StepInv, MayAdvance, BeforePointer, AfterPointer, NextMeta, EndGet, IdleGet
<1>5. CommittedInv'
  BY DEF TypeOK, PushRecord, GetRecord, StepInv, CommittedInv, EndGet, IdleGet
<1>6. HeadIsStored'
  BY DEF TypeOK, PushRecord, GetRecord, HeadIsStored, StepInv, EndGet, IdleGet
<1>7. HistoryIsTrue'
  BY DEF TypeOK, PushRecord, GetRecord, HistoryIsTrue, StepInv, CommittedInv, EndGet, IdleGet
<1>8. GetInv'
  BY DEF TypeOK, PushRecord, GetRecord, GetInv, CommittedInv, EndGet, IdleGet
<1> QED BY <1>1, <1>2, <1>3, <1>4, <1>5, <1>6, <1>7, <1>8

\* A restart forgets the threads and keeps the files.
LEMMA CrashInv ==
  ASSUME IInv, Crash
  PROVE  IInv'
<1> USE DEF IInv, Crash, disk, IdlePush, IdleGet
<1>1. TypeOK'
  BY DEF TypeOK, PushRecord, GetRecord, NoMeta
<1>2. BodyInv' /\ LockInv' /\ StepInv' /\ GetInv'
  BY DEF TypeOK, BodyInv, LockInv, StepInv, MayAdvance, GetInv, Writing, BeforePointer,
     AfterPointer
<1>3. CommittedInv' /\ HeadIsStored' /\ HistoryIsTrue'
  BY DEF CommittedInv, HeadIsStored, HistoryIsTrue
<1> QED BY <1>1, <1>2, <1>3

LEMMA StutterInv ==
  ASSUME IInv, UNCHANGED vars
  PROVE  IInv'
  BY DEF IInv, vars, TypeOK, BodyInv, LockInv, StepInv, MayAdvance, NextMeta, CommittedInv,
     HeadIsStored, HistoryIsTrue, GetInv

LEMMA NextInv == IInv /\ [Next]_vars => IInv'
<1> SUFFICES ASSUME IInv, [Next]_vars PROVE IInv'
  OBVIOUS
<1>1. ASSUME NEW t \in Thread, Ask(t) \/ Push(t) \/ Fail(t) PROVE IInv'
  BY <1>1, AskInv, DecideInv, WriteBundleInv, WriteRecordInv, WritePointerInv,
     ListExcessInv, DropBundleInv, DropRecordInv, FinishInv, AnswerInv, FailInv
     DEF Push
<1>2. ASSUME NEW r \in Reader, ReadLabel(r) \/ Get(r) PROVE IInv'
  BY <1>2, ReadLabelInv, ReadPathInv, ReadBytesInv, EndGetInv DEF Get
<1> QED BY <1>1, <1>2, CrashInv, StutterInv DEF Next

THEOREM Invariance == Spec => []IInv
<1>1. Init => IInv
  BY InitInv
<1>2. IInv /\ [Next]_vars => IInv'
  BY NextInv
<1> QED BY <1>1, <1>2, PTL DEF Spec

\* The types of the store's files and threads.
THEOREM TypeCorrect == Spec => []TypeOK
<1>1. IInv => TypeOK
  BY DEF IInv
<1> QED BY <1>1, Invariance, PTL

\* current.json never names a bundle that is not there.
THEOREM HeadAlwaysStored == Spec => []HeadIsStored
<1>1. IInv => HeadIsStored
  BY DEF IInv
<1> QED BY <1>1, Invariance, PTL

\* The record of a kept generation is the one it was committed with.
THEOREM HistoryAlwaysTrue == Spec => []HistoryIsTrue
<1>1. IInv => HistoryIsTrue
  BY DEF IInv
<1> QED BY <1>1, Invariance, PTL

\* A GET sends bytes that were the head, under a label that is no newer.
THEOREM ServedAlwaysWasHead == Spec => []ServedWasHead
<1>1. IInv => ServedWasHead
  BY DEF IInv, GetInv, ServedWasHead
<1> QED BY <1>1, Invariance, PTL

-----------------------------------------------------------------------------
(* What retention keeps, and what it lets go *)

\* The heads that ever were: one for each generation up to the pointer's.
Line ==
  /\ \A m, n \in committed : m.gen = n.gen => m = n
  /\ \A g \in 1..pointer.gen : \E m \in committed : m.gen = g

\* While nothing fails there are no orphans: a bundle is one that was current,
\* or the one the writing thread is about to make so.
Named ==
  faults = 0 =>
    \A n \in bundles :
      \/ \E m \in committed : n = NameOf(m)
      \/ \E t \in Thread : /\ push[t].pc \in {"record", "pointer"}
                           /\ n = NameOf(NextMeta(t))

\* Outside retention itself, nothing older than the last Keep is on the disk.
Trimmed ==
  (faults = 0 /\ Readable(pointer) /\ \A t \in Thread : push[t].pc \notin AfterPointer)
    => \A n \in bundles : n.gen > pointer.gen - Keep

\* Within it, what is older is what the thread has still to drop, and it will
\* drop nothing else.
Dropping ==
  faults = 0 =>
    \A t \in Thread : push[t].pc \in {"prune", "unlink"} =>
      /\ \A n \in push[t].drop : n.gen <= pointer.gen - Keep
      /\ Readable(pointer) =>
           \A n \in bundles : n.gen > pointer.gen - Keep \/ n \in push[t].drop

RInv == /\ Line /\ Named /\ KeptAreThere /\ GoneOnlyWhenOverrun
        /\ Trimmed /\ Dropping

\* Numbers told apart by a function into an interval are no more than it has.
LEMMA NoMoreThanInterval ==
  ASSUME NEW S, NEW a \in Int, NEW b \in Int,
         \A n \in S : n.gen \in a..b,
         \A n, o \in S : n.gen = o.gen => n = o
  PROVE  IsFiniteSet(S) /\ Cardinality(S) <= Cardinality(a..b)
<1> DEFINE f == [n \in S |-> n.gen]
<1>1. f \in [S -> a..b]
  OBVIOUS
<1>2. \A x, y \in DOMAIN f : f[x] = f[y] => x = y
  OBVIOUS
<1>3. f \in Injection(S, a..b)
  BY <1>1, <1>2 DEF Injection, IsInjective
<1>4. IsFiniteSet(a..b)
  BY FS_Interval
<1> HIDE DEF f
<1> QED BY <1>3, <1>4, FS_Injection

\* And no fewer, when every one of the interval is there.
LEMMA NoFewerThanInterval ==
  ASSUME NEW S, IsFiniteSet(S), NEW a \in Int, NEW b \in Int,
         \A g \in a..b : \E n \in S : n.gen = g
  PROVE  Cardinality(a..b) <= Cardinality(S)
<1> DEFINE f == [g \in a..b |-> CHOOSE n \in S : n.gen = g]
<1>1. \A g \in a..b : f[g] \in S /\ f[g].gen = g
  OBVIOUS
<1>2. f \in [a..b -> S]
  BY <1>1
<1>3. \A x, y \in DOMAIN f : f[x] = f[y] => x = y
  BY <1>1
<1>4. f \in Injection(a..b, S)
  BY <1>2, <1>3 DEF Injection, IsInjective
<1> HIDE DEF f
<1> QED BY <1>4, FS_Injection

\* A bundle's generation is at or below the head's when nobody is writing one,
\* and it is the only bundle of its generation.
LEMMA BundlesAreHeads ==
  ASSUME IInv, Line, Named, faults = 0,
         \A t \in Thread : push[t].pc \notin {"record", "pointer"}
  PROVE  /\ \A n \in bundles : \E m \in committed : n = NameOf(m)
         /\ \A n \in bundles : n.gen \in 1..pointer.gen
         /\ \A n, o \in bundles : n.gen = o.gen => n = o
<1>1. \A n \in bundles : \E m \in committed : n = NameOf(m)
  BY DEF Named
<1>2. \A n \in bundles : n.gen \in 1..pointer.gen
  <2> TAKE n \in bundles
  <2>1. PICK m \in committed : n = NameOf(m)
    BY <1>1
  <2>2. m \in Meta /\ m.gen <= pointer.gen
    BY DEF IInv, TypeOK, CommittedInv
  <2>3. pointer.gen \in Nat
    BY DEF IInv, TypeOK, Meta, NoMeta
  <2> QED BY <2>1, <2>2, <2>3 DEF NameOf, Meta
<1>3. \A n, o \in bundles : n.gen = o.gen => n = o
  <2> TAKE n, o \in bundles
  <2>1. PICK m \in committed : n = NameOf(m)
    BY <1>1
  <2>2. PICK k \in committed : o = NameOf(k)
    BY <1>1
  <2> QED BY <2>1, <2>2 DEF NameOf, Line
<1> QED BY <1>1, <1>2, <1>3

\* What retention lists is never one of the last Keep.
LEMMA ExcessIsOld ==
  ASSUME IInv, Line, Named, faults = 0, NEW keepName,
         \A t \in Thread : push[t].pc \notin {"record", "pointer"}
  PROVE  \A n \in Excess(keepName) : n.gen <= pointer.gen - Keep
<1> SUFFICES ASSUME NEW n \in Excess(keepName)
             PROVE  n.gen <= pointer.gen - Keep
  OBVIOUS
<1> DEFINE newer == {o \in {x \in bundles : Readable(x)} : Older(n, o)}
<1>1. n \in bundles /\ Cardinality(newer) >= Keep
  BY DEF Excess
<1>2. pointer.gen \in Nat /\ n.gen \in 1..pointer.gen
  BY <1>1, BundlesAreHeads DEF IInv, TypeOK, Meta, NoMeta
<1>3. \A o \in newer : o.gen \in (n.gen + 1)..pointer.gen
  <2> TAKE o \in newer
  <2>1. o \in bundles /\ Older(n, o)
    OBVIOUS
  <2>2. o.gen \in 1..pointer.gen /\ (n.gen = o.gen => n = o)
    BY <1>1, <2>1, BundlesAreHeads
  <2>3. n.hash \in Nat
    BY <1>1 DEF IInv, TypeOK, Name
  <2> QED BY <1>2, <2>1, <2>2, <2>3 DEF Older
<1>4. \A o, p \in newer : o.gen = p.gen => o = p
  BY BundlesAreHeads
<1> HIDE DEF newer
<1>5. n.gen + 1 \in Int /\ pointer.gen \in Int
  BY <1>2
<1>6. /\ IsFiniteSet(newer)
      /\ Cardinality(newer) <= Cardinality((n.gen + 1)..pointer.gen)
  BY <1>3, <1>4, <1>5, NoMoreThanInterval
<1>7. Cardinality((n.gen + 1)..pointer.gen)
        = IF n.gen + 1 > pointer.gen THEN 0 ELSE pointer.gen - (n.gen + 1) + 1
  BY <1>5, FS_Interval
<1>8. Cardinality(newer) \in Nat
  BY <1>6, FS_CardinalityType
<1> QED BY <1>1, <1>2, <1>6, <1>7, <1>8

\* And what is older than that is listed, when the names still sort.
LEMMA OldIsExcess ==
  ASSUME IInv, Line, Named, KeptAreThere, faults = 0, Readable(pointer),
         \A t \in Thread : push[t].pc \notin {"record", "pointer"},
         NEW n \in bundles, n.gen <= pointer.gen - Keep
  PROVE  n \in Excess(NameOf(pointer))
<1> DEFINE newer == {o \in {x \in bundles : Readable(x)} : Older(n, o)}
<1> DEFINE low == pointer.gen - Keep + 1
<1>1. /\ pointer.gen \in Nat /\ pointer.gen \in Int /\ low \in Int
      /\ n.gen \in 1..pointer.gen
      /\ n.gen < low /\ low = pointer.gen - Keep + 1
  BY BundlesAreHeads DEF IInv, TypeOK, Meta, NoMeta
<1>2. \A o \in newer : o.gen \in 1..pointer.gen
  BY BundlesAreHeads
<1>3. \A o, p \in newer : o.gen = p.gen => o = p
  BY BundlesAreHeads
<1>4. \A g \in low..pointer.gen : \E o \in newer : o.gen = g
  <2> TAKE g \in low..pointer.gen
  <2>1. g \in 1..pointer.gen
    BY <1>1
  <2>2. PICK m \in committed : m.gen = g
    BY <2>1 DEF Line
  <2>3. NameOf(m) \in bundles
    BY <1>1, <2>2 DEF KeptAreThere
  <2>4. NameOf(m).gen = g
    BY <2>2 DEF NameOf
  <2>5. Readable(NameOf(m)) /\ Older(n, NameOf(m))
    BY <1>1, <2>1, <2>4 DEF Readable, Older
  <2> QED BY <2>3, <2>4, <2>5
<1>5. n # NameOf(pointer)
  BY <1>1 DEF NameOf
<1>6. Readable(n)
  BY <1>1 DEF Readable
<1> HIDE DEF newer, low
<1>7. IsFiniteSet(newer)
  <2>1. 1 \in Int /\ pointer.gen \in Int
    BY <1>1
  <2> QED BY <2>1, <1>2, <1>3, NoMoreThanInterval
<1>8. Cardinality(low..pointer.gen) <= Cardinality(newer)
  BY <1>1, <1>4, <1>7, NoFewerThanInterval
<1>9. Cardinality(low..pointer.gen) = Keep
  <2>1. Cardinality(low..pointer.gen)
          = IF low > pointer.gen THEN 0 ELSE pointer.gen - low + 1
    BY <1>1, FS_Interval
  <2> QED BY <1>1, <2>1
<1>10. Cardinality(newer) >= Keep
  <2>1. Cardinality(newer) \in Nat
    BY <1>7, FS_CardinalityType
  <2> QED BY <1>8, <1>9, <2>1
<1> QED BY <1>5, <1>6, <1>10 DEF Excess, newer, low

LEMMA InitRetains == Init => RInv
<1> SUFFICES ASSUME Init PROVE RInv
  OBVIOUS
<1>1. pointer.gen = 0 /\ committed = {} /\ bundles = {}
  BY DEF Init, NoMeta
<1>2. \A t \in Thread : push[t].pc = "idle"
  BY DEF Init, IdlePush
<1>3. \A r \in Reader : get[r].pc = "idle"
  BY DEF Init, IdleGet
<1> QED BY <1>1, <1>2, <1>3 DEF RInv, Line, Named, KeptAreThere, GoneOnlyWhenOverrun,
           Trimmed, Dropping

\* A failed write and a restart leave nothing to say.
LEMMA FaultRetains ==
  ASSUME IInv, RInv, Crash \/ \E t \in Thread : Fail(t)
  PROVE  RInv'
<1>1. faults' = faults + 1 /\ faults \in Nat
  BY DEF Crash, Fail, IInv, TypeOK
<1>2. faults' # 0
  BY <1>1
<1>3. UNCHANGED <<committed, pointer>>
  BY DEF Crash, Fail, disk
<1>4. Line'
  BY <1>3 DEF RInv, Line
<1> QED BY <1>2, <1>4 DEF RInv, Named, KeptAreThere, GoneOnlyWhenOverrun, Trimmed, Dropping

\* A step that touches no file and neither begins nor ends a write.
LEMMA QuietRetains ==
  ASSUME IInv, RInv, UNCHANGED <<bundles, pointer, committed, faults, get>>,
         \A t \in Thread :
           \/ push'[t] = push[t]
           \/ push[t].pc \notin Writing /\ push'[t].pc \in {"idle", "ask", "answer", "bundle"}
  PROVE  RInv'
<1>1. Line' /\ KeptAreThere' /\ GoneOnlyWhenOverrun'
  BY DEF RInv, Line, KeptAreThere, GoneOnlyWhenOverrun
<1>2. \A t \in Thread : push[t].pc \in {"record", "pointer"} \cup AfterPointer
        => push'[t] = push[t]
  BY DEF Writing, AfterPointer
<1>3. \A t \in Thread : push'[t].pc \in {"record", "pointer"} \cup AfterPointer
        => push'[t] = push[t]
  BY DEF Writing, AfterPointer
<1>4. Named'
  <2> SUFFICES ASSUME faults' = 0, NEW n \in bundles'
               PROVE \/ \E m \in committed' : n = NameOf(m)
                     \/ \E t \in Thread : /\ push'[t].pc \in {"record", "pointer"}
                                          /\ n = NameOf(NextMeta(t))'
    BY DEF Named
  <2>1. CASE \E m \in committed : n = NameOf(m)
    BY <2>1
  <2>2. ASSUME NEW t \in Thread, push[t].pc \in {"record", "pointer"},
               n = NameOf(NextMeta(t))
        PROVE push'[t].pc \in {"record", "pointer"} /\ n = NameOf(NextMeta(t))'
    <3>1. push'[t] = push[t]
      BY <1>2, <2>2
    <3>2. NextMeta(t)' = NextMeta(t)
      BY <3>1 DEF NextMeta
    <3> QED BY <2>2, <3>1, <3>2 DEF NameOf
  <2> QED BY <2>1, <2>2 DEF RInv, Named
<1>5. Trimmed'
  BY <1>2 DEF RInv, Trimmed, Readable
<1>6. Dropping'
  BY <1>3 DEF RInv, Dropping, Readable, AfterPointer
<1> QED BY <1>1, <1>4, <1>5, <1>6 DEF RInv

\* The readers look; only one of them finds a file gone, and then retention
\* had a reason.
LEMMA ReaderRetains ==
  ASSUME IInv, RInv, NEW r \in Reader, ReadLabel(r) \/ Get(r)
  PROVE  RInv'
<1> USE DEF IInv
<1>1. UNCHANGED <<bundles, pointer, committed, faults, push>>
  BY DEF ReadLabel, Get, ReadPath, ReadBytes, EndGet, disk, bounds
<1>2. Line' /\ KeptAreThere' /\ Named' /\ Trimmed' /\ Dropping'
  BY <1>1 DEF RInv, Line, KeptAreThere, Named, NameOf, NextMeta, Trimmed, Dropping, Readable
<1>3. GoneOnlyWhenOverrun'
  <2> SUFFICES ASSUME faults = 0, NEW q \in Reader, get'[q].pc = "gone"
               PROVE  pointer.gen >= get'[q].file.gen + Keep
    BY <1>1 DEF GoneOnlyWhenOverrun
  <2>1. CASE get'[q] = get[q]
    BY <2>1 DEF RInv, GoneOnlyWhenOverrun
  <2>2. CASE get'[q] # get[q]
    <3>1. /\ q = r /\ get[q].pc = "path" /\ get'[q].file = get[q].file
          /\ NameOf(get[q].file) \notin bundles
      <4>1. \A p \in Reader : p # r => get'[p] = get[p]
        BY DEF TypeOK, ReadLabel, Get, ReadPath, ReadBytes, EndGet
      <4>2. q = r
        BY <2>2, <4>1
      <4>3. CASE ReadLabel(r) \/ ReadPath(r) \/ EndGet(r)
        <5>1. get'[r].pc # "gone"
          <6>1. CASE ReadLabel(r)
            BY <6>1 DEF TypeOK, ReadLabel
          <6>2. CASE ReadPath(r)
            BY <6>2 DEF TypeOK, GetRecord, ReadPath
          <6>3. CASE EndGet(r)
            BY <6>3 DEF TypeOK, EndGet, IdleGet
          <6> QED BY <4>3, <6>1, <6>2, <6>3
        <5> QED BY <4>2, <5>1
      <4>4. CASE ReadBytes(r)
        BY <4>2, <4>4 DEF TypeOK, ReadBytes
      <4> QED BY <4>3, <4>4 DEF Get
    <3>2. get[q].file \in committed
      BY <3>1 DEF GetInv
    <3>3. ~(get[q].file.gen > pointer.gen - Keep)
      BY <3>1, <3>2 DEF RInv, KeptAreThere
    <3>4. get[q].file.gen \in Nat /\ pointer.gen \in Nat
      BY <3>2 DEF TypeOK, Meta, NoMeta
    <3> QED BY <3>1, <3>3, <3>4
  <2> QED BY <2>1, <2>2
<1> QED BY <1>2, <1>3 DEF RInv

\* A push's own bundle is under the next number.
LEMMA WriteBundleRetains ==
  ASSUME IInv, RInv, NEW t \in Thread, WriteBundle(t)
  PROVE  RInv'
<1> USE DEF IInv
<1>1. /\ UNCHANGED <<pointer, committed, faults, get>>
      /\ bundles' = bundles \cup {NameOf(NextMeta(t))}
      /\ push[t].pc = "bundle" /\ push'[t].pc = "record"
      /\ \A u \in Thread : u # t => push'[u] = push[u]
      /\ \A u \in Thread : NextMeta(u)' = NextMeta(u)
  BY DEF WriteBundle, TypeOK, NextMeta, bounds
<1>2. /\ NextMeta(t).gen = pointer.gen + 1 /\ pointer.gen \in Nat
  BY <1>1, NextMetaType DEF StepInv, BeforePointer, TypeOK, Meta, NoMeta
<1>3. \A u \in Thread : u # t => push[u].pc \notin Writing
  BY <1>1, OnlyWriter DEF Writing
<1>4. Line' /\ KeptAreThere' /\ GoneOnlyWhenOverrun'
  BY <1>1 DEF RInv, Line, KeptAreThere, GoneOnlyWhenOverrun
<1>5. Named'
  <2> SUFFICES ASSUME faults' = 0, NEW n \in bundles'
               PROVE \/ \E m \in committed' : n = NameOf(m)
                     \/ \E u \in Thread : /\ push'[u].pc \in {"record", "pointer"}
                                          /\ n = NameOf(NextMeta(u))'
    BY DEF Named
  <2>1. CASE n = NameOf(NextMeta(t))
    BY <1>1, <2>1 DEF NameOf
  <2>2. CASE n \in bundles
    <3>1. \A u \in Thread : push[u].pc \notin {"record", "pointer"}
      BY <1>1, <1>3 DEF Writing
    <3> QED BY <1>1, <2>2, <3>1 DEF RInv, Named
  <2> QED BY <1>1, <2>1, <2>2
<1>6. Trimmed'
  <2>1. \A u \in Thread : push[u].pc \notin AfterPointer
    BY <1>1, <1>3 DEF Writing, AfterPointer
  <2>2. NameOf(NextMeta(t)).gen > pointer.gen - Keep
    BY <1>2 DEF NameOf
  <2> QED BY <1>1, <2>1, <2>2 DEF RInv, Trimmed, Readable
<1>7. Dropping'
  <2>1. \A u \in Thread : push'[u].pc \notin {"prune", "unlink"}
    BY <1>1, <1>3 DEF Writing
  <2> QED BY <2>1 DEF Dropping
<1> QED BY <1>4, <1>5, <1>6, <1>7 DEF RInv

\* Writing the record, and listing: the files are as they were.
LEMMA WriteRecordRetains ==
  ASSUME IInv, RInv, NEW t \in Thread, WriteRecord(t)
  PROVE  RInv'
<1> USE DEF IInv
<1>1. /\ UNCHANGED <<pointer, committed, bundles, faults, get>>
      /\ push[t].pc = "record" /\ push'[t].pc = "pointer"
      /\ \A u \in Thread : u # t => push'[u] = push[u]
      /\ \A u \in Thread : NextMeta(u)' = NextMeta(u)
  BY DEF WriteRecord, TypeOK, NextMeta, bounds
<1>2. \A u \in Thread : u # t => push[u].pc \notin Writing
  BY <1>1, OnlyWriter DEF Writing
<1>3. Line' /\ KeptAreThere' /\ GoneOnlyWhenOverrun'
  BY <1>1 DEF RInv, Line, KeptAreThere, GoneOnlyWhenOverrun
<1>4. Named'
  <2> SUFFICES ASSUME faults' = 0, NEW n \in bundles'
               PROVE \/ \E m \in committed' : n = NameOf(m)
                     \/ \E u \in Thread : /\ push'[u].pc \in {"record", "pointer"}
                                          /\ n = NameOf(NextMeta(u))'
    BY DEF Named
  <2>1. CASE \E m \in committed : n = NameOf(m)
    BY <1>1, <2>1
  <2>2. ASSUME NEW u \in Thread, push[u].pc \in {"record", "pointer"},
               n = NameOf(NextMeta(u))
        PROVE push'[t].pc \in {"record", "pointer"} /\ n = NameOf(NextMeta(t))'
    <3>1. u = t
      BY <1>2, <2>2 DEF Writing
    <3> QED BY <1>1, <2>2, <3>1 DEF NameOf
  <2> QED BY <1>1, <2>1, <2>2 DEF RInv, Named
<1>5. Trimmed'
  <2>1. \A u \in Thread : push[u].pc \notin AfterPointer
    BY <1>1, <1>2 DEF Writing, AfterPointer
  <2> QED BY <1>1, <2>1 DEF RInv, Trimmed, Readable
<1>6. Dropping'
  <2>1. \A u \in Thread : push'[u].pc \notin {"prune", "unlink"}
    BY <1>1, <1>2 DEF Writing
  <2> QED BY <2>1 DEF Dropping
<1> QED BY <1>3, <1>4, <1>5, <1>6 DEF RInv

\* The head moves one generation on, onto a bundle that is there.
LEMMA WritePointerRetains ==
  ASSUME IInv, RInv, NEW t \in Thread, WritePointer(t)
  PROVE  RInv'
<1> USE DEF IInv
<1>1. /\ UNCHANGED <<bundles, faults, get>>
      /\ pointer' = NextMeta(t) /\ committed' = committed \cup {NextMeta(t)}
      /\ push[t].pc = "pointer" /\ push'[t].pc = "list"
      /\ \A u \in Thread : u # t => push'[u] = push[u]
  BY DEF WritePointer, TypeOK, bounds
<1>2. /\ pointer'.gen = pointer.gen + 1 /\ pointer.gen \in Nat
      /\ NextMeta(t).gen = pointer.gen + 1
  BY <1>1, NextMetaType DEF StepInv, BeforePointer, TypeOK, Meta, NoMeta
<1>3. \A m \in committed : m.gen \in Nat \ {0} /\ m.gen <= pointer.gen
  BY DEF TypeOK, Meta, CommittedInv
<1>4. \A u \in Thread : u # t => push[u].pc \notin Writing
  BY <1>1, OnlyWriter DEF Writing
<1>5. NameOf(NextMeta(t)) \in bundles
  BY <1>1 DEF StepInv
<1>6. Line'
  <2>1. \A m, n \in committed' : m.gen = n.gen => m = n
    <3> TAKE m, n \in committed'
    <3>1. CASE m \in committed /\ n \in committed
      BY <3>1 DEF RInv, Line
    <3>2. CASE m = NextMeta(t) \/ n = NextMeta(t)
      BY <1>1, <1>2, <1>3, <3>2
    <3> QED BY <1>1, <3>1, <3>2
  <2>2. \A g \in 1..pointer'.gen : \E m \in committed' : m.gen = g
    <3> TAKE g \in 1..pointer'.gen
    <3>1. CASE g = pointer.gen + 1
      BY <1>1, <1>2, <3>1
    <3>2. CASE g # pointer.gen + 1
      <4>1. g \in 1..pointer.gen
        BY <1>2, <3>2
      <4> QED BY <1>1, <4>1 DEF RInv, Line
    <3> QED BY <3>1, <3>2
  <2> QED BY <2>1, <2>2 DEF Line
<1>7. Named'
  <2> SUFFICES ASSUME faults' = 0, NEW n \in bundles'
               PROVE \E m \in committed' : n = NameOf(m)
    BY DEF Named, NameOf
  <2>1. CASE \E m \in committed : n = NameOf(m)
    BY <1>1, <2>1
  <2>2. ASSUME NEW u \in Thread, push[u].pc \in {"record", "pointer"},
               n = NameOf(NextMeta(u))
        PROVE  n = NameOf(NextMeta(t))
    <3>1. u = t
      BY <1>4, <2>2 DEF Writing
    <3> QED BY <2>2, <3>1
  <2> QED BY <1>1, <2>1, <2>2 DEF RInv, Named
<1>8. KeptAreThere'
  <2> SUFFICES ASSUME faults = 0, NEW m \in committed', m.gen > pointer'.gen - Keep
               PROVE  NameOf(m) \in bundles
    BY <1>1 DEF KeptAreThere, NameOf
  <2>1. CASE m = NextMeta(t)
    BY <1>5, <2>1
  <2>2. CASE m \in committed
    <3>1. m.gen > pointer.gen - Keep
      BY <1>2, <1>3, <2>2
    <3> QED BY <2>2, <3>1 DEF RInv, KeptAreThere
  <2> QED BY <1>1, <2>1, <2>2
<1>9. GoneOnlyWhenOverrun'
  <2> SUFFICES ASSUME faults = 0, NEW r \in Reader, get[r].pc = "gone"
               PROVE  pointer'.gen >= get[r].file.gen + Keep
    BY <1>1 DEF GoneOnlyWhenOverrun
  <2>1. pointer.gen >= get[r].file.gen + Keep
    BY DEF RInv, GoneOnlyWhenOverrun
  <2>2. get[r].file.gen \in Nat
    BY <1>3 DEF GetInv
  <2> QED BY <1>2, <2>1, <2>2
<1>10. Trimmed'
  <2>1. push'[t].pc \in AfterPointer
    BY <1>1 DEF AfterPointer
  <2> QED BY <2>1 DEF Trimmed
<1>11. Dropping'
  <2>1. \A u \in Thread : push'[u].pc \notin {"prune", "unlink"}
    BY <1>1, <1>4 DEF Writing
  <2> QED BY <2>1 DEF Dropping
<1> QED BY <1>6, <1>7, <1>8, <1>9, <1>10, <1>11 DEF RInv

\* In retention nobody has a bundle in the making.
LEMMA RetainingAlone ==
  ASSUME IInv, NEW t \in Thread, push[t].pc \in AfterPointer
  PROVE  /\ \A u \in Thread : u # t => push[u].pc \notin Writing
         /\ \A u \in Thread : push[u].pc \notin {"record", "pointer"}
         /\ pointer = NextMeta(t)
<1>1. push[t].pc \in Writing
  BY DEF AfterPointer, Writing
<1>2. \A u \in Thread : u # t => push[u].pc \notin Writing
  BY <1>1, OnlyWriter DEF IInv
<1> QED BY <1>2 DEF IInv, StepInv, AfterPointer, Writing

\* While it runs no head moves and no thread but its own writes, so what is to
\* be shown of a step of it is what the files lose and what is left to drop.
LEMMA RetentionStep ==
  ASSUME IInv, RInv, NEW t \in Thread, push[t].pc \in AfterPointer,
         UNCHANGED <<pointer, committed, faults, get>>,
         bundles' \subseteq bundles,
         \A u \in Thread : u # t => push'[u] = push[u],
         push'[t].pc \in {"prune", "unlink", "answer"},
         faults = 0 => \A n \in bundles \ bundles' : n.gen <= pointer.gen - Keep,
         faults = 0 /\ push'[t].pc \in {"prune", "unlink"} =>
           /\ \A n \in push'[t].drop : n.gen <= pointer.gen - Keep
           /\ Readable(pointer) =>
                \A n \in bundles' : n.gen > pointer.gen - Keep \/ n \in push'[t].drop,
         faults = 0 /\ push'[t].pc = "answer" /\ Readable(pointer) =>
           \A n \in bundles' : n.gen > pointer.gen - Keep
  PROVE  RInv'
<1>1. /\ \A u \in Thread : u # t => push[u].pc \notin Writing
      /\ \A u \in Thread : push[u].pc \notin {"record", "pointer"}
  BY RetainingAlone
<1>2. Line' /\ GoneOnlyWhenOverrun'
  BY DEF RInv, Line, GoneOnlyWhenOverrun
<1>3. Named'
  BY <1>1 DEF RInv, Named, NameOf
<1>4. KeptAreThere'
  <2> SUFFICES ASSUME faults = 0, NEW m \in committed, m.gen > pointer.gen - Keep
               PROVE  NameOf(m) \in bundles'
    BY DEF KeptAreThere, NameOf
  <2>1. NameOf(m) \in bundles
    BY DEF RInv, KeptAreThere
  <2>2. ~(NameOf(m).gen <= pointer.gen - Keep)
    <3>1. m.gen \in Nat /\ pointer.gen \in Nat
      BY DEF IInv, TypeOK, Meta, NoMeta
    <3> QED BY <3>1 DEF NameOf
  <2> QED BY <2>1, <2>2
<1>5. Trimmed'
  <2>1. push'[t].pc = "answer" \/ push'[t].pc \in AfterPointer
    BY DEF AfterPointer
  <2> QED BY <2>1 DEF Trimmed, Readable
<1>6. Dropping'
  <2>1. \A u \in Thread : u # t => push'[u].pc \notin {"prune", "unlink"}
    BY <1>1 DEF Writing
  <2> QED BY <2>1 DEF Dropping, Readable
<1> QED BY <1>2, <1>3, <1>4, <1>5, <1>6 DEF RInv

LEMMA ListExcessRetains ==
  ASSUME IInv, RInv, NEW t \in Thread, ListExcess(t)
  PROVE  RInv'
<1> DEFINE E == Excess(NameOf(NextMeta(t)))
<1>1. /\ UNCHANGED <<bundles, pointer, committed, faults, get>>
      /\ push[t].pc = "list" /\ push'[t].pc = "prune" /\ push'[t].drop = E
      /\ \A u \in Thread : u # t => push'[u] = push[u]
  BY DEF ListExcess, IInv, TypeOK, bounds, disk
<1>2. push[t].pc \in AfterPointer
  BY <1>1 DEF AfterPointer
<1>3. /\ \A u \in Thread : push[u].pc \notin {"record", "pointer"}
      /\ pointer = NextMeta(t)
  BY <1>2, RetainingAlone
<1>4. faults = 0 => \A n \in E : n.gen <= pointer.gen - Keep
  BY <1>3, ExcessIsOld DEF RInv
<1>5. faults = 0 /\ Readable(pointer) =>
        \A n \in bundles : n.gen > pointer.gen - Keep \/ n \in E
  <2> SUFFICES ASSUME faults = 0, Readable(pointer), NEW n \in bundles,
                      ~(n.gen > pointer.gen - Keep)
               PROVE  n \in E
    OBVIOUS
  <2>1. n.gen \in Nat /\ pointer.gen \in Nat
    BY DEF IInv, TypeOK, Name, Meta, NoMeta
  <2>2. n.gen <= pointer.gen - Keep
    BY <2>1
  <2> QED BY <1>3, <2>2, OldIsExcess DEF RInv
<1> HIDE DEF E
<1> QED BY <1>1, <1>2, <1>4, <1>5, RetentionStep

LEMMA DropBundleRetains ==
  ASSUME IInv, RInv, NEW t \in Thread, DropBundle(t)
  PROVE  RInv'
<1>1. PICK n \in push[t].drop : bundles' = bundles \ {n}
  BY DEF DropBundle
<1>2. /\ UNCHANGED <<pointer, committed, faults, get>>
      /\ push[t].pc = "prune" /\ push'[t].pc = "unlink"
      /\ push'[t].drop = push[t].drop
      /\ \A u \in Thread : u # t => push'[u] = push[u]
  BY DEF DropBundle, IInv, TypeOK, bounds
<1>3. push[t].pc \in AfterPointer
  BY <1>2 DEF AfterPointer
<1>4. faults = 0 =>
        /\ \A o \in push[t].drop : o.gen <= pointer.gen - Keep
        /\ Readable(pointer) =>
             \A o \in bundles : o.gen > pointer.gen - Keep \/ o \in push[t].drop
  BY <1>2 DEF RInv, Dropping
<1> QED BY <1>1, <1>2, <1>3, <1>4, RetentionStep

LEMMA DropRecordRetains ==
  ASSUME IInv, RInv, NEW t \in Thread, DropRecord(t)
  PROVE  RInv'
<1>1. PICK n \in push[t].drop :
        IsOldest(n, push[t].drop) /\ push'[t].drop = push[t].drop \ {n}
  BY DEF DropRecord, IInv, TypeOK
<1>2. /\ UNCHANGED <<bundles, pointer, committed, faults, get>>
      /\ push[t].pc = "unlink" /\ push'[t].pc = "prune"
      /\ \A u \in Thread : u # t => push'[u] = push[u]
  BY DEF DropRecord, IInv, TypeOK, bounds
<1>3. push[t].pc \in AfterPointer
  BY <1>2 DEF AfterPointer
<1>4. n \notin bundles
  BY <1>1, <1>2 DEF IInv, StepInv
<1>5. faults = 0 =>
        /\ \A o \in push[t].drop : o.gen <= pointer.gen - Keep
        /\ Readable(pointer) =>
             \A o \in bundles : o.gen > pointer.gen - Keep \/ o \in push[t].drop
  BY <1>2 DEF RInv, Dropping
<1> QED BY <1>1, <1>2, <1>3, <1>4, <1>5, RetentionStep

LEMMA FinishRetains ==
  ASSUME IInv, RInv, NEW t \in Thread, Finish(t)
  PROVE  RInv'
<1>1. /\ UNCHANGED <<bundles, pointer, committed, faults, get>>
      /\ push[t].pc = "prune" /\ push[t].drop = {} /\ push'[t].pc = "answer"
      /\ \A u \in Thread : u # t => push'[u] = push[u]
  BY DEF Finish, Leave, IInv, TypeOK, bounds, disk
<1>2. push[t].pc \in AfterPointer
  BY <1>1 DEF AfterPointer
<1>3. faults = 0 /\ Readable(pointer) => \A o \in bundles : o.gen > pointer.gen - Keep
  BY <1>1 DEF RInv, Dropping
<1> QED BY <1>1, <1>2, <1>3, RetentionStep

LEMMA NextRetains == IInv /\ RInv /\ [Next]_vars => RInv'
<1> SUFFICES ASSUME IInv, RInv, [Next]_vars PROVE RInv'
  OBVIOUS
<1>1. ASSUME NEW t \in Thread, Ask(t) \/ Decide(t) \/ Answer(t) PROVE RInv'
  <2>1. /\ UNCHANGED <<bundles, pointer, committed, faults, get>>
        /\ \A u \in Thread :
             \/ push'[u] = push[u]
             \/ /\ push[u].pc \notin Writing
                /\ push'[u].pc \in {"idle", "ask", "answer", "bundle"}
    <3>1. CASE Ask(t)
      BY <3>1 DEF Ask, IInv, TypeOK, Writing, disk, bounds
    <3>2. CASE Decide(t)
      <4>1. /\ push[t].pc = "ask"
            /\ UNCHANGED <<bundles, pointer, committed, faults, get>>
        BY <3>2 DEF Decide, disk, bounds
      <4>2. /\ push'[t].pc \in {"answer", "bundle"}
            /\ \A u \in Thread : u # t => push'[u] = push[u]
        BY <3>2 DEF Decide, Leave, IInv, TypeOK, PushRecord
      <4> QED BY <4>1, <4>2 DEF Writing
    <3>3. CASE Answer(t)
      BY <3>3 DEF Answer, IdlePush, IInv, TypeOK, Writing, disk, bounds
    <3> QED BY <1>1, <3>1, <3>2, <3>3
  <2> QED BY <2>1, QuietRetains
<1>2. ASSUME NEW t \in Thread, Push(t) PROVE RInv'
  BY <1>1, <1>2, WriteBundleRetains, WriteRecordRetains, WritePointerRetains,
     ListExcessRetains, DropBundleRetains, DropRecordRetains, FinishRetains DEF Push
<1>3. CASE UNCHANGED vars
  <2>1. /\ UNCHANGED <<bundles, pointer, committed, faults, get>>
        /\ \A u \in Thread : push'[u] = push[u]
    BY <1>3 DEF vars, disk, bounds
  <2> QED BY <2>1, QuietRetains
<1> QED BY <1>1, <1>2, <1>3, ReaderRetains, FaultRetains DEF Next

\* Nobody writing, what is on the disk is no more than the last Keep.
LEMMA TrimmedIsBounded == IInv /\ RInv => RetentionBounds
<1> SUFFICES ASSUME IInv, RInv, Readable(pointer), lock = NoThread, faults = 0
             PROVE  Cardinality(bundles) <= Keep
  BY DEF RetentionBounds
<1>1. \A t \in Thread : push[t].pc \notin Writing
  BY DEF IInv, LockInv
<1>2. /\ \A t \in Thread : push[t].pc \notin {"record", "pointer"}
      /\ \A t \in Thread : push[t].pc \notin AfterPointer
  BY <1>1 DEF Writing, AfterPointer
<1>3. /\ \A n \in bundles : n.gen \in 1..pointer.gen
      /\ \A n, o \in bundles : n.gen = o.gen => n = o
  BY <1>2, BundlesAreHeads DEF RInv
<1>4. \A n \in bundles : n.gen > pointer.gen - Keep
  BY <1>2 DEF RInv, Trimmed
<1>5. pointer.gen \in Nat /\ pointer.gen \in Int
  BY DEF IInv, TypeOK, Meta, NoMeta
<1> DEFINE low == pointer.gen - Keep + 1
<1>6. low \in Int /\ low = pointer.gen - Keep + 1
  BY <1>5
<1>7. \A n \in bundles : n.gen \in low..pointer.gen
  BY <1>3, <1>4, <1>5
<1> HIDE DEF low
<1>8. /\ IsFiniteSet(bundles)
      /\ Cardinality(bundles) <= Cardinality(low..pointer.gen)
  BY <1>3, <1>5, <1>6, <1>7, NoMoreThanInterval
<1>9. Cardinality(low..pointer.gen)
        = IF low > pointer.gen THEN 0 ELSE pointer.gen - low + 1
  BY <1>5, <1>6, FS_Interval
<1>10. Cardinality(bundles) \in Nat
  BY <1>8, FS_CardinalityType
<1> QED BY <1>5, <1>6, <1>8, <1>9, <1>10

\* Whatever is pushed and read at once, and for every Keep: the last Keep heads
\* stay, a GET loses its file only to Keep newer heads, and when the lock is
\* free no more than Keep bundles are left.
THEOREM RetentionKept == Spec => []RetentionIsKept
<1>1. Init => RInv
  BY InitRetains
<1>2. IInv /\ RInv /\ [Next]_vars => RInv'
  BY NextRetains
<1>3. IInv /\ RInv => RetentionIsKept
  BY TrimmedIsBounded DEF RInv, RetentionIsKept
<1> QED BY <1>1, <1>2, <1>3, Invariance, PTL DEF Spec

-----------------------------------------------------------------------------
(* The store implements the compare-and-set head *)

\* A step of one thread is a step of that thread's call.
LEMMA CallFrame ==
  ASSUME NEW t \in Thread, TypeOK, TypeOK',
         NEW q, push' = [push EXCEPT ![t] = q]
  PROVE  /\ AbstractCall' = [AbstractCall EXCEPT ![t] = Call(q)]
         /\ AbstractCall[t] = Call(push[t])
         /\ AbstractCall \in [Thread -> {Call(push[u]) : u \in Thread}]
  BY DEF AbstractCall, TypeOK

LEMMA InitRefines == Init => Abstract!HInit
  BY DEF Init, Abstract!HInit, Abstract!Empty, Abstract!Idle, AbstractHead,
     AbstractCall, Call, IdlePush, NoMeta

LEMMA AskRefines ==
  ASSUME TypeOK, TypeOK', NEW t \in Thread, Ask(t)
  PROVE  Abstract!HAsk(t)
<1>1. PICK b \in Hash, p \in Hash \cup {NoHash}, f \in BOOLEAN :
        push' = [push EXCEPT ![t] = [pc |-> "ask", body |-> b, parent |-> p,
                                     force |-> f, seen |-> NoMeta,
                                     drop |-> {}, reply |-> "none"]]
  BY DEF Ask
<1> DEFINE q == [pc |-> "ask", body |-> b, parent |-> p, force |-> f,
                 seen |-> NoMeta, drop |-> {}, reply |-> "none"]
<1>2. AbstractCall' = [AbstractCall EXCEPT ![t] = Call(q)]
  BY <1>1, CallFrame
<1>3. AbstractCall[t].st = "idle"
  BY DEF Ask, AbstractCall, Call
<1>4. Call(q) = [st |-> "asked", body |-> b, parent |-> p, force |-> f,
                 reply |-> "none"]
  BY DEF Call
<1>5. UNCHANGED AbstractHead
  BY DEF Ask, disk, AbstractHead
<1> QED BY <1>2, <1>3, <1>4, <1>5 DEF Abstract!HAsk, Abstract!Parent

\* Settling a call, and a step the caller cannot see.
LEMMA ReplyStep ==
  ASSUME TypeOK, TypeOK', NEW t \in Thread, NEW q, NEW r,
         push' = [push EXCEPT ![t] = q],
         Call(q) = Abstract!Settled(Call(push[t]), r)
  PROVE  Abstract!HReply(t, r)
  BY CallFrame DEF Abstract!HReply

LEMMA SilentStep ==
  ASSUME TypeOK, TypeOK', NEW t \in Thread, NEW q,
         push' = [push EXCEPT ![t] = q], Call(q) = Call(push[t])
  PROVE  UNCHANGED AbstractCall
  BY CallFrame DEF AbstractCall

\* Leaving without having moved the pointer, or after.
LEMMA LeaveReplies ==
  ASSUME TypeOK, TypeOK', NEW t \in Thread, NEW r, Leave(t, r)
  PROVE  Abstract!HReply(t, r)
<1> DEFINE q == [push[t] EXCEPT !.pc = "answer", !.reply = r]
<1>1. push' = [push EXCEPT ![t] = q]
  BY DEF Leave
<1>2. push[t] \in PushRecord
  BY DEF TypeOK
<1>3. Call(q) = Abstract!Settled(Call(push[t]), r)
  BY <1>2 DEF Call, PushRecord, Abstract!Settled
<1> HIDE DEF q
<1> QED BY <1>1, <1>3, ReplyStep

LEMMA DecideRefines ==
  ASSUME TypeOK, TypeOK', NEW t \in Thread, Decide(t)
  PROVE  \/ Abstract!HSame(t) \/ Abstract!HRefuse(t) \/ Abstract!HFail(t)
         \/ UNCHANGED Abstract!headVars
<1>1. UNCHANGED AbstractHead
  BY DEF Decide, disk, AbstractHead
<1>2. /\ AbstractCall[t].st = "asked"
      /\ AbstractCall[t].body = push[t].body
      /\ AbstractCall[t].parent = push[t].parent
      /\ AbstractCall[t].force = push[t].force
  BY DEF Decide, AbstractCall, Call
<1>3. CASE ~Readable(pointer)
  <2>1. Leave(t, "error")
    BY <1>3 DEF Decide
  <2> QED BY <1>1, <1>2, <2>1, LeaveReplies DEF Abstract!HFail
<1>4. CASE Leave(t, "same") /\ pointer.gen > 0 /\ push[t].body = pointer.hash
  BY <1>1, <1>2, <1>4, LeaveReplies DEF Abstract!HSame, AbstractHead
<1>5. CASE /\ Leave(t, "conflict") /\ pointer.gen > 0
           /\ push[t].body # pointer.hash
           /\ ~push[t].force /\ push[t].parent # pointer.hash
  BY <1>1, <1>2, <1>5, LeaveReplies DEF Abstract!HRefuse, AbstractHead
<1>6. CASE push' = [push EXCEPT ![t].pc = "bundle", ![t].seen = pointer]
  <2> DEFINE q == [push[t] EXCEPT !.pc = "bundle", !.seen = pointer]
  <2>1. push[t] \in PushRecord /\ push[t].pc = "ask"
    BY DEF TypeOK, Decide
  <2>2. Call(q) = Call(push[t])
    BY <2>1 DEF Call, PushRecord
  <2>3. push' = [push EXCEPT ![t] = q]
    BY <1>6
  <2> HIDE DEF q
  <2> QED BY <1>1, <2>2, <2>3, SilentStep DEF Abstract!headVars
<1> QED BY <1>3, <1>4, <1>5, <1>6 DEF Decide

\* Every step of the push but the pointer's is invisible.
LEMMA SilentRefines ==
  ASSUME TypeOK, TypeOK', NEW t \in Thread,
         \/ WriteBundle(t) \/ WriteRecord(t) \/ ListExcess(t)
         \/ DropBundle(t) \/ DropRecord(t)
  PROVE  UNCHANGED Abstract!headVars
<1>1. UNCHANGED AbstractHead
  BY DEF WriteBundle, WriteRecord, ListExcess, DropBundle, DropRecord, disk,
     AbstractHead
<1>2. push[t] \in PushRecord
  BY DEF TypeOK
<1>3. PICK q : /\ push' = [push EXCEPT ![t] = q]
               /\ Call(q) = Call(push[t])
  <2>1. CASE WriteBundle(t)
    <3>1. push' = [push EXCEPT ![t] = [push[t] EXCEPT !.pc = "record"]]
      BY <2>1 DEF WriteBundle
    <3>2. Call([push[t] EXCEPT !.pc = "record"]) = Call(push[t])
      BY <1>2, <2>1 DEF WriteBundle, Call, PushRecord
    <3> QED BY <3>1, <3>2
  <2>2. CASE WriteRecord(t)
    <3>1. push' = [push EXCEPT ![t] = [push[t] EXCEPT !.pc = "pointer"]]
      BY <2>2 DEF WriteRecord
    <3>2. Call([push[t] EXCEPT !.pc = "pointer"]) = Call(push[t])
      BY <1>2, <2>2 DEF WriteRecord, Call, PushRecord
    <3> QED BY <3>1, <3>2
  <2>3. CASE ListExcess(t)
    <3> DEFINE E == Excess(NameOf(NextMeta(t)))
    <3>1. push' = [push EXCEPT ![t] = [push[t] EXCEPT !.pc = "prune", !.drop = E]]
      BY <2>3 DEF ListExcess
    <3> HIDE DEF E
    <3>2. Call([push[t] EXCEPT !.pc = "prune", !.drop = E]) = Call(push[t])
      BY <1>2, <2>3 DEF ListExcess, Call, PushRecord
    <3> QED BY <3>1, <3>2
  <2>4. CASE DropBundle(t)
    <3>1. push' = [push EXCEPT ![t] = [push[t] EXCEPT !.pc = "unlink"]]
      BY <2>4 DEF DropBundle
    <3>2. Call([push[t] EXCEPT !.pc = "unlink"]) = Call(push[t])
      BY <1>2, <2>4 DEF DropBundle, Call, PushRecord
    <3> QED BY <3>1, <3>2
  <2>5. CASE DropRecord(t)
    <3>1. PICK n : push' = [push EXCEPT ![t] =
                     [push[t] EXCEPT !.pc = "prune", !.drop = push[t].drop \ {n}]]
      BY <2>5 DEF DropRecord
    <3>2. Call([push[t] EXCEPT !.pc = "prune", !.drop = push[t].drop \ {n}])
            = Call(push[t])
      BY <1>2, <2>5 DEF DropRecord, Call, PushRecord
    <3> QED BY <3>1, <3>2
  <2> QED BY <2>1, <2>2, <2>3, <2>4, <2>5
<1> QED BY <1>1, <1>3, SilentStep DEF Abstract!headVars

\* Replacing the pointer is the moment a push takes effect.
LEMMA WritePointerRefines ==
  ASSUME IInv, IInv', NEW t \in Thread, WritePointer(t)
  PROVE  Abstract!HAdvance(t)
<1>1. push[t] \in PushRecord /\ push[t].pc = "pointer" /\ TypeOK /\ TypeOK'
  BY DEF IInv, TypeOK, WritePointer
<1>2. push[t].seen = pointer
  BY <1>1 DEF IInv, StepInv, BeforePointer
<1>3. MayAdvance(t, pointer)
  BY <1>1, <1>2 DEF IInv, StepInv, BeforePointer
<1>4. AbstractHead' = [gen |-> AbstractHead.gen + 1, hash |-> push[t].body]
  BY <1>2 DEF WritePointer, NextMeta, AbstractHead
<1>5. Abstract!HReply(t, "advanced")
  <2> DEFINE q == [push[t] EXCEPT !.pc = "list"]
  <2>1. push' = [push EXCEPT ![t] = q]
    BY DEF WritePointer
  <2>2. Call(q) = Abstract!Settled(Call(push[t]), "advanced")
    BY <1>1 DEF Call, PushRecord, Abstract!Settled
  <2> HIDE DEF q
  <2> QED BY <1>1, <2>1, <2>2, ReplyStep
<1>6. /\ AbstractCall[t].st = "asked"
      /\ AbstractCall[t].body = push[t].body
      /\ AbstractCall[t].parent = push[t].parent
      /\ AbstractCall[t].force = push[t].force
  BY <1>1 DEF AbstractCall, Call
<1> QED BY <1>3, <1>4, <1>5, <1>6 DEF Abstract!HAdvance, MayAdvance, AbstractHead

LEMMA LeavingRefines ==
  ASSUME TypeOK, TypeOK', NEW t \in Thread, Finish(t) \/ Fail(t) \/ Answer(t)
  PROVE  \/ Abstract!HFail(t) \/ Abstract!HAnswer(t)
         \/ UNCHANGED Abstract!headVars
<1>1. UNCHANGED AbstractHead
  BY DEF Finish, Fail, Answer, disk, AbstractHead
<1>2. push[t] \in PushRecord
  BY DEF TypeOK
<1>3. CASE Finish(t)
  <2> DEFINE q == [push[t] EXCEPT !.pc = "answer", !.reply = "advanced"]
  <2>1. push' = [push EXCEPT ![t] = q]
    BY <1>3 DEF Finish, Leave
  <2>2. Call(q) = Call(push[t])
    BY <1>2, <1>3 DEF Call, PushRecord, Finish
  <2> HIDE DEF q
  <2> QED BY <1>1, <2>1, <2>2, SilentStep DEF Abstract!headVars
<1>4. CASE Fail(t)
  <2>1. AbstractCall[t].st # "idle"
    BY <1>4 DEF AbstractCall, Call, Fail, Writing
  <2>2. Abstract!HReply(t, "error")
    BY <1>4, LeaveReplies DEF Fail
  <2> QED BY <1>1, <2>1, <2>2 DEF Abstract!HFail
<1>5. CASE Answer(t)
  <2>1. push' = [push EXCEPT ![t] = IdlePush]
    BY <1>5 DEF Answer
  <2>2. Call(IdlePush) = Abstract!Idle
    BY DEF Call, IdlePush, Abstract!Idle
  <2>3. AbstractCall[t].st = "done"
    BY <1>5 DEF AbstractCall, Call, Answer
  <2> QED BY <1>1, <2>1, <2>2, <2>3, CallFrame DEF Abstract!HAnswer
<1> QED BY <1>3, <1>4, <1>5

LEMMA CrashRefines ==
  ASSUME TypeOK, Crash
  PROVE  Abstract!HCrash
<1>1. Call(IdlePush) = Abstract!Idle
  BY DEF Call, IdlePush, Abstract!Idle
<1>2. AbstractCall' = [t \in Thread |-> Abstract!Idle]
  BY <1>1 DEF Crash, AbstractCall
<1>3. UNCHANGED AbstractHead
  BY DEF Crash, disk, AbstractHead
<1> QED BY <1>2, <1>3 DEF Abstract!HCrash

LEMMA StepRefines ==
  IInv /\ IInv' /\ [Next]_vars => [Abstract!HNext]_(Abstract!headVars)
<1> SUFFICES ASSUME IInv, IInv', [Next]_vars
             PROVE  [Abstract!HNext]_(Abstract!headVars)
  OBVIOUS
<1>0. TypeOK /\ TypeOK'
  BY DEF IInv
<1>1. ASSUME NEW t \in Thread, Ask(t) \/ Push(t) \/ Fail(t)
      PROVE  [Abstract!HNext]_(Abstract!headVars)
  BY <1>0, <1>1, AskRefines, DecideRefines, SilentRefines, WritePointerRefines,
     LeavingRefines DEF Push, Abstract!HNext
<1>2. ASSUME NEW r \in Reader, ReadLabel(r) \/ Get(r)
      PROVE  UNCHANGED Abstract!headVars
  BY <1>2 DEF ReadLabel, Get, ReadPath, ReadBytes, EndGet, disk,
     Abstract!headVars, AbstractHead, AbstractCall
<1>3. ASSUME UNCHANGED vars PROVE UNCHANGED Abstract!headVars
  BY <1>3 DEF vars, Abstract!headVars, AbstractHead, AbstractCall
<1> QED BY <1>0, <1>1, <1>2, <1>3, CrashRefines DEF Next, Abstract!HNext

\* The store, however it is interrupted, is a head that moves by
\* compare-and-set.
THEOREM Implementation == Spec => ImplementsHead
<1>1. Init => Abstract!HInit
  BY InitRefines
<1>2. IInv /\ IInv' /\ [Next]_vars => [Abstract!HNext]_(Abstract!headVars)
  BY StepRefines
<1> QED BY <1>1, <1>2, Invariance, PTL DEF Spec, ImplementsHead, Abstract!HSpec

=============================================================================
