--------------------------- MODULE DownloadProofs ----------------------------
(***************************************************************************)
(* What is installed is one version whole, and slots come back, for any    *)
(* number of processes, versions, sizes, slots, tries, breaks and kills.   *)
(* The game's lock is what a process's check of the partial file rests on. *)
(***************************************************************************)
EXTENDS Download, FiniteSetTheorems, TLAPS

Procs == [at : {"idle", "lock", "copy", "fetch", "stream", "verify", "install"},
          want : Version \cup {0}, tries : Nat, fd : Version \cup {0}, left : Int]

TypeOK == /\ disk \in Version /\ row \in Version /\ slots \in Int
          /\ procs \in [Process -> Procs] /\ lock \in Process \cup {Nobody}
          /\ staged \in Seq(Version) /\ breaks \in Nat

AtWork == {"copy", "fetch", "stream", "verify", "install"}

\* Past the lock there is the one that holds it, and it knows what it wants.
LockIsHeld == \A p \in Process : procs[p].at \in AtWork => lock = p /\ procs[p].want \in Version

\* A process that waits for the lock knows what it wants, and a stream what it opened.
WantInv == \A p \in Process : /\ procs[p].at = "lock" => procs[p].want \in Version
                              /\ procs[p].at = "stream" => procs[p].fd \in Version

\* From the hash to the rename nobody else touches the partial file.
VerifiedStays == \A p \in Process : procs[p].at = "install" => staged = Whole(procs[p].want)

InstalledWhole == installed # <<>> => \E v \in Version : installed = Whole(v)

Streams == {p \in Process : procs[p].at = "stream"}

\* At most the lock's holder streams.
SlotsCount == slots + (IF Streams = {} THEN 0 ELSE 1) = Slots

IInv == TypeOK /\ LockIsHeld /\ WantInv /\ VerifiedStays /\ InstalledWhole /\ SlotsCount

\* Versions begin at the first, and have sizes.
Sized == 1 \in Version /\ (\A v \in Version : Size[v] \in Nat)
         /\ Slots \in Nat /\ Nobody \notin Process /\ Attempts \in Nat

-----------------------------------------------------------------------------
LEMMA WholeIsSeq ==
  ASSUME Sized, NEW v \in Version
  PROVE  Whole(v) \in Seq(Version)
  BY DEF Whole, Sized

LEMMA InitIInv == Sized /\ Init => IInv
  BY DEF Sized, Init, IInv, TypeOK, Procs, Idle, AtWork, LockIsHeld, WantInv, VerifiedStays, InstalledWhole,
         Streams, SlotsCount

\* One process moves, the lock stands or goes from or to it, and the partial
\* file is touched by no other at work.
LEMMA MoveKeeps ==
  ASSUME Sized, IInv, NEW p \in Process, NEW proc \in Procs, Goes(p, proc),
         proc.at \in AtWork => lock' = p /\ proc.want \in Version,
         lock' \in {lock, p, Nobody}, lock' # lock => lock \in {p, Nobody},
         proc.at = "lock" => proc.want \in Version, proc.at = "stream" => proc.fd \in Version,
         proc.at = "install" => staged' = Whole(proc.want),
         staged' = staged \/ lock = p,
         staged' \in Seq(Version),
         proc.at \notin AtWork /\ procs[p].at \in AtWork => lock' = Nobody
  PROVE  /\ procs' \in [Process -> Procs] /\ lock' \in Process \cup {Nobody}
         /\ LockIsHeld' /\ WantInv' /\ VerifiedStays'
         /\ Streams' = IF proc.at = "stream" THEN {p} ELSE Streams \ {p}
         /\ Streams \in {{}, {p}} \/ (p \notin Streams /\ proc.at # "stream")
<1>1. procs' = [procs EXCEPT ![p] = proc] /\ procs \in [Process -> Procs]
  BY DEF Goes, IInv, TypeOK
<1>2. procs' \in [Process -> Procs] /\ lock' \in Process \cup {Nobody}
  BY <1>1 DEF IInv, TypeOK
<1>3. \A q \in Process : procs'[q] = IF q = p THEN proc ELSE procs[q]
  BY <1>1
<1>4. \A q \in Process : q # p /\ procs[q].at \in AtWork => lock = q /\ lock' = lock /\ lock # p
  BY DEF IInv, LockIsHeld, Sized
<1>5. LockIsHeld'
  BY <1>3, <1>4 DEF IInv, LockIsHeld
<1>6. VerifiedStays' /\ WantInv'
  BY <1>3, <1>4 DEF IInv, VerifiedStays, WantInv, AtWork
<1>7. proc.at = "stream" => lock' = p
  BY DEF AtWork
<1>8. \A q \in Process : q # p /\ procs[q].at = "stream" => proc.at # "stream" /\ procs[p].at # "stream"
  BY <1>4, <1>7 DEF AtWork, IInv, LockIsHeld
<1>9. Streams' = IF proc.at = "stream" THEN {p} ELSE Streams \ {p}
  BY <1>3, <1>8 DEF Streams
<1> QED BY <1>2, <1>5, <1>6, <1>8, <1>9 DEF Streams

\* A try that failed is followed by another, or by giving up.
LEMMA FailedKeeps ==
  ASSUME Sized, IInv, NEW p \in Process, procs[p].at \in AtWork, Failed(p),
         staged' = staged \/ staged' = <<>>
  PROVE  /\ procs' \in [Process -> Procs] /\ lock' \in Process \cup {Nobody} /\ staged' \in Seq(Version)
         /\ LockIsHeld' /\ WantInv' /\ VerifiedStays'
         /\ Streams' = {} /\ (Streams = IF procs[p].at = "stream" THEN {p} ELSE {})
<1>1. lock = p /\ procs[p] \in Procs /\ procs[p].want \in Version
  BY DEF IInv, TypeOK, LockIsHeld
<1>2. staged' \in Seq(Version)
  <2>1. staged \in Seq(Version) /\ <<>> \in Seq(Version)
    BY DEF IInv, TypeOK
  <2> QED BY <2>1
<1>3. Streams = IF procs[p].at = "stream" THEN {p} ELSE {}
  BY <1>1 DEF IInv, LockIsHeld, Streams, AtWork
<1>4. CASE Dies(p)
  <2>1. Idle \in Procs /\ Idle.at = "idle"
    BY DEF Idle, Procs
  <2> QED BY <1>1, <1>2, <1>3, <1>4, <2>1, MoveKeeps DEF Dies, AtWork
<1>5. CASE Goes(p, [procs[p] EXCEPT !.at = "fetch", !.tries = @ + 1]) /\ lock' = lock
  <2> DEFINE proc == [procs[p] EXCEPT !.at = "fetch", !.tries = @ + 1]
  <2>1. procs[p].tries + 1 \in Nat /\ proc = [procs[p] EXCEPT !.at = "fetch", !.tries = procs[p].tries + 1]
    BY <1>1 DEF Procs
  <2>2. proc \in Procs /\ proc.at = "fetch" /\ proc.want = procs[p].want
    BY <1>1, <2>1 DEF Procs
  <2> HIDE DEF proc
  <2>3. Goes(p, proc)
    BY <1>5 DEF proc
  <2> QED BY <1>1, <1>2, <1>3, <1>5, <2>2, <2>3, MoveKeeps DEF AtWork
<1> QED BY <1>4, <1>5 DEF Failed

-----------------------------------------------------------------------------
(* A lemma for each action *)

LEMMA LibraryStep ==
  ASSUME Sized, IInv, Replace \/ Import
  PROVE  IInv'
  BY DEF Replace, Import, IInv, TypeOK, LockIsHeld, WantInv, VerifiedStays, InstalledWhole, Streams, SlotsCount

LEMMA StartStep ==
  ASSUME Sized, IInv, NEW p \in Process, Start(p)
  PROVE  IInv'
<1> DEFINE proc == [Idle EXCEPT !.at = "lock", !.want = row]
<1>1. /\ procs[p].at = "idle" /\ Goes(p, proc)
      /\ UNCHANGED <<disk, row, slots, lock, staged, installed, breaks>>
  BY DEF Start, OnServer
<1>2. proc \in Procs /\ proc.at = "lock" /\ proc.want \in Version
  <2>1. Idle \in Procs
    BY DEF Idle, Procs
  <2>2. row \in Version
    BY DEF IInv, TypeOK
  <2> QED BY <2>1, <2>2 DEF Procs
<1> HIDE DEF proc
<1>3. /\ procs' \in [Process -> Procs] /\ LockIsHeld' /\ WantInv' /\ VerifiedStays' /\ Streams' = Streams \ {p}
      /\ p \notin Streams
  BY <1>1, <1>2, MoveKeeps DEF AtWork, IInv, TypeOK, Streams
<1> QED BY <1>1, <1>3 DEF IInv, TypeOK, InstalledWhole, SlotsCount

LEMMA LockStep ==
  ASSUME Sized, IInv, NEW p \in Process, Lock(p)
  PROVE  IInv'
<1>1. /\ procs[p].at = "lock" /\ lock = Nobody /\ procs[p] \in Procs /\ p \notin Streams
      /\ UNCHANGED <<disk, row, slots, staged, installed, breaks>>
  BY DEF Lock, OnServer, Streams, IInv, TypeOK
<1>2. CASE Goes(p, Idle) /\ UNCHANGED lock
  <2>1. Idle \in Procs /\ Idle.at = "idle"
    BY DEF Idle, Procs
  <2>2. /\ procs' \in [Process -> Procs] /\ LockIsHeld' /\ WantInv' /\ VerifiedStays' /\ Streams' = Streams
    BY <1>1, <1>2, <2>1, MoveKeeps DEF AtWork, IInv, TypeOK
  <2> QED BY <1>1, <1>2, <2>2 DEF IInv, TypeOK, InstalledWhole, SlotsCount
<1>3. CASE /\ lock' = p
           /\ \E way \in {"copy", "fetch"} : Goes(p, [procs[p] EXCEPT !.at = way, !.tries = 1])
  <2>1. PICK way \in {"copy", "fetch"} : Goes(p, [procs[p] EXCEPT !.at = way, !.tries = 1])
    BY <1>3
  <2> DEFINE proc == [procs[p] EXCEPT !.at = way, !.tries = 1]
  <2>2. proc \in Procs /\ proc.at \in {"copy", "fetch"} /\ proc.want = procs[p].want
    BY <1>1 DEF Procs
  <2>3. Goes(p, proc)
    BY <2>1
  <2> HIDE DEF proc
  <2>4. procs[p].want \in Version
    BY <1>1 DEF IInv, WantInv, AtWork
  <2>5. /\ procs' \in [Process -> Procs] /\ LockIsHeld' /\ WantInv' /\ VerifiedStays' /\ Streams' = Streams
    BY <1>1, <1>3, <2>2, <2>3, <2>4, MoveKeeps DEF AtWork, IInv, TypeOK
  <2> QED BY <1>1, <1>3, <2>5 DEF IInv, TypeOK, InstalledWhole, SlotsCount
<1> QED BY <1>2, <1>3 DEF Lock

LEMMA CopyStep ==
  ASSUME Sized, IInv, NEW p \in Process, Copy(p)
  PROVE  IInv'
<1> DEFINE proc == [procs[p] EXCEPT !.at = "verify", !.tries = Attempts]
<1>1. /\ procs[p].at = "copy" /\ lock' = lock /\ Goes(p, proc) /\ staged' = Whole(disk)
      /\ UNCHANGED <<disk, row, slots, installed, breaks>>
  BY DEF Copy, OnServer
<1>2. lock = p /\ procs[p] \in Procs /\ procs[p].want \in Version /\ p \notin Streams
  BY <1>1 DEF IInv, TypeOK, LockIsHeld, AtWork, Streams
<1>3. proc \in Procs /\ proc.at = "verify" /\ proc.want = procs[p].want
  BY <1>2 DEF Procs, Sized
<1>4. staged' \in Seq(Version)
  BY <1>1, WholeIsSeq DEF IInv, TypeOK
<1> HIDE DEF proc
<1>5. procs' \in [Process -> Procs] /\ LockIsHeld' /\ WantInv' /\ VerifiedStays' /\ Streams' = Streams
  BY <1>1, <1>2, <1>3, <1>4, MoveKeeps DEF AtWork
<1> QED BY <1>1, <1>4, <1>5 DEF IInv, TypeOK, InstalledWhole, SlotsCount

LEMMA RequestStep ==
  ASSUME Sized, IInv, NEW p \in Process, Request(p)
  PROVE  IInv'
<1>1. /\ procs[p].at = "fetch" /\ UNCHANGED <<disk, row, installed, breaks>>
      /\ lock = p /\ procs[p] \in Procs /\ procs[p].want \in Version
  BY DEF Request, IInv, TypeOK, LockIsHeld, AtWork
<1>2. Streams = {}
  BY <1>1 DEF IInv, LockIsHeld, Streams, AtWork
<1>3. CASE Goes(p, [procs[p] EXCEPT !.at = "verify"]) /\ UNCHANGED <<slots, lock, staged>>
  <2> DEFINE proc == [procs[p] EXCEPT !.at = "verify"]
  <2>1. proc \in Procs /\ proc.at = "verify" /\ proc.want = procs[p].want
    BY <1>1 DEF Procs
  <2>2. Goes(p, proc)
    BY <1>3
  <2> HIDE DEF proc
  <2>3. procs' \in [Process -> Procs] /\ LockIsHeld' /\ WantInv' /\ VerifiedStays' /\ Streams' = {}
    BY <1>1, <1>2, <1>3, <2>1, <2>2, MoveKeeps DEF AtWork, IInv, TypeOK
  <2> QED BY <1>1, <1>2, <1>3, <2>3 DEF IInv, TypeOK, InstalledWhole, SlotsCount
<1>4. CASE Failed(p) /\ staged' \in {staged, <<>>} /\ UNCHANGED slots
  <2>1. /\ procs' \in [Process -> Procs] /\ lock' \in Process \cup {Nobody} /\ staged' \in Seq(Version)
        /\ LockIsHeld' /\ WantInv' /\ VerifiedStays' /\ Streams' = {}
    BY <1>1, <1>4, FailedKeeps DEF AtWork
  <2> QED BY <1>1, <1>2, <1>4, <2>1 DEF IInv, TypeOK, InstalledWhole, SlotsCount
<1>5. CASE /\ slots' = slots - 1 /\ UNCHANGED <<lock, staged>>
           /\ Goes(p, [procs[p] EXCEPT !.at = "stream", !.fd = disk, !.left = Size[disk] - Len(staged)])
  <2> DEFINE proc == [procs[p] EXCEPT !.at = "stream", !.fd = disk, !.left = Size[disk] - Len(staged)]
  <2>1. disk \in Version /\ Size[disk] - Len(staged) \in Int
    BY DEF IInv, TypeOK, Sized
  <2>2. proc \in Procs /\ proc.at = "stream" /\ proc.want = procs[p].want /\ proc.fd = disk
    BY <1>1, <2>1 DEF Procs
  <2>3. Goes(p, proc)
    BY <1>5
  <2> HIDE DEF proc
  <2>4. procs' \in [Process -> Procs] /\ LockIsHeld' /\ WantInv' /\ VerifiedStays' /\ Streams' = {p}
    BY <1>1, <1>5, <2>1, <2>2, <2>3, MoveKeeps DEF AtWork, IInv, TypeOK
  <2> QED BY <1>1, <1>2, <1>5, <2>4 DEF IInv, TypeOK, InstalledWhole, SlotsCount, Sized
<1> QED BY <1>3, <1>4, <1>5 DEF Request

LEMMA DataStep ==
  ASSUME Sized, IInv, NEW p \in Process, Data(p)
  PROVE  IInv'
<1> DEFINE proc == [procs[p] EXCEPT !.left = @ - 1]
<1>1. /\ procs[p].at = "stream" /\ Goes(p, proc)
      /\ UNCHANGED <<disk, row, slots, lock, installed, breaks>>
  BY DEF Data, OnServer
<1>2. /\ lock = p /\ procs[p] \in Procs /\ procs[p].want \in Version
  BY <1>1 DEF IInv, TypeOK, LockIsHeld, AtWork
<1>3. Streams = {p}
  BY <1>1, <1>2 DEF IInv, LockIsHeld, Streams, AtWork
<1>4. PICK v \in {procs[p].fd, disk} : staged' = Append(staged, v)
  BY DEF Data
<1>5. proc \in Procs /\ proc.at = "stream" /\ proc.want = procs[p].want /\ proc.fd = procs[p].fd
  BY <1>1, <1>2 DEF Procs
<1>6. v \in Version
  BY <1>1, <1>4 DEF IInv, TypeOK, WantInv
<1>7. procs[p].fd \in Version
  BY <1>1 DEF IInv, WantInv
<1>8. staged' \in Seq(Version)
  BY <1>4, <1>6 DEF IInv, TypeOK
<1> HIDE DEF proc
<1>9. procs' \in [Process -> Procs] /\ LockIsHeld' /\ WantInv' /\ VerifiedStays' /\ Streams' = {p}
  BY <1>1, <1>2, <1>5, <1>7, <1>8, MoveKeeps DEF AtWork
<1> QED BY <1>1, <1>3, <1>8, <1>9 DEF IInv, TypeOK, InstalledWhole, SlotsCount

LEMMA SentStep ==
  ASSUME Sized, IInv, NEW p \in Process, Sent(p)
  PROVE  IInv'
<1> DEFINE proc == [procs[p] EXCEPT !.at = "verify"]
<1>1. /\ procs[p].at = "stream" /\ Goes(p, proc) /\ slots' = slots + 1
      /\ UNCHANGED <<disk, row, lock, staged, installed, breaks>>
  BY DEF Sent
<1>2. /\ lock = p /\ procs[p] \in Procs /\ procs[p].want \in Version
  BY <1>1 DEF IInv, TypeOK, LockIsHeld, AtWork
<1>3. Streams = {p}
  BY <1>1, <1>2 DEF IInv, LockIsHeld, Streams, AtWork
<1>4. proc \in Procs /\ proc.at = "verify" /\ proc.want = procs[p].want
  BY <1>2 DEF Procs
<1> HIDE DEF proc
<1>5. procs' \in [Process -> Procs] /\ LockIsHeld' /\ WantInv' /\ VerifiedStays' /\ Streams' = {}
  BY <1>1, <1>2, <1>3, <1>4, MoveKeeps DEF AtWork, IInv, TypeOK
<1> QED BY <1>1, <1>3, <1>5 DEF IInv, TypeOK, InstalledWhole, SlotsCount, Sized

LEMMA BreakStep ==
  ASSUME Sized, IInv, NEW p \in Process, Break(p)
  PROVE  IInv'
<1>1. /\ procs[p].at = "stream" /\ Failed(p) /\ slots' = slots + 1 /\ breaks' = breaks + 1
      /\ UNCHANGED <<disk, row, staged, installed>>
  BY DEF Break
<1>2. /\ procs' \in [Process -> Procs] /\ lock' \in Process \cup {Nobody} /\ staged' \in Seq(Version)
      /\ LockIsHeld' /\ WantInv' /\ VerifiedStays' /\ Streams' = {} /\ Streams = {p}
  BY <1>1, FailedKeeps DEF AtWork
<1> QED BY <1>1, <1>2 DEF IInv, TypeOK, InstalledWhole, SlotsCount, Sized

LEMMA DiesKeeps ==
  ASSUME Sized, IInv, NEW p \in Process, procs[p].at \in AtWork, Dies(p), staged' \in {staged, <<>>}
  PROVE  /\ procs' \in [Process -> Procs] /\ lock' \in Process \cup {Nobody} /\ staged' \in Seq(Version)
         /\ LockIsHeld' /\ WantInv' /\ VerifiedStays'
         /\ Streams' = {} /\ (Streams = IF procs[p].at = "stream" THEN {p} ELSE {})
<1>1. lock = p
  BY DEF IInv, LockIsHeld
<1>2. Streams = IF procs[p].at = "stream" THEN {p} ELSE {}
  BY <1>1 DEF IInv, LockIsHeld, Streams, AtWork
<1>3. Idle \in Procs /\ Idle.at = "idle"
  BY DEF Idle, Procs
<1>4. staged' \in Seq(Version)
  <2>1. staged \in Seq(Version) /\ <<>> \in Seq(Version)
    BY DEF IInv, TypeOK
  <2> QED BY <2>1
<1> QED BY <1>1, <1>2, <1>3, <1>4, MoveKeeps DEF Dies, AtWork

LEMMA KillStep ==
  ASSUME Sized, IInv, NEW p \in Process, Kill(p)
  PROVE  IInv'
<1>1. /\ procs[p].at \in AtWork /\ Dies(p) /\ breaks' = breaks + 1
      /\ slots' = slots + IF procs[p].at = "stream" THEN 1 ELSE 0
      /\ UNCHANGED <<disk, row, staged, installed>>
  BY DEF Kill, IInv, TypeOK, Procs, AtWork
<1>2. /\ procs' \in [Process -> Procs] /\ lock' \in Process \cup {Nobody} /\ staged' \in Seq(Version)
      /\ LockIsHeld' /\ WantInv' /\ VerifiedStays'
      /\ Streams' = {} /\ (Streams = IF procs[p].at = "stream" THEN {p} ELSE {})
  BY <1>1, DiesKeeps
<1> QED BY <1>1, <1>2 DEF IInv, TypeOK, InstalledWhole, SlotsCount, Sized

LEMMA VerifyStep ==
  ASSUME Sized, IInv, NEW p \in Process, Verify(p)
  PROVE  IInv'
<1>1. /\ procs[p].at = "verify" /\ UNCHANGED <<disk, row, slots, installed, breaks>>
      /\ lock = p /\ procs[p] \in Procs /\ procs[p].want \in Version
  BY DEF Verify, OnServer, IInv, TypeOK, LockIsHeld, AtWork
<1>2. Streams = {}
  BY <1>1 DEF IInv, LockIsHeld, Streams, AtWork
<1>3. CASE staged' = <<>> /\ Failed(p)
  <2>1. /\ procs' \in [Process -> Procs] /\ lock' \in Process \cup {Nobody} /\ staged' \in Seq(Version)
        /\ LockIsHeld' /\ WantInv' /\ VerifiedStays' /\ Streams' = {}
    BY <1>1, <1>3, FailedKeeps DEF AtWork
  <2> QED BY <1>1, <1>2, <1>3, <2>1 DEF IInv, TypeOK, InstalledWhole, SlotsCount
<1>4. CASE /\ staged = Whole(procs[p].want)
           /\ Goes(p, [procs[p] EXCEPT !.at = "install"]) /\ UNCHANGED <<lock, staged>>
  <2> DEFINE proc == [procs[p] EXCEPT !.at = "install"]
  <2>1. proc \in Procs /\ proc.at = "install" /\ proc.want = procs[p].want
    BY <1>1 DEF Procs
  <2>2. Goes(p, proc)
    BY <1>4
  <2> HIDE DEF proc
  <2>3. procs' \in [Process -> Procs] /\ LockIsHeld' /\ WantInv' /\ VerifiedStays' /\ Streams' = {}
    BY <1>1, <1>2, <1>4, <2>1, <2>2, MoveKeeps DEF AtWork, IInv, TypeOK
  <2> QED BY <1>1, <1>2, <1>4, <2>3 DEF IInv, TypeOK, InstalledWhole, SlotsCount
<1> QED BY <1>3, <1>4 DEF Verify

LEMMA InstallStep ==
  ASSUME Sized, IInv, NEW p \in Process, Install(p)
  PROVE  IInv'
<1>1. /\ procs[p].at = "install" /\ installed' = staged /\ staged' = <<>> /\ Dies(p)
      /\ UNCHANGED <<disk, row, slots, breaks>>
  BY DEF Install, OnServer
<1>2. /\ procs' \in [Process -> Procs] /\ lock' \in Process \cup {Nobody} /\ staged' \in Seq(Version)
      /\ LockIsHeld' /\ WantInv' /\ VerifiedStays' /\ Streams' = {} /\ Streams = {}
  BY <1>1, DiesKeeps DEF AtWork
<1>3. InstalledWhole'
  <2>1. staged = Whole(procs[p].want) /\ procs[p].want \in Version
    BY <1>1 DEF IInv, LockIsHeld, VerifiedStays, AtWork
  <2> QED BY <1>1, <2>1 DEF InstalledWhole
<1> QED BY <1>1, <1>2, <1>3 DEF IInv, TypeOK, SlotsCount

-----------------------------------------------------------------------------
LEMMA NextInv == Sized /\ IInv /\ [Next]_vars => IInv'
<1> SUFFICES ASSUME Sized, IInv, [Next]_vars PROVE IInv'
  OBVIOUS
<1>1. CASE UNCHANGED vars
  BY <1>1 DEF vars, IInv, TypeOK, LockIsHeld, WantInv, VerifiedStays, InstalledWhole, Streams, SlotsCount
<1> QED BY <1>1, LibraryStep, StartStep, LockStep, CopyStep, RequestStep, DataStep, SentStep, BreakStep,
           KillStep, VerifyStep, InstallStep DEF Next

\* A file is installed as one version whole, and no stream keeps a slot once it
\* has ended, however transfers break, are killed and resumed while the payload
\* is replaced (routes_files.py, download.sh _fetch_members).
THEOREM FilesAreWhole ==
  ASSUME Sized
  PROVE  Spec => []DownloadIsWhole
<1>1. Init => IInv
  BY InitIInv
<1>2. IInv /\ [Next]_vars => IInv'
  BY NextInv
<1>3. IInv => DownloadIsWhole
  <2> SUFFICES ASSUME IInv PROVE DownloadIsWhole
    OBVIOUS
  <2>1. Streams = {} \/ \E p \in Process : Streams = {p}
    BY DEF IInv, LockIsHeld, Streams, AtWork
  <2>2. Cardinality(Streams) = IF Streams = {} THEN 0 ELSE 1
    BY <2>1, FS_EmptySet, FS_Singleton
  <2> QED BY <2>2 DEF IInv, SlotsCount, InstalledWhole, DownloadIsWhole, Streams
<1> QED BY <1>1, <1>2, <1>3, PTL DEF Spec
=============================================================================
