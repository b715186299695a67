------------------------------ MODULE Download -------------------------------
(***************************************************************************)
(* A game's file on its way to a machine: the service's stream of it       *)
(* (service/routes_files.py, catalog.py open_member) and the client's      *)
(* fetch, resumed over breaks and kills, verified and installed under the  *)
(* game's lock (client/lib/download.sh).  The payload on the service's     *)
(* disk is replaced, and its catalog row, with its sha256, follows with    *)
(* the next import.  Bytes are units, each of the version it is of.        *)
(***************************************************************************)
EXTENDS Naturals, Sequences, FiniteSets

CONSTANTS Process,   \* gotg processes of one machine
          Size,      \* per version of the payload: its units
          Slots,     \* stream_slots
          Attempts,  \* tries of one member
          Nobody,
          MaxBreaks  \* bound on the breaks and kills

VARIABLES disk,      \* the version the payload's file has
          row,       \* the version its catalog row describes
          slots,     \* the service's stream slots
          procs,     \* per process: [at, want, tries, fd, start, left]
          lock,      \* the game's lock
          staged,    \* the partial file: units
          installed, \* the installed file: units, none before
          breaks

vars == <<disk, row, slots, procs, lock, staged, installed, breaks>>

Version == DOMAIN Size
Whole(v) == [i \in 1..Size[v] |-> v]
Idle == [at |-> "idle", want |-> 0, tries |-> 0, fd |-> 0, left |-> 0]

Init == /\ disk = 1 /\ row = 1 /\ slots = Slots
        /\ procs = [p \in Process |-> Idle] /\ lock = Nobody
        /\ staged = <<>> /\ installed = <<>> /\ breaks = 0

Goes(p, proc) == procs' = [procs EXCEPT ![p] = proc]
OnServer == UNCHANGED <<disk, row, slots>>

(* the library *)

Replace == /\ disk + 1 \in Version /\ disk' = disk + 1
           /\ UNCHANGED <<row, slots, procs, lock, staged, installed, breaks>>

Import == /\ row # disk /\ row' = disk
          /\ UNCHANGED <<disk, slots, procs, lock, staged, installed, breaks>>

(* download_game *)

\* The catalog as it was read; nothing to do for a game that is there.
Start(p) ==
  /\ procs[p].at = "idle" /\ installed = <<>>
  /\ Goes(p, [Idle EXCEPT !.at = "lock", !.want = row])
  /\ OnServer /\ UNCHANGED <<lock, staged, installed, breaks>>

\* with_lock, and the second of two sees what the first installed.
Lock(p) ==
  /\ procs[p].at = "lock" /\ lock = Nobody
  /\ IF installed # <<>> THEN Goes(p, Idle) /\ UNCHANGED lock
     ELSE /\ lock' = p
          /\ \E way \in {"copy", "fetch"} : Goes(p, [procs[p] EXCEPT !.at = way, !.tries = 1])
  /\ OnServer /\ UNCHANGED <<staged, installed, breaks>>

Dies(p) == Goes(p, Idle) /\ lock' = Nobody

\* A library mounted here is copied from, and what is copied is verified.
Copy(p) ==
  /\ procs[p].at = "copy" /\ lock' = lock
  /\ staged' = Whole(disk)
  /\ Goes(p, [procs[p] EXCEPT !.at = "verify", !.tries = Attempts])
  /\ OnServer /\ UNCHANGED <<installed, breaks>>

Failed(p) ==
  IF procs[p].tries = Attempts THEN Dies(p)
  ELSE Goes(p, [procs[p] EXCEPT !.at = "fetch", !.tries = @ + 1]) /\ UNCHANGED lock

(* the service *)

\* open_member: the row's sha256, which is the ETag, and a descriptor of the bytes.
etag == row

\* range_window: all of it, the rest of it, or nothing past the end.
range_window(have, want) ==
  IF have = 0 \/ want # etag THEN 200
  ELSE IF have >= Size[disk] THEN 416 ELSE 206

\* curl resumes from what there is, If-Range the sha256 it wants.  Refused the
\* range it fails, and the partial goes; told there is no more it is content.
Request(p) ==
  LET status == range_window(Len(staged), procs[p].want) IN
  /\ procs[p].at = "fetch"
  /\ IF status = 416
     THEN /\ Goes(p, [procs[p] EXCEPT !.at = "verify"])
          /\ UNCHANGED <<slots, lock, staged>>
     ELSE IF slots = 0 \/ (status = 200 /\ staged # <<>>)
     THEN /\ Failed(p) /\ staged' = IF slots = 0 THEN staged ELSE <<>>
          /\ UNCHANGED slots
     ELSE /\ slots' = slots - 1
          /\ Goes(p, [procs[p] EXCEPT !.at = "stream", !.fd = disk, !.left = Size[disk] - Len(staged)])
          /\ UNCHANGED <<lock, staged>>
  /\ UNCHANGED <<disk, row, installed, breaks>>

\* What was opened, or what has been written over it.
Data(p) ==
  /\ procs[p].at = "stream" /\ procs[p].left > 0
  /\ \E v \in {procs[p].fd, disk} : staged' = Append(staged, v)
  /\ Goes(p, [procs[p] EXCEPT !.left = @ - 1])
  /\ OnServer /\ UNCHANGED <<lock, installed, breaks>>

\* The slot comes back however a stream ends.
Sent(p) ==
  /\ procs[p].at = "stream" /\ procs[p].left = 0
  /\ slots' = slots + 1
  /\ Goes(p, [procs[p] EXCEPT !.at = "verify"])
  /\ UNCHANGED <<disk, row, lock, staged, installed, breaks>>

Break(p) ==
  /\ procs[p].at = "stream" /\ breaks < MaxBreaks /\ breaks' = breaks + 1
  /\ slots' = slots + 1 /\ Failed(p)
  /\ UNCHANGED <<disk, row, staged, installed>>

Kill(p) ==
  /\ procs[p].at \notin {"idle", "lock"} /\ breaks < MaxBreaks /\ breaks' = breaks + 1
  /\ slots' = slots + IF procs[p].at = "stream" THEN 1 ELSE 0
  /\ Dies(p)
  /\ UNCHANGED <<disk, row, staged, installed>>

(* _fetch_members *)

VerifySize(p) ==
  /\ procs[p].at = "verify"
  /\ IF Len(staged) # Size[procs[p].want]
     THEN staged' = <<>> /\ Failed(p)
     ELSE Goes(p, [procs[p] EXCEPT !.at = "install"]) /\ UNCHANGED <<lock, staged>>
  /\ OnServer /\ UNCHANGED <<installed, breaks>>

\* A file that hashes wrong is deleted, and is tried for from nothing.
Verify(p) ==
  /\ procs[p].at = "verify"
  /\ IF staged # Whole(procs[p].want)
     THEN staged' = <<>> /\ Failed(p)
     ELSE Goes(p, [procs[p] EXCEPT !.at = "install"]) /\ UNCHANGED <<lock, staged>>
  /\ OnServer /\ UNCHANGED <<installed, breaks>>

\* A rename; the lock goes with it.
Install(p) ==
  /\ procs[p].at = "install"
  /\ installed' = staged /\ staged' = <<>> /\ Dies(p)
  /\ OnServer /\ UNCHANGED breaks

Next == \/ Replace \/ Import
        \/ \E p \in Process : \/ Start(p) \/ Lock(p) \/ Copy(p) \/ Request(p) \/ Data(p) \/ Sent(p)
                              \/ Break(p) \/ Kill(p) \/ Verify(p) \/ Install(p)

Spec == Init /\ [][Next]_vars

-----------------------------------------------------------------------------
\* A file is installed as one version whole, never the first half of one and the
\* rest of the next, however its payload was replaced and its transfer resumed
\* (routes_files.py: "restart cleanly instead of splicing two files together";
\* download.sh _verify_checksum); and no stream keeps a slot once it has ended.
DownloadIsWhole ==
  /\ installed # <<>> => \E v \in Version : installed = Whole(v)
  /\ slots + Cardinality({p \in Process : procs[p].at = "stream"}) = Slots
=============================================================================
