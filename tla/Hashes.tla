------------------------------- MODULE Hashes --------------------------------
(***************************************************************************)
(* Where the catalog's hash of one linked file comes from (execute.py      *)
(* _link, write_sidecar; publish.py _digest): the row of before, when the  *)
(* file's stamp is the row's; else the sidecar beside the link in the      *)
(* games tree, when the link is still the file's inode; else the bytes.    *)
(* The payload is pruned, downloaded again under its name, or rewritten    *)
(* where it is, between any two steps; runs overlap and are killed.        *)
(***************************************************************************)
EXTENDS Naturals, FiniteSets

CONSTANTS Run,        \* the runs there may be, each once
          Unhashed,   \* those with --no-checksum and --allow-unhashed
          Inode,
          MaxWrites   \* bound on the versions of the bytes

NoFile == 0
NoHash == 0

VARIABLES bytes,     \* per inode, its version: its size and mtime, and its hash, change with it
          payload,   \* the inode under the payload's name
          link,      \* the inode under the games tree's name
          sidecar,   \* what <link>.sha256 holds
          row,       \* the catalog's: [stamp, sha256]
          runs,      \* per run: its memory
          writes,
          amended    \* history: inodes rewritten after they were linked

vars == <<bytes, payload, link, sidecar, row, runs, writes, amended>>

NoRow == [stamp |-> 0, sha256 |-> NoHash]
Idle == [at |-> "new", known |-> NoRow, inode |-> NoFile, stamp |-> 0, sha256 |-> NoHash]
Over == [Idle EXCEPT !.at = "over"]

Init == /\ bytes = [i \in Inode |-> 0] /\ payload = NoFile /\ link = NoFile
        /\ sidecar = NoHash /\ row = NoRow
        /\ runs = [r \in Run |-> Idle]
        /\ writes = 0 /\ amended = {}

Goes(r, run) == runs' = [runs EXCEPT ![r] = run]

Begin(r) == /\ runs[r].at = "new"
            /\ Goes(r, [runs[r] EXCEPT !.at = "link", !.known = row])
            /\ UNCHANGED <<bytes, payload, link, sidecar, row, writes, amended>>

\* _link: never over another file.
Link(r) ==
  /\ runs[r].at = "link"
  /\ IF payload # NoFile /\ link \in {NoFile, payload}
     THEN link' = payload /\ Goes(r, [runs[r] EXCEPT !.at = IF r \in Unhashed THEN "stat" ELSE "hash"])
     ELSE Goes(r, Over) /\ UNCHANGED link
  /\ UNCHANGED <<bytes, payload, sidecar, row, writes, amended>>

\* write_sidecar: the one that is there stands, whatever it is of.
Hash(r) ==
  /\ runs[r].at = "hash"
  /\ Goes(r, IF sidecar # NoHash THEN [runs[r] EXCEPT !.at = "stat"]
             ELSE [runs[r] EXCEPT !.at = "sidecar", !.sha256 = bytes[link]])
  /\ UNCHANGED <<bytes, payload, link, sidecar, row, writes, amended>>

Sidecar(r) ==
  /\ runs[r].at = "sidecar"
  /\ sidecar' = runs[r].sha256
  /\ Goes(r, [runs[r] EXCEPT !.at = "stat", !.sha256 = NoHash])
  /\ UNCHANGED <<bytes, payload, link, row, writes, amended>>

Stat(r) ==
  /\ runs[r].at = "stat"
  /\ Goes(r, IF payload = NoFile THEN Over
             ELSE [runs[r] EXCEPT !.at = "digest", !.inode = payload, !.stamp = bytes[payload]])
  /\ UNCHANGED <<bytes, payload, link, sidecar, row, writes, amended>>

\* The sidecar is of the link's inode, so it must be the one that was looked at.
OfThis(r) == sidecar # NoHash /\ link = runs[r].inode

\* _digest; a file that is gone by now ends the run.
Digest(r) ==
  LET run == runs[r]
      told(sha256) == Goes(r, [run EXCEPT !.at = "put", !.sha256 = sha256]) IN
  /\ run.at = "digest"
  /\ IF run.known.sha256 # NoHash /\ run.known.stamp = run.stamp THEN told(run.known.sha256)
     ELSE IF r \in Unhashed THEN told(NoHash)
     ELSE IF OfThis(r) THEN told(sidecar)
     ELSE IF payload # NoFile THEN told(bytes[payload])
     ELSE Goes(r, Over)
  /\ UNCHANGED <<bytes, payload, link, sidecar, row, writes, amended>>

\* Written unless it is what the run remembers; the call may fail.
Put(r) ==
  LET new == [stamp |-> runs[r].stamp, sha256 |-> runs[r].sha256] IN
  /\ runs[r].at = "put"
  /\ row' = IF new = runs[r].known THEN row ELSE new
  /\ Goes(r, Over)
  /\ UNCHANGED <<bytes, payload, link, sidecar, writes, amended>>

Kill(r) == /\ runs[r].at \notin {"new", "over"}
           /\ Goes(r, Over)
           /\ UNCHANGED <<bytes, payload, link, sidecar, row, writes, amended>>

(* the payload's torrent *)

Download == /\ payload = NoFile /\ writes < MaxWrites
            /\ \E i \in Inode \ {link} : payload' = i /\ bytes' = [bytes EXCEPT ![i] = writes + 1]
            /\ writes' = writes + 1
            /\ amended' = amended \ {payload'}
            /\ UNCHANGED <<link, sidecar, row, runs>>

Prune == /\ payload # NoFile /\ payload' = NoFile
         /\ UNCHANGED <<bytes, link, sidecar, row, runs, writes, amended>>

Rewrite == /\ payload # NoFile /\ writes < MaxWrites
           /\ bytes' = [bytes EXCEPT ![payload] = writes + 1] /\ writes' = writes + 1
           /\ amended' = IF link = payload THEN amended \cup {payload} ELSE amended
           /\ UNCHANGED <<payload, link, sidecar, row, runs>>

Next == \/ \E r \in Run : Begin(r) \/ Link(r) \/ Hash(r) \/ Sidecar(r) \/ Stat(r) \/ Digest(r) \/ Put(r) \/ Kill(r)
        \/ Download \/ Prune \/ Rewrite

Spec == Init /\ [][Next]_vars

-----------------------------------------------------------------------------
\* The hash of a row is the payload's as it was when it was looked at ("a stale
\* one is worse than a slow one": it is the ETag a resumed download goes by),
\* but for a payload that was rewritten under its link: its sidecar stands, and
\* is published with the new size and time.
HashIsTrue == row.sha256 # NoHash /\ payload # NoFile /\ row.stamp = bytes[payload] /\ payload \notin amended
              => row.sha256 = row.stamp
=============================================================================
