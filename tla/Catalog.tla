------------------------------- MODULE Catalog -------------------------------
(***************************************************************************)
(* The catalog store and its two readers that look at the disk             *)
(* (gotg/catalog.py, CatalogStore; service/routes_catalog.py; the scan of  *)
(* routes_admin.py; the streaming of routes_files.py).  Writes hold one    *)
(* lock and are one transaction, but each reads the clock, in seconds,     *)
(* before it waits for the lock.  A scan tells what was imported in        *)
(* [since, now) and whose bytes have gone; the next scan's since is the    *)
(* last one's now.  An entry here has one member file.                     *)
(***************************************************************************)
EXTENDS Integers, FiniteSets

CONSTANTS Key,      \* (platform, id)
          Path,     \* absolute paths under the roots
          Writer,   \* request threads that write
          MaxClock, MaxDisk  \* bounds

VARIABLES clock,
          rows,    \* the entries: path, imported_at, seen_at
          writes,  \* per writer: the write that waits for the lock
          disk,    \* what each path is now
          scan,    \* the one scan that runs: its window, its snapshot, what it has found
          since,   \* what the next scan will ask for
          told,    \* history: the keys whose present row a scan has reported added
          late,    \* history: the keys whose row was committed after its stamp's second
          twice,   \* history: a row was reported added twice
          turns    \* how often the disk has changed

vars == <<clock, rows, writes, disk, scan, since, told, late, twice, turns>>

\* What a path may be: a regular file; a link to one, inside the roots or not; a
\* directory; nothing; or a file reached through a directory linked out.
Sort == {"file", "link", "linkOut", "dir", "gone", "dirOut"}

NoRow == [path |-> "", imported_at |-> 0, seen_at |-> 0]
NoWrite == [kind |-> "none", key |-> "", path |-> "", now |-> 0, force |-> FALSE]
NoScan == [at |-> 0, rows |-> {}, left |-> {}, missing |-> {}]

Init == /\ clock = 1
        /\ rows = [k \in Key |-> NoRow]
        /\ writes = [w \in Writer |-> NoWrite]
        /\ disk = [p \in Path |-> "file"]
        /\ scan = NoScan /\ since = 0
        /\ told = {} /\ late = {} /\ twice = FALSE /\ turns = 0

Entries == {k \in Key : rows[k] # NoRow}

\* upsert, touch: the payload is validated and the clock read; the lock is next.
Arrive(w, kind, k, p, force) ==
  /\ writes[w] = NoWrite
  /\ writes' = [writes EXCEPT ![w] = [kind |-> kind, key |-> k, path |-> p, now |-> clock, force |-> force]]
  /\ UNCHANGED <<clock, rows, disk, scan, since, told, late, twice, turns>>

\* A slip of Upsert: every write imports anew.
UpsertAnew(w) ==
  LET u == writes[w] IN
  /\ u.kind = "put"
  /\ writes' = [writes EXCEPT ![w] = NoWrite]
  /\ rows' = [rows EXCEPT ![u.key] = [path |-> u.path, seen_at |-> u.now, imported_at |-> u.now]]
  /\ UNCHANGED <<clock, disk, scan, since, told, late, twice, turns>>

\* upsert's transaction: other bytes under a stored id are a Conflict, unless
\* forced; imported_at is the first one's for good.
Upsert(w) ==
  LET u == writes[w]
      stored == rows[u.key] IN
  /\ u.kind = "put"
  /\ writes' = [writes EXCEPT ![w] = NoWrite]
  /\ IF stored # NoRow /\ ~u.force /\ stored.path # u.path
     THEN UNCHANGED <<rows, told, late>>
     ELSE /\ rows' = [rows EXCEPT ![u.key] =
                        [path |-> u.path, seen_at |-> u.now,
                         imported_at |-> IF stored = NoRow THEN u.now ELSE stored.imported_at]]
          /\ told' = IF stored = NoRow THEN told \ {u.key} ELSE told
          /\ late' = IF stored # NoRow THEN late
                     ELSE IF u.now < clock THEN late \cup {u.key} ELSE late \ {u.key}
  /\ UNCHANGED <<clock, disk, scan, since, twice, turns>>

\* touch: those that are there; it never makes a row.
Touch(w) ==
  LET u == writes[w] IN
  /\ u.kind = "touch"
  /\ writes' = [writes EXCEPT ![w] = NoWrite]
  /\ rows' = IF rows[u.key] = NoRow THEN rows ELSE [rows EXCEPT ![u.key].seen_at = u.now]
  /\ UNCHANGED <<clock, disk, scan, since, told, late, twice, turns>>

Delete(k) ==
  /\ k \in Entries
  /\ rows' = [rows EXCEPT ![k] = NoRow]
  /\ UNCHANGED <<clock, writes, disk, scan, since, told, late, twice, turns>>

\* _admin_scan, scan: one at a time; the window's end, and one snapshot.
Window(at, r) == r.imported_at < at /\ r.imported_at >= since

ScanBegin ==
  LET added == {k \in Entries : Window(clock, rows[k])} IN
  /\ scan = NoScan
  /\ scan' = [at |-> clock, rows |-> Entries, missing |-> {},
              left |-> {rows[k].path : k \in Entries}]
  /\ told' = told \cup added
  /\ twice' = (twice \/ added \cap told # {})
  /\ UNCHANGED <<clock, rows, writes, disk, since, late, turns>>

\* _present: not through a directory that leads out, and what is there itself
\* a regular file.
Present(p) == disk[p] = "file"

\* open_member: contained, opened without following a link, and what was opened
\* is under a root.
Contained(p) == disk[p] \notin {"linkOut", "dirOut"}
Opens(p) == Contained(p) /\ disk[p] \notin {"link", "gone"}

\* One stat per member file.
ScanStat ==
  /\ \E p \in scan.left :
       scan' = [scan EXCEPT !.left = @ \ {p},
                            !.missing = IF Present(p) THEN @ ELSE @ \cup {p}]
  /\ UNCHANGED <<clock, rows, writes, disk, since, told, late, twice, turns>>

\* The report, and the caller keeps its scanned_at for the next.
ScanEnd ==
  /\ scan # NoScan /\ scan.left = {}
  /\ since' = scan.at
  /\ scan' = NoScan
  /\ UNCHANGED <<clock, rows, writes, disk, told, late, twice, turns>>

\* The torrent client prunes, replaces or brings back a payload.
Turn(p) ==
  /\ turns < MaxDisk
  /\ turns' = turns + 1
  /\ \E d \in Sort \ {disk[p]} : disk' = [disk EXCEPT ![p] = d]
  /\ UNCHANGED <<clock, rows, writes, scan, since, told, late, twice>>

Tick == /\ clock < MaxClock /\ clock' = clock + 1
        /\ UNCHANGED <<rows, writes, disk, scan, since, told, late, twice, turns>>

Next ==
  \/ \E w \in Writer :
       \/ \E k \in Key, p \in Path, f \in BOOLEAN : Arrive(w, "put", k, p, f)
       \/ \E k \in Key : Arrive(w, "touch", k, "", FALSE)
       \/ Upsert(w) \/ Touch(w)
  \/ \E k \in Key : Delete(k)
  \/ ScanBegin \/ ScanStat \/ ScanEnd
  \/ \E p \in Path : Turn(p)
  \/ Tick

Spec == Init /\ [][Next]_vars

-----------------------------------------------------------------------------
\* Below the window that comes next everything has been reported, and nothing
\* is twice ("the only cut that neither reports it twice nor loses what arrived
\* late in it"), but for a row whose write was still waiting when its second
\* was over.
AddedOnce ==
  /\ ~twice
  /\ scan = NoScan => \A k \in Entries \ late : rows[k].imported_at < since => k \in told

\* The same without that exception, which scan's docstring does not have.  It does
\* not hold: upsert reads its second before it waits for the write lock.
ScansLoseNothing ==
  scan = NoScan => \A k \in Entries : rows[k].imported_at < since => k \in told

\* What a finished scan did not list could be opened by a download when it was
\* looked at, and what it listed could not ("present" has to mean exactly what
\* open_member will do), but for a directory in the file's place, which is
\* listed and opens.  The disk has stood still since it was first looked at.
MissingIsUnopenable ==
  \A p \in Path : Present(p) = (Opens(p) /\ disk[p] # "dir")

=============================================================================
