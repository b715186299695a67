----------------------------- MODULE LogsStore -------------------------------
(***************************************************************************)
(* One user's session logs (gotg/logs.py, LogsStore, service/              *)
(* routes_logs.py): per session a bundle and a record of its size and      *)
(* time.  An upload stores both under the lock and then drops the oldest   *)
(* sessions until the rest fit the quota, each bundle before its record.   *)
(* The admin lists, reads and deletes; reads hold no lock.  The service    *)
(* may stop between any two file operations.                               *)
(***************************************************************************)
EXTENDS Integers, FiniteSetsExt

CONSTANTS Session,  \* ids, naturals: they order as their start times
          Size,     \* sizes of bodies, in some unit
          quota_bytes, max_upload_bytes,
          Requester, \* request threads
          MaxClock  \* bound

VARIABLES clock,
          bundle,  \* session -> its size, 0 when there is none
          record,  \* session -> what was written down of it
          holder,  \* the lock's holder
          calls,   \* per thread: where its request is
          fits     \* history: no upload was cut short since one was finished

vars == <<clock, bundle, record, holder, calls, fits>>

NoRecord == [bytes |-> 0, at |-> 0]
Idle == [at |-> "idle", id |-> 0, bytes |-> 0, when |-> 0, drop |-> {}]

Init == /\ clock = 1
        /\ bundle = [s \in Session |-> 0]
        /\ record = [s \in Session |-> NoRecord]
        /\ holder = {}
        /\ calls = [t \in Requester |-> Idle]
        /\ fits = TRUE

Goes(t, c) == calls' = [calls EXCEPT ![t] = c]

\* list_user: a bundle with no record, or a record with no bundle, is not there.
Listed == {s \in Session : bundle[s] > 0 /\ record[s] # NoRecord}
Sizes == [s \in Session |-> record[s].bytes]
Total(S) == MapThenSumSet(LAMBDA s : Sizes[s], S)
Older(s, r) == record[s].at < record[r].at \/ (record[s].at = record[r].at /\ s < r)
Oldest(S) == CHOOSE s \in S : \A r \in S \ {s} : Older(s, r)

\* A slip of pick_victims: the upload counts among the oldest.
pick_victims_any(keep) ==
  LET Before(s) == {r \in Listed : Older(r, s)} IN
  {s \in Listed : Total(Listed) - Total(Before(s)) > quota_bytes}

\* pick_victims: the oldest, but for the one to keep, until the rest fit: each
\* that goes found the total still over when its turn came.
pick_victims(keep) ==
  LET Before(s) == {r \in Listed \ {keep} : Older(r, s)} IN
  {s \in Listed \ {keep} : Total(Listed) - Total(Before(s)) > quota_bytes}

\* put: refused before anything is written when it could never be kept.
Arrive(t, s, n) ==
  /\ calls[t].at = "idle" /\ n <= max_upload_bytes /\ n <= quota_bytes
  /\ Goes(t, [Idle EXCEPT !.at = "lock", !.id = s, !.bytes = n])
  /\ UNCHANGED <<clock, bundle, record, holder, fits>>

\* The lock, the clock, and the bundle.
PutBundle(t) ==
  LET c == calls[t] IN
  /\ c.at = "lock" /\ holder = {}
  /\ holder' = {t}
  /\ bundle' = [bundle EXCEPT ![c.id] = c.bytes]
  /\ Goes(t, [c EXCEPT !.at = "record", !.when = clock])
  /\ UNCHANGED <<clock, record, fits>>

PutRecord(t) ==
  LET c == calls[t] IN
  /\ c.at = "record"
  /\ record' = [record EXCEPT ![c.id] = [bytes |-> c.bytes, at |-> c.when]]
  /\ Goes(t, [c EXCEPT !.at = "pick"])
  /\ UNCHANGED <<clock, bundle, holder, fits>>

Pick(t) ==
  /\ calls[t].at = "pick"
  /\ Goes(t, [calls[t] EXCEPT !.at = "bundles", !.drop = pick_victims(calls[t].id)])
  /\ UNCHANGED <<clock, bundle, record, holder, fits>>

\* _remove, the oldest first: "the bundle goes first".  With nothing left to drop the lock is free.
DropBundle(t) ==
  LET c == calls[t] IN
  /\ c.at = "bundles"
  /\ IF c.drop = {}
     THEN /\ Goes(t, Idle) /\ holder' = {} /\ fits' = TRUE
          /\ UNCHANGED <<bundle>>
     ELSE /\ bundle' = [bundle EXCEPT ![Oldest(c.drop)] = 0]
          /\ Goes(t, [c EXCEPT !.at = "records"])
          /\ UNCHANGED <<holder, fits>>
  /\ UNCHANGED <<clock, record>>

DropRecord(t) ==
  LET c == calls[t] IN
  /\ c.at = "records"
  /\ record' = [record EXCEPT ![Oldest(c.drop)] = NoRecord]
  /\ Goes(t, [c EXCEPT !.at = "bundles", !.drop = @ \ {Oldest(@)}])
  /\ UNCHANGED <<clock, bundle, holder, fits>>

\* delete: whether it is there is looked up before the lock.
BeginDelete(t, s) ==
  /\ calls[t].at = "idle" /\ bundle[s] > 0
  /\ Goes(t, [Idle EXCEPT !.at = "delete", !.id = s])
  /\ UNCHANGED <<clock, bundle, record, holder, fits>>

Delete(t) ==
  LET c == calls[t] IN
  /\ c.at = "delete" /\ holder = {}
  /\ holder' = {t}
  /\ bundle' = [bundle EXCEPT ![c.id] = 0]
  /\ Goes(t, [c EXCEPT !.at = "deleted"])
  /\ UNCHANGED <<clock, record, fits>>

Deleted(t) ==
  /\ calls[t].at = "deleted"
  /\ record' = [record EXCEPT ![calls[t].id] = NoRecord]
  /\ holder' = {} /\ Goes(t, Idle)
  /\ UNCHANGED <<clock, bundle, fits>>

Tick == clock < MaxClock /\ clock' = clock + 1 /\ UNCHANGED <<bundle, record, holder, calls, fits>>

Stop ==
  /\ holder # {}
  /\ holder' = {} /\ calls' = [t \in Requester |-> Idle]
  /\ fits' = (fits /\ \A t \in holder : calls[t].at = "deleted")
  /\ UNCHANGED <<clock, bundle, record>>

Next == \/ \E t \in Requester :
             \/ \E s \in Session : BeginDelete(t, s) \/ \E n \in Size : Arrive(t, s, n)
             \/ PutBundle(t) \/ PutRecord(t) \/ Pick(t) \/ DropBundle(t) \/ DropRecord(t)
             \/ Delete(t) \/ Deleted(t)
        \/ Tick \/ Stop

Spec == Init /\ [][Next]_vars

-----------------------------------------------------------------------------
\* Once an upload has been answered what is listed fits the quota, whatever
\* deletions and stops in a deletion come after, and a stop in an upload before
\* (as the records count: a stop between a repeated upload's bundle and its
\* record leaves the old size); what is dropped for an upload is never it.
QuotaHolds ==
  /\ holder = {} /\ fits => Total(Listed) <= quota_bytes
  /\ \A t \in Requester : calls[t].at = "bundles" => calls[t].id \in Listed

=============================================================================
