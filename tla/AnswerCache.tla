---------------------------- MODULE AnswerCache ------------------------------
(***************************************************************************)
(* The proxy's copy of what SteamGridDB answered (service/app.py,          *)
(* _steamgriddb, _cache_get, _cache_put): one question, two files, its     *)
(* kind and its body, each written beside its name and renamed onto it.    *)
(* The name beside it is the same for every writer, so the model has       *)
(* inodes: a second open of the same .part truncates the first one's file. *)
(***************************************************************************)
EXTENDS Integers, FiniteSets

CONSTANTS Thread,
          Payload,   \* what the upstream may answer, from one day to another
          NoPayload,
          MaxAsks, MaxRestarts  \* bounds

Name == {"kind", "body"}
Inode == 1..(2 * Cardinality(Name) + Cardinality(Thread))  \* 0 is none

VARIABLES final,    \* the inode a name is bound to
          part,     \* the inode its .part is bound to
          data,     \* what an inode holds, whole or not
          calls,    \* per thread: where its request is
          asks, restarts,
          served,   \* history: the body served last from the cache
          together  \* history: two threads were storing at once

vars == <<final, part, data, calls, asks, restarts, served, together>>

NoData == [of |-> NoPayload, whole |-> FALSE]
Idle == [at |-> "idle", of |-> NoPayload, name |-> "kind", fd |-> 0]

Init == /\ final = [n \in Name |-> 0]
        /\ part = [n \in Name |-> 0]
        /\ data = [i \in Inode |-> NoData]
        /\ calls = [t \in Thread |-> Idle]
        /\ asks = 0 /\ restarts = 0
        /\ served = NoData
        /\ together = FALSE

Goes(t, call) == calls' = [calls EXCEPT ![t] = call]

Free == CHOOSE i \in Inode : /\ \A n \in Name : i \notin {final[n], part[n]}
                             /\ \A t \in Thread : i # calls[t].fd

Storing(t) == calls[t].at \in {"open", "fill", "replace"}

\* _cache_get: the body first, then its kind.  Either may be missing.
ReadBody(t) ==
  /\ calls[t].at = "idle" /\ asks < MaxAsks
  /\ asks' = asks + 1
  /\ Goes(t, IF final["body"] = 0 THEN [Idle EXCEPT !.at = "ask"]
             ELSE [Idle EXCEPT !.at = "kind", !.fd = final["body"]])
  /\ UNCHANGED <<final, part, data, restarts, served, together>>

\* A hit is the body as it was read; the kind is whichever is there by now.
ReadKind(t) ==
  /\ calls[t].at = "kind"
  /\ IF final["kind"] = 0
     THEN Goes(t, [Idle EXCEPT !.at = "ask"]) /\ UNCHANGED served
     ELSE Goes(t, Idle) /\ served' = data[calls[t].fd]
  /\ UNCHANGED <<final, part, data, asks, restarts, together>>

\* The upstream is asked; only a 200 goes on to be remembered.
Ask(t) ==
  /\ calls[t].at = "ask"
  /\ \/ Goes(t, Idle)
     \/ \E v \in Payload : Goes(t, [Idle EXCEPT !.at = "open", !.of = v])
  /\ UNCHANGED <<final, part, data, asks, restarts, served, together>>

\* write_bytes: opened and truncated, then filled.
Open(t) ==
  LET c == calls[t]
      i == IF part[c.name] = 0 THEN Free ELSE part[c.name] IN
  /\ c.at = "open"
  /\ part' = [part EXCEPT ![c.name] = i]
  /\ data' = [data EXCEPT ![i] = NoData]
  /\ Goes(t, [c EXCEPT !.at = "fill", !.fd = i])
  /\ together' = (together \/ \E u \in Thread \ {t} : Storing(u))
  /\ UNCHANGED <<final, asks, restarts, served>>

Fill(t) ==
  LET c == calls[t] IN
  /\ c.at = "fill"
  /\ data' = [data EXCEPT ![c.fd] = [of |-> c.of, whole |-> TRUE]]
  /\ Goes(t, [c EXCEPT !.at = "replace", !.fd = 0])
  /\ UNCHANGED <<final, part, asks, restarts, served, together>>

\* os.replace, of whatever the .part is now; when another has taken it away
\* the store ends here.  The kind lands first, then the body is begun.
Replace(t) ==
  LET c == calls[t] IN
  /\ c.at = "replace"
  /\ IF part[c.name] = 0
     THEN Goes(t, Idle) /\ UNCHANGED <<final, part>>
     ELSE /\ final' = [final EXCEPT ![c.name] = part[c.name]]
          /\ part' = [part EXCEPT ![c.name] = 0]
          /\ Goes(t, IF c.name = "kind" THEN [c EXCEPT !.at = "open", !.name = "body"] ELSE Idle)
  /\ UNCHANGED <<data, asks, restarts, served, together>>

\* A restart, between any two steps: what is on disk stays.
Restart ==
  /\ restarts < MaxRestarts
  /\ restarts' = restarts + 1
  /\ calls' = [t \in Thread |-> Idle]
  /\ UNCHANGED <<final, part, data, asks, served, together>>

Next == \/ \E t \in Thread : \/ ReadBody(t) \/ ReadKind(t) \/ Ask(t)
                             \/ Open(t) \/ Fill(t) \/ Replace(t)
        \/ Restart

Spec == Init /\ [][Next]_vars

-----------------------------------------------------------------------------
\* A body that can be seen has a kind, however the storing was cut short; and
\* as long as no two requests were storing the same answer at once, what is
\* in the cache is whole (_cache_put: "atomically", "the kind lands first so a
\* reader who can see the body can always see its type").
CacheIsWhole ==
  /\ final["body"] # 0 => final["kind"] # 0
  /\ ~together => /\ \A n \in Name : final[n] # 0 => data[final[n]].whole
                  /\ served # NoData => served.whole
=============================================================================
