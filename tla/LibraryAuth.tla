---------------------------- MODULE LibraryAuth ------------------------------
(***************************************************************************)
(* How a pod without the token store knows a bearer (service/app.py,       *)
(* _introspect): it asks the pod that has it, and remembers the answer for *)
(* a while.  The answer is a snapshot: on its way the token may be         *)
(* revoked, and answers asked for by two requests may be stored in either  *)
(* order.  Of the token store (module Tokens) it takes one thing: what has *)
(* ended stays ended.                                                      *)
(***************************************************************************)
EXTENDS Integers, FiniteSets

CONSTANTS Token,
          Thread,    \* this pod's request threads
          PosTtl,    \* auth_cache_ttl
          NegTtl,    \* auth_neg_ttl
          Hop,       \* longest a question takes, and its answer to be stored
          CacheSize, \* how many answers are remembered before all are forgotten
          MaxTime    \* bound

Never == 0
Forever == MaxTime + 1  \* the end of a token that has none yet

ASSUME AuthAssumption ==
  /\ PosTtl \in Nat /\ NegTtl \in Nat /\ Hop \in Nat /\ CacheSize \in Nat /\ MaxTime \in Nat \ {0}

VARIABLES now,
          ends,   \* when each token was revoked
          cache,  \* auth_cache: an answer and until when it counts
          asks,   \* per thread: the question it is waiting on
          failed, \* history: when the other pod last answered with an error, or Never
          said    \* history: what a caller was told last

vars == <<now, ends, cache, asks, failed, said>>

NoAnswer == [known |-> FALSE, name |-> FALSE, until |-> 0]
Answer == [known : BOOLEAN, name : BOOLEAN, until : Nat]

Idle == [at |-> "idle"]
Ask == [at : {"idle"}] \cup [at : {"sent"}, token : Token, since : Nat]
         \cup [at : {"answered"}, token : Token, since : Nat, name : BOOLEAN]

NoSaid == [at |-> "none"]
Said == [at : {"none"}] \cup [at : {"said"}, token : Token, name : BOOLEAN, when : Nat]

Standing(k) == ends[k] = Forever

Init == /\ now = 1
        /\ ends = [k \in Token |-> Forever]
        /\ cache = [k \in Token |-> NoAnswer]
        /\ asks = [t \in Thread |-> Idle]
        /\ failed = [k \in Token |-> Never]
        /\ said = NoSaid

Says(k, name) == said' = [at |-> "said", token |-> k, name |-> name, when |-> now]

\* A slip of Counts: an answer is kept for good.
CountsForever(k) == cache[k].known

Counts(k) == cache[k].known /\ cache[k].until > now

\* The remembered answer, whatever has become of the token.
Hit(t, k) ==
  /\ asks[t].at = "idle" /\ Counts(k)
  /\ Says(k, cache[k].name)
  /\ UNCHANGED <<now, ends, cache, asks, failed>>

\* Nothing remembered: the question goes out, and nothing is held meanwhile.
Miss(t, k) ==
  /\ asks[t].at = "idle" /\ ~Counts(k)
  /\ asks' = [asks EXCEPT ![t] = [at |-> "sent", token |-> k, since |-> now]]
  /\ UNCHANGED <<now, ends, cache, failed, said>>

\* The pod with the store answers; an error status of any kind is a "no".
Whoami(t) ==
  LET k == asks[t].token IN
  /\ asks[t].at = "sent"
  /\ \E name \in {Standing(k), FALSE} :
       /\ asks' = [asks EXCEPT ![t] = [at |-> "answered", token |-> k, since |-> @.since, name |-> name]]
       /\ failed' = IF name = Standing(k) THEN failed
                    ELSE [failed EXCEPT ![k] = now]
  /\ UNCHANGED <<now, ends, cache, said>>

\* The network fails: a refusal, and nothing is remembered.
Unreachable(t) ==
  /\ asks[t].at \in {"sent", "answered"}
  /\ asks' = [asks EXCEPT ![t] = Idle]
  /\ UNCHANGED <<now, ends, cache, failed, said>>

Lasts(name) == IF name THEN PosTtl ELSE NegTtl

Known == {k \in Token : cache[k].known}

\* Everything is forgotten when it has become too much, then this is put down,
\* over whatever another request put down since this one asked.
Store(t) ==
  LET a == asks[t]
      kept == IF Cardinality(Known) > CacheSize THEN [k \in Token |-> NoAnswer] ELSE cache IN
  /\ a.at = "answered"
  /\ cache' = [kept EXCEPT ![a.token] = [known |-> TRUE, name |-> a.name, until |-> now + Lasts(a.name)]]
  /\ Says(a.token, a.name)
  /\ asks' = [asks EXCEPT ![t] = Idle]
  /\ UNCHANGED <<now, ends, failed>>

\* Somewhere else a token is revoked, retired or expires.
End(k) ==
  /\ Standing(k)
  /\ ends' = [ends EXCEPT ![k] = now]
  /\ UNCHANGED <<now, cache, asks, failed, said>>

\* AUTH_TIMEOUT: no question is out for longer than Hop.
Tick ==
  /\ now < MaxTime
  /\ \A t \in Thread : asks[t].at # "idle" => now < asks[t].since + Hop
  /\ now' = now + 1
  /\ UNCHANGED <<ends, cache, asks, failed, said>>

Next ==
  \/ \E t \in Thread : Whoami(t) \/ Unreachable(t) \/ Store(t)
  \/ \E t \in Thread, k \in Token : Hit(t, k) \/ Miss(t, k)
  \/ \E k \in Token : End(k)
  \/ Tick

Spec == Init /\ [][Next]_vars

-----------------------------------------------------------------------------
\* The shape of the state.
TypeOK ==
  /\ now \in 1..MaxTime
  /\ ends \in [Token -> 1..Forever]
  /\ cache \in [Token -> Answer]
  /\ asks \in [Thread -> Ask]
  /\ failed \in [Token -> 0..MaxTime]
  /\ said \in Said

\* A bearer that is let in stood no longer ago than the cache's time and one
\* question's (_introspect: "a revocation lands here one positive TTL late"),
\* in whatever order the answers were stored.
AcceptedLately ==
  said.at = "said" /\ said.name => said.when <= ends[said.token] + PosTtl + Hop

\* A bearer that stands is refused only because the other pod answered with an
\* error, and not for long: the short time of a refusal, and one question's.
RefusedBriefly ==
  said.at = "said" /\ ~said.name /\ said.when < ends[said.token] =>
    /\ failed[said.token] # Never
    /\ said.when <= failed[said.token] + NegTtl + Hop

=============================================================================
