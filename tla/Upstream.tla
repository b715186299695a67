------------------------------ MODULE Upstream -------------------------------
(***************************************************************************)
(* The proxy's calls to an upstream (service/app.py, ratelimit.py,         *)
(* token_cache.py): a request gets the upstream's access token, minting    *)
(* one under a lock when the one at hand is nearly out, then a slot of the *)
(* token bucket, sleeps until the slot is due, and calls.                  *)
(*                                                                         *)
(* The bucket counts in ticks: a slot costs Period of them, one comes back *)
(* with each tick, and the bucket holds Burst slots.  Its clock is read    *)
(* before its lock is taken, so a thread may reserve with a clock that     *)
(* others have left behind, and put the bucket's own clock back.           *)
(***************************************************************************)
EXTENDS Integers

CONSTANTS Thread,    \* request threads
          Period,    \* ticks between two slots: 1 / rate
          Burst,     \* slots a full bucket holds
          MaxWait,   \* upstream_wait: the longest sleep a request accepts
          Lag,       \* longest between reading the clock and reserving
          Lifetimes, \* expires_in, as the upstream may give it
          Margin,    \* REFRESH_MARGIN, longer than MaxWait and Lag
          Nobody,
          MaxTime    \* bound

VARIABLES now,
          credit, updated, \* the bucket, and its clock
          token,           \* the cached token: until when, and for how long it was given
          lock,            \* the token cache's
          calls,           \* per thread: where its request is
          slots,           \* history: how many slots are due by each time
          needless,        \* history: an exchange that threw away a token with time left
          outdated         \* history: a call made with a token that was out

bucket == <<credit, updated, slots>>
vars == <<now, token, lock, calls, needless, outdated, bucket>>

Idle == [at |-> "idle"]
NoToken == [until |-> 0, given |-> 0]

Init == /\ now = 1
        /\ credit = Burst * Period /\ updated = 1
        /\ token = NoToken
        /\ lock = Nobody
        /\ calls = [t \in Thread |-> Idle]
        /\ slots = [n \in 0..(MaxTime + MaxWait) |-> 0]
        /\ needless = FALSE /\ outdated = FALSE

Goes(t, call) == calls' = [calls EXCEPT ![t] = call]

\* TokenCache.get, to the lock.
AskToken(t) ==
  /\ calls[t].at = "idle" /\ lock = Nobody
  /\ lock' = t
  /\ Goes(t, [at |-> "token"])
  /\ UNCHANGED <<now, token, needless, outdated, bucket>>

Fresh == now < token.until - Margin

\* A token with time left is returned at once.
Reuse(t) ==
  /\ calls[t].at = "token" /\ Fresh
  /\ lock' = Nobody
  /\ Goes(t, [at |-> "unpaced", until |-> token.until, given |-> token.given])
  /\ UNCHANGED <<now, token, needless, outdated, bucket>>

\* One is minted otherwise, with the lock held through the conversation: it
\* answers, with what it likes, or the request is a 502.
Exchange(t) ==
  /\ calls[t].at = "token" /\ ~Fresh
  /\ Goes(t, [at |-> "exchange"])
  /\ UNCHANGED <<now, token, lock, needless, outdated, bucket>>

Exchanged(t) ==
  /\ calls[t].at = "exchange"
  /\ lock' = Nobody
  /\ \/ \E life \in Lifetimes :
          /\ token' = [until |-> now + life, given |-> life]
          /\ Goes(t, [at |-> "unpaced", until |-> now + life, given |-> life])
          /\ needless' = (needless \/ Fresh)
     \/ Goes(t, Idle) /\ UNCHANGED <<token, needless>>
  /\ UNCHANGED <<now, outdated, bucket>>

\* RateLimiter.reserve, to the lock: the clock is read.
ReadClock(t) ==
  /\ calls[t].at = "unpaced"
  /\ Goes(t, [at |-> "reserve", clock |-> now, until |-> calls[t].until, given |-> calls[t].given])
  /\ UNCHANGED <<now, token, lock, needless, outdated, bucket>>

\* A slip of Refilled: the bucket has no rim.
RefilledOver(clock) == credit + clock - updated

Refilled(clock) == LET c == credit + clock - updated IN IF c > Burst * Period THEN Burst * Period ELSE c

Delay(c) == IF c >= Period THEN 0 ELSE Period - c

\* A slot is taken now, into the negative, and paid for by the sleep; one too
\* far away is refused (429), the refill kept.
Reserve(t) ==
  LET c == Refilled(calls[t].clock)
      d == Delay(c) IN
  /\ calls[t].at = "reserve"
  /\ updated' = calls[t].clock
  /\ \/ /\ d > MaxWait
        /\ credit' = c /\ Goes(t, Idle) /\ UNCHANGED slots
     \/ /\ d <= MaxWait
        /\ credit' = c - Period
        /\ slots' = [n \in DOMAIN slots |-> IF n >= now + d THEN slots[n] + 1 ELSE slots[n]]
        /\ Goes(t, [at |-> "asleep", wakes |-> now + d, until |-> calls[t].until, given |-> calls[t].given])
  /\ UNCHANGED <<now, token, lock, needless, outdated>>

\* The call itself.  A token is out although it had its margin: never; the
\* upstream may have given less than the margin.
Call(t) ==
  /\ calls[t].at = "asleep" /\ calls[t].wakes <= now
  /\ outdated' = (outdated \/ (calls[t].until <= now /\ calls[t].given > Margin))
  /\ Goes(t, Idle)
  /\ UNCHANGED <<now, token, lock, needless, bucket>>

\* A thread that has read the clock reserves within Lag, one that is due calls.
Tick ==
  /\ now < MaxTime
  /\ \A t \in Thread : /\ calls[t].at = "reserve" => now < calls[t].clock + Lag
                       /\ calls[t].at = "asleep" => now < calls[t].wakes
                       /\ calls[t].at # "unpaced"
  /\ now' = now + 1
  /\ UNCHANGED <<token, lock, calls, needless, outdated, bucket>>

Next == \/ \E t \in Thread : \/ AskToken(t) \/ Reuse(t) \/ Exchange(t) \/ Exchanged(t)
                             \/ ReadClock(t) \/ Reserve(t) \/ Call(t)
        \/ Tick

Spec == Init /\ [][Next]_vars

-----------------------------------------------------------------------------
Due(from, to) == slots[to] - slots[from - 1]

\* In no stretch of time are more slots due than a full bucket and what the
\* rate adds in it, and in the little time clocks may be behind.
Pace ==
  \A from \in DOMAIN slots \ {0} : \A to \in from..(MaxTime + MaxWait) :
    Due(from, to) <= Burst + (to - from + Lag) \div Period

\* A token is minted once for all who wait for it, and no call is made with one
\* whose time ran out while its request slept (token_cache.py, REFRESH_MARGIN).
TokenServes == ~needless /\ ~outdated

=============================================================================
