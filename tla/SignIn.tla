------------------------------- MODULE SignIn --------------------------------
(***************************************************************************)
(* Signing in (service/oauth.py, service/routes_oauth.py): a browser goes  *)
(* to the identity provider with a state and comes back with it; a device  *)
(* without a browser shows a code that somebody signed in approves, and    *)
(* polls for its token.  Both wait in bounded, expiring maps in memory.    *)
(* What comes out is an ordinary token of the token store (module Tokens); *)
(* here a token is whose it is, what minted it and whether it was revoked  *)
(* (it outlives a code by weeks, so its own expiry is left to Tokens).     *)
(*                                                                         *)
(* Taking an entry from a map is one step under the map's lock.  Nothing   *)
(* else is: an approval finds an entry and writes on it later, a poll      *)
(* reads it and takes it later, and each mints later still.                *)
(***************************************************************************)
EXTENDS Integers, Sequences, FiniteSets

CONSTANTS Person,     \* identities the provider may name: [login, email, local, domain, subject]
          Allowlist,  \* oidc_allowlist: logins, emails and domains
          State,      \* login states, each random and used once
          Device,     \* device codes, each with a user code of its own
          Browser,
          Thread,     \* request threads
          MaxPending, \* MAX_PENDING
          Ttl,        \* STATE_TTL and DEVICE_TTL
          NoState, NoPerson,
          MaxTokens, MaxRestarts, MaxTime  \* bounds

VARIABLES now,
          states,    \* the map of login states
          devices,   \* the map of device codes
          browsers,  \* per browser: its state cookie and its session cookie
          minted,    \* every token minted, in order
          calls,     \* per thread: the request it is in
          restarts,
          approvals, \* history: who was told they had approved which device
          returns    \* history: whom the provider named for which state

vars == <<now, states, devices, browsers, minted, calls, restarts, approvals, returns>>

-----------------------------------------------------------------------------
(* Who somebody is.  A provider gives a login, an e-mail it has verified (of *)
(* which local is the part before the "@", and domain the rest) and a        *)
(* subject; the first two may be missing.  Of a name the code reads its text *)
(* (in lower case, "" when missing), whether its slug is the text itself and *)
(* fit to be a user's (plain), the words the slug has between its dashes     *)
(* (slug), those of its first 14 characters, "u" when there are none         *)
(* (short), and the first 5 hex digits of the text's hash (digest).          *)

First(a, b, c) == IF a.text # "" THEN a ELSE IF b.text # "" THEN b ELSE c

Allowed(p) == ({p.login.text, p.email.text, p.domain} \ {""}) \cap Allowlist # {}

\* A slug the sanitizer had to alter carries a hash; and what is made into a slug
\* and what is hashed differ for somebody who has no login.
UserSlug(p) ==
  LET raw == First(p.login, p.local, p.subject)
      hashed == First(p.login, p.email, p.subject)
  IN IF raw.plain THEN raw.slug ELSE Append(raw.short, hashed.digest)

-----------------------------------------------------------------------------
(* The maps.  "new" is a random key nobody has drawn yet. *)

NoEntry == [at |-> "new", until |-> 0, user |-> NoPerson]

Live(e) == e.at = "in" /\ e.until > now

Swept(map) ==
  [k \in DOMAIN map |-> IF map[k].at = "in" /\ ~Live(map[k])
                        THEN [map[k] EXCEPT !.at = "gone"] ELSE map[k]]

Pending(map) == {k \in DOMAIN map : map[k].at = "in"}

Room(map) == Cardinality(Pending(Swept(map))) < MaxPending

Put(map, k) == [Swept(map) EXCEPT ![k] = [at |-> "in", until |-> now + Ttl, user |-> NoPerson]]

Popped(map, k) == [map EXCEPT ![k].at = "gone"]

Stands(i) == i \in DOMAIN minted /\ ~minted[i].revoked

Mint(kind, user, of) ==
  /\ Len(minted) < MaxTokens
  /\ minted' = Append(minted, [kind |-> kind, user |-> user, of |-> of, revoked |-> FALSE])

Idle == [at |-> "idle", of |-> NoState, by |-> NoState, user |-> NoPerson]

Goes(t, call) == calls' = [calls EXCEPT ![t] = call]

Init == /\ now = 1
        /\ states = [s \in State |-> NoEntry]
        /\ devices = [d \in Device |-> NoEntry]
        /\ browsers = [b \in Browser |-> [state |-> NoState, session |-> 0]]
        /\ minted = <<>>
        /\ calls = [t \in Thread |-> Idle]
        /\ restarts = 0
        /\ approvals = {}
        /\ returns = {}

-----------------------------------------------------------------------------
(* The browser. *)

\* GET /auth/login: the state is kept before the provider's endpoints are
\* asked for, and stays when they cannot be had; the cookie goes out with the
\* redirect only.
Login(b, s) ==
  /\ states[s].at = "new"
  /\ \/ /\ ~Room(states)
        /\ states' = Swept(states) /\ UNCHANGED browsers
     \/ /\ Room(states)
        /\ states' = Put(states, s)
        /\ \/ browsers' = [browsers EXCEPT ![b].state = s]
           \/ UNCHANGED browsers
  /\ UNCHANGED <<now, devices, minted, calls, restarts, approvals, returns>>

\* GET /auth/callback, to the pop: a state that is not the cookie's is refused
\* before anything is touched.  What is popped is gone, used or not.
Callback(t, b) ==
  LET s == browsers[b].state IN
  /\ calls[t].at = "idle" /\ s # NoState
  /\ states' = Popped(states, s)
  /\ \/ Live(states[s]) /\ Goes(t, [Idle EXCEPT !.at = "identify", !.of = s, !.by = b])
     \/ UNCHANGED calls
  /\ UNCHANGED <<now, devices, browsers, minted, restarts, approvals, returns>>

\* The rest of it: the code is exchanged, and the person is on the list or not.
Identified(t) ==
  LET c == calls[t] IN
  /\ c.at = "identify"
  /\ Goes(t, Idle)
  /\ \/ UNCHANGED <<minted, browsers, returns>>
     \/ \E p \in Person :
          /\ Allowed(p)
          /\ Mint("web", UserSlug(p), c.of)
          /\ returns' = returns \cup {<<c.of, p>>}
          /\ browsers' = [browsers EXCEPT ![c.by] = [state |-> NoState, session |-> Len(minted) + 1]]
  /\ UNCHANGED <<now, states, devices, restarts, approvals>>

Revoke(i) ==
  /\ Stands(i)
  /\ minted' = [minted EXCEPT ![i].revoked = TRUE]

\* POST /auth/logout, and a revocation by the admin.
Logout(b) ==
  /\ browsers[b].session # 0
  /\ \/ Revoke(browsers[b].session)
     \/ ~Stands(browsers[b].session) /\ UNCHANGED minted
  /\ browsers' = [browsers EXCEPT ![b].session = 0]
  /\ UNCHANGED <<now, states, devices, calls, restarts, approvals, returns>>

\* (What is revoked of a session; the rest of a revocation is in Tokens.)
AdminRevoke(b) ==
  /\ Revoke(browsers[b].session)
  /\ UNCHANGED <<now, states, devices, browsers, calls, restarts, approvals, returns>>

\* What a route that needs a session begins with: the cookie's token is
\* verified and its person looked up.
Session(t, b, at) ==
  /\ calls[t].at = "idle" /\ Stands(browsers[b].session)
  /\ Goes(t, [Idle EXCEPT !.at = at, !.by = b, !.user = minted[browsers[b].session].user])
  /\ UNCHANGED <<now, states, devices, browsers, minted, restarts, approvals, returns>>

\* POST /auth/bearer: a short token for a byte host on another origin.
Bearer(t) ==
  /\ calls[t].at = "bearer"
  /\ Mint("play", calls[t].user, NoState)
  /\ Goes(t, Idle)
  /\ UNCHANGED <<now, states, devices, browsers, restarts, approvals, returns>>

-----------------------------------------------------------------------------
(* The device. *)

DeviceStart(d) ==
  /\ devices[d].at = "new"
  /\ devices' = IF Room(devices) THEN Put(devices, d) ELSE Swept(devices)
  /\ UNCHANGED <<now, states, browsers, minted, calls, restarts, approvals, returns>>

\* poll_device: an entry somebody has approved is taken in a second step.
\* (When it last asked only chooses between two ways of saying "not yet".)
Poll(t, d) ==
  /\ calls[t].at = "idle" /\ Live(devices[d]) /\ devices[d].user # NoPerson
  /\ Goes(t, [Idle EXCEPT !.at = "take", !.of = d])
  /\ UNCHANGED <<now, states, devices, browsers, minted, restarts, approvals, returns>>

\* A slip of Take: whoever comes second has read the entry before it went.
TakeTwice(t) ==
  LET d == calls[t].of IN
  /\ calls[t].at = "take"
  /\ devices' = Popped(devices, d)
  /\ Goes(t, [calls[t] EXCEPT !.at = "mint", !.user = devices[d].user])
  /\ UNCHANGED <<now, states, browsers, minted, restarts, approvals, returns>>

Take(t) ==
  LET d == calls[t].of IN
  /\ calls[t].at = "take"
  /\ devices' = Popped(devices, d)
  /\ Goes(t, IF Live(devices[d])
             THEN [calls[t] EXCEPT !.at = "mint", !.user = devices[d].user] ELSE Idle)
  /\ UNCHANGED <<now, states, browsers, minted, restarts, approvals, returns>>

\* The token is minted after its code is gone: when that fails, both are.
MintCli(t) ==
  /\ calls[t].at = "mint"
  /\ Mint("cli", calls[t].user, calls[t].of) \/ UNCHANGED minted
  /\ Goes(t, Idle)
  /\ UNCHANGED <<now, states, devices, browsers, restarts, approvals, returns>>

\* approve_device: the entry is found under the lock, by somebody whose
\* session was read before.
Find(t, d) ==
  /\ calls[t].at = "find"
  /\ Goes(t, IF Live(devices[d]) /\ devices[d].user = NoPerson
             THEN [calls[t] EXCEPT !.at = "set", !.of = d] ELSE Idle)
  /\ UNCHANGED <<now, states, devices, browsers, minted, restarts, approvals, returns>>

\* It is written on without the lock, in the map or not, and the person is
\* told that it is done.
Set(t) ==
  LET c == calls[t] IN
  /\ c.at = "set"
  /\ devices' = [devices EXCEPT ![c.of].user = c.user]
  /\ approvals' = approvals \cup {<<c.of, c.user>>}
  /\ Goes(t, Idle)
  /\ UNCHANGED <<now, states, browsers, minted, restarts, returns>>

-----------------------------------------------------------------------------
\* The maps and the requests are memory; the tokens and the cookies are not.
Restart ==
  /\ restarts < MaxRestarts
  /\ restarts' = restarts + 1
  /\ calls' = [t \in Thread |-> Idle]
  /\ states' = [s \in State |-> IF states[s].at = "in" THEN Popped(states, s)[s] ELSE states[s]]
  /\ devices' = [d \in Device |-> IF devices[d].at = "in" THEN Popped(devices, d)[d] ELSE devices[d]]
  /\ UNCHANGED <<now, browsers, minted, approvals, returns>>

Tick ==
  /\ now < MaxTime
  /\ now' = now + 1
  /\ UNCHANGED <<states, devices, browsers, minted, calls, restarts, approvals, returns>>

Next ==
  \/ \E b \in Browser, s \in State : Login(b, s)
  \/ \E t \in Thread, b \in Browser :
       Callback(t, b) \/ Session(t, b, "find") \/ Session(t, b, "bearer")
  \/ \E t \in Thread : Identified(t) \/ Bearer(t) \/ Take(t) \/ MintCli(t) \/ Set(t)
  \/ \E t \in Thread, d \in Device : Poll(t, d) \/ Find(t, d)
  \/ \E d \in Device : DeviceStart(d)
  \/ \E b \in Browser : Logout(b) \/ AdminRevoke(b)
  \/ Restart
  \/ Tick

Spec == Init /\ [][Next]_vars

-----------------------------------------------------------------------------
\* However polls of one device or callbacks of one state race, expire and
\* repeat, each mints at most one token (poll_device: "whoever pops it first
\* gets the token"; states are popped).
OneTokenPerCode ==
  \A i, j \in DOMAIN minted :
    /\ minted[i].of = minted[j].of
    /\ minted[i].of # NoState
    => i = j

\* A device's token is for somebody who was told that they had approved that
\* device, and a browser's for the one person on the allowlist the provider
\* named for its state, under that person's name; whatever was approved, taken or forgotten between.
TokensAreGranted ==
  \A i \in DOMAIN minted :
    LET m == minted[i] IN
    /\ m.kind = "cli" => <<m.of, m.user>> \in approvals
    /\ m.kind = "web" => \E p \in Person : <<m.of, p>> \in returns /\ Allowed(p) /\ m.user = UserSlug(p)

\* Every token of one user goes back to one person (user_slug: "two different
\* people cannot land in one person's saves by sanitizing alike").  It does not
\* hold, and SignInIsSound does not have it: two people without a login whose
\* e-mails have one plain local part are one user, and so are two whose hashes
\* begin alike, or one whose login is another's slug and hash.
UserIsOnePerson ==
  \A i \in DOMAIN minted :
    Cardinality({r[2] : r \in {x \in returns : UserSlug(x[2]) = minted[i].user}}) = 1

\* No flood of logins fills a map past its bound (oauth.py, MAX_PENDING).
MapsAreBounded == \A map \in {states, devices} : Cardinality(Pending(map)) <= MaxPending

\* Whoever a token names, however many sessions, codes and requests it went through,
\* somebody on the allowlist came back from the provider under that name.
UsersSignedIn ==
  \A i \in DOMAIN minted : \E r \in returns : Allowed(r[2]) /\ minted[i].user = UserSlug(r[2])

SignInIsSound == OneTokenPerCode /\ TokensAreGranted /\ UsersSignedIn /\ MapsAreBounded

=============================================================================
