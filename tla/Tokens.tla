------------------------------- MODULE Tokens --------------------------------
(***************************************************************************)
(* The service's per-person tokens (gotg/tokens.py) and the request that   *)
(* is let in by one.  An invite is a code that mints one token; a token is *)
(* a row that is live until it is revoked, or retired by a later claim of  *)
(* its name.  Every write is one transaction under the store's lock; reads *)
(* take no lock, and every operation reads the clock before either, so a   *)
(* call may land with a clock that others have left behind.                *)
(*                                                                         *)
(* mint_invite and issue read the clock too, but use it only to set an     *)
(* expiry: landing late is landing now with a shorter time to live, so     *)
(* they are single steps.                                                  *)
(***************************************************************************)
EXTENDS Integers

CONSTANTS Thread,      \* request threads
          Code,        \* invite codes, each minted at most once
          Token,       \* tokens, each minted at most once
          Name,        \* token names ("daniel-deck")
          User,        \* whose saves ("daniel")
          DefaultUser, \* default_user: the person half of a name
          InviteTtl,   \* how long an invite may be minted for
          TokenTtl,    \* how long a token may live; Never is no limit
          Interval,    \* LAST_USED_INTERVAL
          MaxTime,     \* bound: how far the clock goes
          MaxAsks      \* bound: calls asked for

Never == 0
NoCode == "none"

ASSUME TokensAssumption ==
  /\ NoCode \notin Code
  /\ DefaultUser \in [Name -> User]
  /\ InviteTtl \subseteq Nat
  /\ TokenTtl \subseteq Nat
  /\ Interval \in Nat \ {0}
  /\ MaxTime \in Nat /\ MaxAsks \in Nat

VARIABLES clock,     \* the service's wall clock, in seconds
          invites,   \* the table of invites, by code
          tokens,    \* the table of tokens, by token
          call,      \* per thread: the operation it is in
          asks,      \* how much of MaxAsks is used
          answered,  \* history: open invites that a revocation of their name has met
          origin,    \* history: the claim a token came from
          seen       \* history: when each token was last let in

history == <<answered, origin, seen>>
vars == <<clock, invites, tokens, call, asks, history>>

NoInvite == [st |-> "none"]
NoRow == [st |-> "none"]

Invite == [st : {"open", "claimed"}, name : Name, user : User,
           expires : Nat, ttl : Nat]
Row == [st : {"live", "retired"}, name : Name, user : User,
        expires : Nat, last : Nat]

Live(t) == tokens[t].st = "live"

Idle == [op |-> "idle"]

Init == /\ clock = 1
        /\ invites = [c \in Code |-> NoInvite]
        /\ tokens = [t \in Token |-> NoRow]
        /\ call = [h \in Thread |-> Idle]
        /\ asks = 0
        /\ answered = {}
        /\ origin = [t \in Token |-> [code |-> NoCode, late |-> FALSE, over |-> FALSE]]
        /\ seen = [t \in Token |-> Never]

Expiry(now, ttl) == IF ttl = Never THEN Never ELSE now + ttl

NewRow(n, u, expires) == [st |-> "live", name |-> n, user |-> u,
                          expires |-> expires, last |-> Never]

Unused(t) == tokens[t].st = "none"

OneMoreCall == asks < MaxAsks /\ asks' = asks + 1

\* A thread takes up an operation: it has read the clock, and no more.
Take(h, operation) == /\ call[h].op = "idle"
                      /\ call' = [call EXCEPT ![h] = operation]
                      /\ OneMoreCall

-----------------------------------------------------------------------------
(* Invites *)

MintInvite(c) ==
  /\ invites[c].st = "none"
  /\ OneMoreCall
  /\ \E n \in Name, u \in User, ttl \in InviteTtl, tokenTtl \in TokenTtl :
       invites' = [invites EXCEPT ![c] =
                     [st |-> "open", name |-> n, user |-> u,
                      expires |-> clock + ttl, ttl |-> tokenTtl]]
  /\ UNCHANGED <<clock, tokens, call, history>>

\* claim() has read the clock and is at the lock.
AskClaim(h, c) ==
  /\ invites[c].st # "none"
  /\ Take(h, [op |-> "claim", code |-> c, now |-> clock, late |-> c \in answered])
  /\ UNCHANGED <<clock, invites, tokens, history>>

\* A slip of Claimable: only the expiry is asked for.
ClaimableAgain(c, now) == invites[c].st # "none" /\ invites[c].expires > now

\* The UPDATE's predicate.
Claimable(c, now) == invites[c].st = "open" /\ invites[c].expires > now

\* A slip of Holders: a retired row will do.
HoldersEver(n) == {t \in Token : ~Unused(t) /\ tokens[t].name = n}

\* The name's live rows: at most one.
Holders(n) == {t \in Token : Live(t) /\ tokens[t].name = n}

\* A slip of Retired: only the rows that have been used are retired.
RetiredUsed(n) == [t \in Token |-> IF t \in Holders(n) /\ tokens[t].last # Never
                                   THEN [tokens[t] EXCEPT !.st = "retired"]
                                   ELSE tokens[t]]

\* The table with the name's live token retired; no row is ever deleted.
Retired(n) == [t \in Token |-> IF t \in Holders(n)
                               THEN [tokens[t] EXCEPT !.st = "retired"]
                               ELSE tokens[t]]

\* One transaction: the invite is consumed, the old token retired and the new
\* one inserted.  The unique index on live names is left out: OneLivePerName
\* shows that this insert never meets it.
Claim(h) ==
  /\ call[h].op = "claim"
  /\ LET c == call[h].code
         i == invites[c]
     IN /\ Claimable(c, call[h].now)
        /\ \E t \in Token :
             /\ Unused(t)
             /\ tokens' = [Retired(i.name) EXCEPT ![t] =
                            NewRow(i.name, i.user, Expiry(call[h].now, i.ttl))]
             /\ origin' = [origin EXCEPT ![t] = [code |-> c, late |-> call[h].late,
                                                 over |-> c \in answered]]
        /\ invites' = [invites EXCEPT ![c].st = "claimed"]
  /\ call' = [call EXCEPT ![h] = Idle]
  /\ UNCHANGED <<asks, clock, answered, seen>>

ClaimRefused(h) ==
  /\ call[h].op = "claim"
  /\ ~Claimable(call[h].code, call[h].now)
  /\ call' = [call EXCEPT ![h] = Idle]
  /\ UNCHANGED <<asks, clock, invites, tokens, history>>

\* A signed-in person's token, with a name of its own; a name drawn twice is
\* refused by the index, and the request fails.
Issue(t) ==
  /\ Unused(t)
  /\ OneMoreCall
  /\ \E n \in Name, u \in User, ttl \in TokenTtl :
       /\ Holders(n) = {}
       /\ tokens' = [tokens EXCEPT ![t] = NewRow(n, u, Expiry(clock, ttl))]
  /\ UNCHANGED <<clock, invites, call, history>>

-----------------------------------------------------------------------------
(* Revoking a name *)

AskRevoke(h, n) ==
  /\ Take(h, [op |-> "revoke", name |-> n, now |-> clock])
  /\ UNCHANGED <<clock, invites, tokens, history>>

\* A slip of ToClose: every name's invites.
ToCloseAll(n, now) == {c \in Code : Claimable(c, now)}

\* A slip of ToClose: the invites that are about to expire are left to it.
ToCloseLasting(n, now) == {c \in Code : Claimable(c, now + 1) /\ invites[c].name = n}

\* The name's outstanding invites: each would mint the token a replacement.
ToClose(n, now) == {c \in Code : Claimable(c, now) /\ invites[c].name = n}

Revoke(h) ==
  /\ call[h].op = "revoke"
  /\ LET n == call[h].name
         closed == ToClose(n, call[h].now)
     IN /\ tokens' = Retired(n)
        /\ invites' = [c \in Code |-> IF c \in closed
                                      THEN [invites[c] EXCEPT !.st = "claimed"]
                                      ELSE invites[c]]
        /\ answered' = IF closed = {} /\ Holders(n) = {} THEN answered
                       ELSE answered \cup {c \in Code : invites[c].st = "open"
                                                        /\ invites[c].name = n}
  /\ call' = [call EXCEPT ![h] = Idle]
  /\ UNCHANGED <<asks, clock, origin, seen>>

-----------------------------------------------------------------------------
(* A request: who it is, when that token was last used, whose saves *)

AskVerify(h, t) ==
  /\ ~Unused(t)
  /\ Take(h, [op |-> "verify", token |-> t, now |-> clock])
  /\ UNCHANGED <<clock, invites, tokens, history>>

Expired(t, now) == tokens[t].expires # Never /\ tokens[t].expires <= now

\* Whether a use at this time is worth a write.
Stale(t, now) == tokens[t].last = Never \/ now - tokens[t].last >= Interval

Later(a, b) == IF a < b THEN b ELSE a

\* The row is read, without the lock.
Verify(h) ==
  /\ call[h].op = "verify"
  /\ LET t == call[h].token
         now == call[h].now
     IN \/ /\ ~Live(t) \/ Expired(t, now)
           /\ call' = [call EXCEPT ![h] = Idle]
           /\ UNCHANGED seen
        \/ /\ Live(t) /\ ~Expired(t, now)
           /\ call' = [call EXCEPT ![h] = [op |-> IF Stale(t, now) THEN "touch" ELSE "lookup",
                                           token |-> t, name |-> tokens[t].name,
                                           now |-> now]]
           /\ seen' = [seen EXCEPT ![t] = Later(seen[t], now)]
  /\ UNCHANGED <<asks, clock, invites, tokens, answered, origin>>

\* A slip of Due: the throttle's boundary.
DuePast(t, n, now) == /\ ~Unused(t) /\ tokens[t].name = n
                      /\ tokens[t].last = Never \/ tokens[t].last < now - Interval

\* The rows a touch writes: the name's, live or retired.
Due(t, n, now) == /\ ~Unused(t) /\ tokens[t].name = n
                  /\ tokens[t].last = Never \/ tokens[t].last <= now - Interval

Touch(h) ==
  /\ call[h].op = "touch"
  /\ tokens' = [t \in Token |-> IF Due(t, call[h].name, call[h].now)
                                THEN [tokens[t] EXCEPT !.last = call[h].now]
                                ELSE tokens[t]]
  /\ call' = [call EXCEPT ![h].op = "lookup"]
  /\ UNCHANGED <<asks, clock, invites, history>>

\* user_for, a second read: the name may have been revoked since, or claimed
\* again by somebody else.
Lookup(h) ==
  /\ call[h].op = "lookup"
  /\ LET t == call[h].token
         n == call[h].name
     IN \E u \in IF Holders(n) = {} THEN {DefaultUser[n]}
                 ELSE {tokens[o].user : o \in Holders(n)} :
          call' = [call EXCEPT ![h] = [op |-> "serve", token |-> t, user |-> u,
                                       held |-> Live(t)]]
  /\ UNCHANGED <<asks, clock, invites, tokens, history>>

Answer(h) ==
  /\ call[h].op = "serve"
  /\ call' = [call EXCEPT ![h] = Idle]
  /\ UNCHANGED <<asks, clock, invites, tokens, history>>

Tick == /\ clock < MaxTime
        /\ clock' = clock + 1
        /\ UNCHANGED <<asks, invites, tokens, call, history>>

Next == \/ \E c \in Code : MintInvite(c)
        \/ \E t \in Token : Issue(t)
        \/ \E h \in Thread :
             \/ \E c \in Code : AskClaim(h, c)
             \/ \E n \in Name : AskRevoke(h, n)
             \/ \E t \in Token : AskVerify(h, t)
             \/ Claim(h) \/ ClaimRefused(h) \/ Revoke(h)
             \/ Verify(h) \/ Touch(h) \/ Lookup(h) \/ Answer(h)
        \/ Tick

Spec == Init /\ [][Next]_vars

-----------------------------------------------------------------------------
(* Properties *)

ClaimCall == [op : {"claim"}, code : Code, now : Nat, late : BOOLEAN]
RevokeCall == [op : {"revoke"}, name : Name, now : Nat]
VerifyCall == [op : {"verify"}, token : Token, now : Nat]
UseCall == [op : {"touch", "lookup"}, token : Token, name : Name, now : Nat]
ServeCall == [op : {"serve"}, token : Token, user : User, held : BOOLEAN]

Call == {Idle} \cup ClaimCall \cup RevokeCall \cup VerifyCall \cup UseCall \cup ServeCall

\* Every variable has its type.
TypeOK ==
  /\ clock \in Nat
  /\ invites \in [Code -> Invite \cup {NoInvite}]
  /\ tokens \in [Token -> Row \cup {NoRow}]
  /\ call \in [Thread -> Call]
  /\ asks \in Nat
  /\ answered \subseteq Code
  /\ origin \in [Token -> [code : Code \cup {NoCode}, late : BOOLEAN, over : BOOLEAN]]
  /\ seen \in [Token -> Nat]

\* At most one live token per name, which the claim's own retirement keeps: its
\* insert never meets the unique index, so a rotation never fails.
OneLivePerName ==
  \A t, o \in Token : Live(t) /\ Live(o) /\ tokens[t].name = tokens[o].name => t = o

\* However many claims of one code are in flight, at most one token comes of it.
ClaimedOnce ==
  \A t, o \in Token : origin[t].code = origin[o].code /\ origin[t].code # NoCode => t = o

\* A code is spent on a token, or closed by a revocation of its own name:
\* nothing else burns it.
SpentOnSomething ==
  \A c \in Code : invites[c].st = "claimed" =>
    c \in answered \/ \E t \in Token : origin[t].code = c

\* A claim that begins once a revocation of its name has been answered mints
\* nothing from an invite that revocation met.
RevokedFirst == \A t \in Token : ~origin[t].late

\* What revoke() says: no invite outlives the revocation that answered it.  A
\* claim that read the clock before the invite's last second, and waited for
\* the lock while a revocation read it after, still mints.
RevocationIsFinal == \A t \in Token : ~origin[t].over

\* Once a use's write has landed, the row says the token was used less than an
\* interval before its true last use, however the touches of several requests
\* and a rotation interleave.
SeenLately ==
  \A t \in Token :
    seen[t] # Never /\ (\A h \in Thread : call[h].op = "touch" => call[h].token # t)
      => tokens[t].last # Never /\ tokens[t].last > seen[t] - Interval

\* What the schema keeps retired rows for: a row's last use is its own.  The
\* touch is by name, so the next token's use moves the retired one's row.
LastSeenIsOwn == \A t \in Token : ~Unused(t) => tokens[t].last <= seen[t]

\* A request whose token still stands when its user is looked up is served
\* from that token's own saves, though the lookup is by name.
NamespaceIsOwn ==
  \A h \in Thread : call[h].op = "serve" /\ call[h].held =>
    call[h].user = tokens[call[h].token].user
=============================================================================
