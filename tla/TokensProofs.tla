---------------------------- MODULE TokensProofs -----------------------------
(***************************************************************************)
(* The token store for every number of threads, codes, tokens and names,   *)
(* every time to live and every throttle: one live token per name and per  *)
(* code, nothing minted from what a finished revocation closed, last uses  *)
(* written within the throttle, requests served from their own saves.      *)
(***************************************************************************)
EXTENDS Tokens, TLAPS

Minted(c) == invites[c].st # "none"

\* The clock is past Never, and no call has read a later one.
ClockInv ==
  /\ clock >= 1
  /\ \A h \in Thread :
       call[h].op \in {"claim", "revoke", "verify", "touch", "lookup"} =>
         1 <= call[h].now /\ call[h].now <= clock

\* A row that came of a claim is there, and the claim spent the code.
OriginInv ==
  \A t \in Token : origin[t].code # NoCode =>
    /\ ~Unused(t)
    /\ invites[origin[t].code].st = "claimed"

\* What a revocation met is closed, or had expired when it came by.
AnsweredInv ==
  \A c \in answered : Minted(c) /\ ~Claimable(c, clock)

\* A claim that began after such a revocation will be refused.
LateInv ==
  \A h \in Thread : call[h].op = "claim" =>
    /\ Minted(call[h].code)
    /\ call[h].late => ~Claimable(call[h].code, call[h].now)

\* A request's token is a row, of the name the request goes on with.
CallInv ==
  \A h \in Thread :
    /\ call[h].op \in {"verify", "touch", "lookup", "serve"} => ~Unused(call[h].token)
    /\ call[h].op \in {"touch", "lookup"} => tokens[call[h].token].name = call[h].name

\* A last use that the row does not tell within the interval is the clock of a
\* touch on its way.
Told(t) == tokens[t].last # Never /\ tokens[t].last > seen[t] - Interval

OnItsWay(t) == \E h \in Thread : /\ call[h].op = "touch" /\ call[h].token = t
                                 /\ call[h].now = seen[t]

SeenInv == \A t \in Token : seen[t] # Never => ~Unused(t) /\ (Told(t) \/ OnItsWay(t))

IInv == /\ TypeOK /\ ClockInv /\ OneLivePerName /\ ClaimedOnce /\ OriginInv
        /\ SpentOnSomething /\ AnsweredInv /\ LateInv /\ RevokedFirst
        /\ CallInv /\ NamespaceIsOwn /\ SeenInv

USE TokensAssumption DEF Never

-----------------------------------------------------------------------------
(* What the records of a table and of a call are, by their state *)

LEMMA InviteType ==
  ASSUME TypeOK, NEW c \in Code, Minted(c)
  PROVE  invites[c] \in Invite
  BY DEF TypeOK, Minted, NoInvite

LEMMA RowType ==
  ASSUME TypeOK, NEW t \in Token, ~Unused(t)
  PROVE  tokens[t] \in Row
  BY DEF TypeOK, Unused, NoRow

LEMMA LiveIsUsed == \A t \in Token : Live(t) => ~Unused(t)
  BY DEF Live, Unused

LEMMA CallType ==
  ASSUME TypeOK, NEW h \in Thread
  PROVE  /\ call[h].op = "claim" => call[h] \in ClaimCall
         /\ call[h].op = "revoke" => call[h] \in RevokeCall
         /\ call[h].op = "verify" => call[h] \in VerifyCall
         /\ call[h].op \in {"touch", "lookup"} => call[h] \in UseCall
         /\ call[h].op = "serve" => call[h] \in ServeCall
<1>1. call[h] \in Call
  BY DEF TypeOK
<1>2. /\ Idle.op = "idle"
      /\ \A r \in ClaimCall : r.op = "claim"
      /\ \A r \in RevokeCall : r.op = "revoke"
      /\ \A r \in VerifyCall : r.op = "verify"
      /\ \A r \in UseCall : r.op \in {"touch", "lookup"}
      /\ \A r \in ServeCall : r.op = "serve"
  BY DEF Idle, ClaimCall, RevokeCall, VerifyCall, UseCall, ServeCall
<1> QED BY <1>1, <1>2 DEF Call

\* A new row, in the table.
LEMMA NewRowType ==
  ASSUME NEW n \in Name, NEW u \in User, NEW now \in Nat, NEW ttl \in Nat
  PROVE  /\ NewRow(n, u, Expiry(now, ttl)) \in Row
         /\ NewRow(n, u, Expiry(now, ttl)).st = "live"
         /\ NewRow(n, u, Expiry(now, ttl)).name = n
         /\ NewRow(n, u, Expiry(now, ttl)).last = Never
  BY DEF NewRow, Expiry, Row

\* Retiring a name: every row stays, with its name, user and last use; only
\* the name's live rows change.
LEMMA RetiredRows ==
  ASSUME TypeOK, NEW n \in Name
  PROVE  /\ Retired(n) \in [Token -> Row \cup {NoRow}]
         /\ \A t \in Token :
              /\ Unused(t) <=> Retired(n)[t].st = "none"
              /\ Retired(n)[t].st = "live" <=> Live(t) /\ tokens[t].name # n
              /\ ~Unused(t) => /\ Retired(n)[t].name = tokens[t].name
                               /\ Retired(n)[t].user = tokens[t].user
                               /\ Retired(n)[t].last = tokens[t].last
<1> SUFFICES ASSUME NEW t \in Token
             PROVE  /\ Retired(n)[t] \in Row \cup {NoRow}
                    /\ Unused(t) <=> Retired(n)[t].st = "none"
                    /\ Retired(n)[t].st = "live" <=> Live(t) /\ tokens[t].name # n
                    /\ ~Unused(t) => /\ Retired(n)[t].name = tokens[t].name
                                     /\ Retired(n)[t].user = tokens[t].user
                                     /\ Retired(n)[t].last = tokens[t].last
  BY DEF Retired
<1>1. CASE t \in Holders(n)
  <2>1. Live(t) /\ tokens[t].name = n /\ ~Unused(t) /\ tokens[t] \in Row
    BY <1>1, LiveIsUsed, RowType DEF Holders
  <2>2. Retired(n)[t] = [tokens[t] EXCEPT !.st = "retired"]
    BY <1>1 DEF Retired
  <2> QED BY <2>1, <2>2 DEF Row
<1>2. CASE t \notin Holders(n)
  BY <1>2 DEF Retired, Holders, TypeOK, Live, Unused
<1> QED BY <1>1, <1>2

LEMMA InitInv == Init => IInv
  BY DEF Init, IInv, TypeOK, ClockInv, OneLivePerName, ClaimedOnce, OriginInv,
     SpentOnSomething, AnsweredInv, LateInv, RevokedFirst, CallInv, NamespaceIsOwn,
     SeenInv, Call, Idle, Live, NoRow, NoInvite

-----------------------------------------------------------------------------
(* Types *)

LEMMA MintInviteType ==
  ASSUME TypeOK, NEW c \in Code, MintInvite(c)
  PROVE  TypeOK'
  BY DEF TypeOK, MintInvite, OneMoreCall, Invite, history

LEMMA AskType ==
  ASSUME TypeOK, NEW h \in Thread,
         \/ \E c \in Code : AskClaim(h, c)
         \/ \E n \in Name : AskRevoke(h, n)
         \/ \E t \in Token : AskVerify(h, t)
  PROVE  TypeOK'
<1>1. \E o \in Call : Take(h, o) /\ UNCHANGED <<clock, invites, tokens, history>>
  <2>1. clock \in Nat
    BY DEF TypeOK
  <2>2. ASSUME NEW c \in Code, AskClaim(h, c)
        PROVE  \E o \in Call : Take(h, o) /\ UNCHANGED <<clock, invites, tokens, history>>
    <3>1. [op |-> "claim", code |-> c, now |-> clock, late |-> c \in answered] \in Call
      BY <2>1 DEF Call, ClaimCall
    <3> QED BY <2>2, <3>1 DEF AskClaim
  <2>3. ASSUME NEW n \in Name, AskRevoke(h, n)
        PROVE  \E o \in Call : Take(h, o) /\ UNCHANGED <<clock, invites, tokens, history>>
    <3>1. [op |-> "revoke", name |-> n, now |-> clock] \in Call
      BY <2>1 DEF Call, RevokeCall
    <3> QED BY <2>3, <3>1 DEF AskRevoke
  <2>4. ASSUME NEW t \in Token, AskVerify(h, t)
        PROVE  \E o \in Call : Take(h, o) /\ UNCHANGED <<clock, invites, tokens, history>>
    <3>1. [op |-> "verify", token |-> t, now |-> clock] \in Call
      BY <2>1 DEF Call, VerifyCall
    <3> QED BY <2>4, <3>1 DEF AskVerify
  <2> QED BY <2>2, <2>3, <2>4
<1> QED BY <1>1 DEF TypeOK, Take, OneMoreCall, history

LEMMA ClaimType ==
  ASSUME TypeOK, LateInv, NEW h \in Thread, Claim(h)
  PROVE  TypeOK'
<1> DEFINE c == call[h].code
           i == invites[c]
           row == NewRow(i.name, i.user, Expiry(call[h].now, i.ttl))
<1>1. c \in Code /\ call[h].now \in Nat /\ call[h].late \in BOOLEAN /\ i \in Invite
  BY CallType, InviteType DEF Claim, ClaimCall, LateInv
<1>2. row \in Row /\ Retired(i.name) \in [Token -> Row \cup {NoRow}]
  BY <1>1, NewRowType, RetiredRows DEF Invite
<1>3. tokens' \in [Token -> Row \cup {NoRow}]
  BY <1>2 DEF Claim
<1>4. [i EXCEPT !.st = "claimed"] \in Invite
  BY <1>1 DEF Invite
<1>5. invites' = [invites EXCEPT ![c] = [i EXCEPT !.st = "claimed"]]
  BY DEF Claim
<1>6. invites' \in [Code -> Invite \cup {NoInvite}]
  BY <1>1, <1>4, <1>5 DEF TypeOK
<1>7. origin' \in [Token -> [code : Code \cup {NoCode}, late : BOOLEAN, over : BOOLEAN]]
  BY <1>1 DEF TypeOK, Claim
<1> QED BY <1>3, <1>6, <1>7 DEF TypeOK, Claim, Call

LEMMA IssueType ==
  ASSUME TypeOK, NEW t \in Token, Issue(t)
  PROVE  TypeOK'
<1>1. PICK n \in Name, u \in User, ttl \in TokenTtl :
        tokens' = [tokens EXCEPT ![t] = NewRow(n, u, Expiry(clock, ttl))]
  BY DEF Issue
<1>2. NewRow(n, u, Expiry(clock, ttl)) \in Row
  BY NewRowType DEF TypeOK
<1> QED BY <1>1, <1>2 DEF TypeOK, Issue, OneMoreCall, history

LEMMA RevokeType ==
  ASSUME TypeOK, NEW h \in Thread, Revoke(h)
  PROVE  TypeOK'
<1> DEFINE n == call[h].name
           closed == ToClose(n, call[h].now)
<1>1. n \in Name
  BY CallType DEF Revoke, RevokeCall
<1>2. \A c \in closed : [invites[c] EXCEPT !.st = "claimed"] \in Invite
  <2> SUFFICES ASSUME NEW c \in closed PROVE [invites[c] EXCEPT !.st = "claimed"] \in Invite
    OBVIOUS
  <2>1. c \in Code /\ invites[c] \in Invite
    BY InviteType DEF ToClose, Claimable, Minted
  <2> QED BY <2>1 DEF Invite
<1>3. invites' = [c \in Code |-> IF c \in closed THEN [invites[c] EXCEPT !.st = "claimed"]
                                 ELSE invites[c]]
  BY DEF Revoke
<1>4. invites' \in [Code -> Invite \cup {NoInvite}]
  BY <1>2, <1>3 DEF TypeOK
<1>5. tokens' \in [Token -> Row \cup {NoRow}]
  BY <1>1, RetiredRows DEF Revoke
<1> QED BY <1>4, <1>5 DEF TypeOK, Revoke, Call

LEMMA VerifyType ==
  ASSUME TypeOK, NEW h \in Thread, Verify(h)
  PROVE  TypeOK'
<1> DEFINE t == call[h].token
           now == call[h].now
<1>1. t \in Token /\ now \in Nat
  BY CallType DEF Verify, VerifyCall
<1>2. CASE UNCHANGED seen /\ call' = [call EXCEPT ![h] = Idle]
  BY <1>2 DEF TypeOK, Verify, Call
<1>3. CASE Live(t) /\ ~Expired(t, now)
  <2>1. tokens[t].name \in Name
    BY <1>1, <1>3, LiveIsUsed, RowType DEF Row
  <2>2. Later(seen[t], now) \in Nat
    BY <1>1 DEF TypeOK, Later
  <2>3. [op |-> IF Stale(t, now) THEN "touch" ELSE "lookup", token |-> t,
         name |-> tokens[t].name, now |-> now] \in Call
    BY <1>1, <2>1 DEF Call, UseCall
  <2> QED BY <1>1, <1>3, <2>2, <2>3 DEF TypeOK, Verify
<1> QED BY <1>2, <1>3 DEF Verify

LEMMA TouchType ==
  ASSUME TypeOK, NEW h \in Thread, Touch(h)
  PROVE  TypeOK'
<1> DEFINE n == call[h].name
           now == call[h].now
<1>1. call[h] \in UseCall /\ now \in Nat
  BY CallType DEF Touch, UseCall
<1>2. [call[h] EXCEPT !.op = "lookup"] \in Call
  BY <1>1 DEF Call, UseCall
<1>3. \A t \in Token : Due(t, n, now) => [tokens[t] EXCEPT !.last = now] \in Row
  <2> SUFFICES ASSUME NEW t \in Token, Due(t, n, now)
               PROVE  [tokens[t] EXCEPT !.last = now] \in Row
    OBVIOUS
  <2>1. tokens[t] \in Row
    BY RowType DEF Due
  <2> QED BY <1>1, <2>1 DEF Row
<1>4. tokens' \in [Token -> Row \cup {NoRow}]
  BY <1>3 DEF TypeOK, Touch
<1> QED BY <1>2, <1>4 DEF TypeOK, Touch, history

LEMMA LookupType ==
  ASSUME TypeOK, CallInv, NEW h \in Thread, Lookup(h)
  PROVE  TypeOK'
<1> DEFINE t == call[h].token
           n == call[h].name
<1>1. t \in Token /\ n \in Name
  BY CallType DEF Lookup, UseCall
<1>2. \A o \in Holders(n) : tokens[o].user \in User
  BY LiveIsUsed, RowType DEF Holders, Row
<1>3. DefaultUser[n] \in User
  BY <1>1
<1>4. PICK u \in User : call' = [call EXCEPT ![h] = [op |-> "serve", token |-> t, user |-> u,
                                                     held |-> Live(t)]]
  BY <1>2, <1>3 DEF Lookup
<1>5. [op |-> "serve", token |-> t, user |-> u, held |-> Live(t)] \in Call
  BY <1>1 DEF Call, ServeCall, Live
<1> QED BY <1>4, <1>5 DEF TypeOK, Lookup, history

LEMMA TypeStep ==
  ASSUME TypeOK, LateInv, CallInv, [Next]_vars
  PROVE  TypeOK'
<1>1. CASE UNCHANGED vars
  BY <1>1 DEF TypeOK, vars, history
<1>2. CASE Tick
  BY <1>2 DEF TypeOK, Tick, history
<1>3. CASE \E h \in Thread : ClaimRefused(h) \/ Answer(h)
  BY <1>3 DEF TypeOK, ClaimRefused, Answer, history, Call
<1> QED BY <1>1, <1>2, <1>3, MintInviteType, AskType, ClaimType, IssueType, RevokeType,
           VerifyType, TouchType, LookupType DEF Next

-----------------------------------------------------------------------------
(* What no step undoes *)

\* A step that writes no table.
TablesStay == UNCHANGED <<invites, tokens>>

LEMMA StepKinds ==
  ASSUME [Next]_vars
  PROVE  \/ TablesStay
         \/ \E c \in Code : MintInvite(c)
         \/ \E t \in Token : Issue(t)
         \/ \E h \in Thread : Claim(h) \/ Revoke(h) \/ Touch(h)
  BY DEF Next, vars, TablesStay, AskClaim, AskRevoke, AskVerify, ClaimRefused, Verify,
     Lookup, Answer, Tick

\* A row stays, with its name and its user, and is never live again.
LEMMA RowsStand ==
  ASSUME TypeOK, LateInv, [Next]_vars, NEW t \in Token, ~Unused(t)
  PROVE  /\ ~Unused(t)'
         /\ tokens'[t].name = tokens[t].name /\ tokens'[t].user = tokens[t].user
         /\ Live(t)' => Live(t)
<1>1. CASE TablesStay
  BY <1>1 DEF TablesStay, Unused, Live
<1>2. ASSUME NEW c \in Code, MintInvite(c) PROVE tokens' = tokens
  BY <1>2 DEF MintInvite
<1>3. ASSUME NEW o \in Token, Issue(o) PROVE tokens'[t] = tokens[t]
  BY <1>3 DEF Issue, TypeOK
<1>4. ASSUME NEW h \in Thread, Claim(h)
      PROVE  /\ invites[call[h].code].name \in Name
             /\ tokens'[t] = Retired(invites[call[h].code].name)[t]
  <2>1. call[h].code \in Code /\ invites[call[h].code] \in Invite
    BY <1>4, CallType, InviteType DEF Claim, ClaimCall, LateInv
  <2>2. invites[call[h].code].name \in Name
    BY <2>1 DEF Invite
  <2>3. Retired(invites[call[h].code].name) \in [Token -> Row \cup {NoRow}]
    BY <2>2, RetiredRows
  <2> QED BY <1>4, <2>2, <2>3 DEF Claim
<1>5. ASSUME NEW h \in Thread, Revoke(h)
      PROVE  call[h].name \in Name /\ tokens'[t] = Retired(call[h].name)[t]
  BY <1>5, CallType DEF Revoke, RevokeCall
<1>6. ASSUME NEW h \in Thread, Touch(h)
      PROVE  \/ tokens'[t] = tokens[t]
             \/ tokens'[t] = [tokens[t] EXCEPT !.last = call[h].now]
  BY <1>6 DEF Touch
<1>7. ASSUME NEW n \in Name, tokens'[t] = Retired(n)[t]
      PROVE  /\ ~Unused(t)'
             /\ tokens'[t].name = tokens[t].name /\ tokens'[t].user = tokens[t].user
             /\ Live(t)' => Live(t)
  BY <1>7, RetiredRows DEF Unused, Live
<1>8. tokens[t] \in Row
  BY RowType
<1>9. ASSUME NEW x, tokens'[t] = [tokens[t] EXCEPT !.last = x]
      PROVE  /\ ~Unused(t)'
             /\ tokens'[t].name = tokens[t].name /\ tokens'[t].user = tokens[t].user
             /\ Live(t)' => Live(t)
  BY <1>8, <1>9 DEF Unused, Live, Row
<1> QED BY StepKinds, <1>1, <1>2, <1>3, <1>4, <1>5, <1>6, <1>7, <1>9 DEF Unused, Live

\* An invite stays, spent once it is spent, and is never claimable again by a
\* clock it refused.
LEMMA InvitesStand ==
  ASSUME TypeOK, LateInv, [Next]_vars, NEW c \in Code, Minted(c)
  PROVE  /\ Minted(c)'
         /\ invites[c].st = "claimed" => invites'[c].st = "claimed"
         /\ invites'[c].name = invites[c].name /\ invites'[c].expires = invites[c].expires
         /\ \A now : ~Claimable(c, now) => ~Claimable(c, now)'
<1>1. invites[c] \in Invite
  BY InviteType
<1>2. CASE TablesStay
  BY <1>2 DEF TablesStay, Minted, Claimable
<1>3. ASSUME NEW d \in Code, MintInvite(d) PROVE invites'[c] = invites[c]
  BY <1>3 DEF MintInvite, Minted, TypeOK
<1>4. ASSUME NEW o \in Token, Issue(o) PROVE invites' = invites
  BY <1>4 DEF Issue
<1>5. ASSUME NEW h \in Thread, Claim(h) \/ Revoke(h) \/ Touch(h)
      PROVE  \/ invites'[c] = invites[c]
             \/ invites'[c] = [invites[c] EXCEPT !.st = "claimed"]
  BY <1>5 DEF Claim, Revoke, Touch, TypeOK
<1>6. CASE invites'[c] = invites[c]
  BY <1>6 DEF Minted, Claimable
<1>7. CASE invites'[c] = [invites[c] EXCEPT !.st = "claimed"]
  BY <1>1, <1>7 DEF Minted, Claimable, Invite
<1> QED BY StepKinds, <1>2, <1>3, <1>4, <1>5, <1>6, <1>7

-----------------------------------------------------------------------------
(* The clock and the calls *)

LEMMA ClockStep ==
  ASSUME TypeOK, ClockInv, [Next]_vars
  PROVE  ClockInv'
<1>1. CASE UNCHANGED vars
  BY <1>1 DEF ClockInv, vars
<1>2. CASE Tick
  BY <1>2, CallType DEF ClockInv, Tick, TypeOK, ClaimCall, RevokeCall, VerifyCall, UseCall
<1>3. CASE \E c \in Code : MintInvite(c)
  BY <1>3 DEF ClockInv, MintInvite
<1>4. CASE \E t \in Token : Issue(t)
  BY <1>4 DEF ClockInv, Issue
<1>5. ASSUME NEW h \in Thread,
             \/ \E c \in Code : AskClaim(h, c)
             \/ \E n \in Name : AskRevoke(h, n)
             \/ \E t \in Token : AskVerify(h, t)
      PROVE  ClockInv'
  <2>1. clock' = clock /\ clock \in Nat
    BY <1>5 DEF AskClaim, AskRevoke, AskVerify, TypeOK
  <2>2. \A g \in Thread : call'[g] = call[g] \/ call'[g].now = clock
    BY <1>5 DEF AskClaim, AskRevoke, AskVerify, Take, TypeOK
  <2> QED BY <2>1, <2>2 DEF ClockInv
<1>6. ASSUME NEW h \in Thread, Claim(h) \/ ClaimRefused(h) \/ Revoke(h) \/ Answer(h)
      PROVE  ClockInv'
  BY <1>6 DEF ClockInv, TypeOK, Claim, ClaimRefused, Revoke, Answer, Idle
<1>7. ASSUME NEW h \in Thread, Verify(h) PROVE ClockInv'
  BY <1>7 DEF ClockInv, TypeOK, Verify, Idle
<1>8. ASSUME NEW h \in Thread, Touch(h) PROVE ClockInv'
  <2>1. [call[h] EXCEPT !.op = "lookup"].now = call[h].now
    BY <1>8, CallType DEF Touch, UseCall
  <2> QED BY <1>8, <2>1 DEF ClockInv, TypeOK, Touch
<1>9. ASSUME NEW h \in Thread, Lookup(h) PROVE ClockInv'
  <2>1. PICK u : call' = [call EXCEPT ![h] = [op |-> "serve", token |-> call[h].token,
                                              user |-> u, held |-> Live(call[h].token)]]
    BY <1>9 DEF Lookup
  <2> QED BY <1>9, <2>1 DEF ClockInv, TypeOK, Lookup
<1> QED BY <1>1, <1>2, <1>3, <1>4, <1>5, <1>6, <1>7, <1>8, <1>9 DEF Next

-----------------------------------------------------------------------------
(* One live token per name, one token per code *)

\* Only a claim and a sign-in put a row in the table.
LEMMA NoNewRow ==
  ASSUME TypeOK, [Next]_vars,
         \A t \in Token : ~Issue(t), \A h \in Thread : ~Claim(h)
  PROVE  \A t \in Token : Unused(t) => Unused(t)'
<1> SUFFICES ASSUME NEW t \in Token, Unused(t) PROVE Unused(t)'
  OBVIOUS
<1>1. CASE TablesStay
  BY <1>1 DEF TablesStay, Unused
<1>2. CASE \E c \in Code : MintInvite(c)
  BY <1>2 DEF MintInvite, Unused
<1>3. CASE \E h \in Thread : Revoke(h)
  BY <1>3, CallType, RetiredRows DEF Revoke, RevokeCall, Unused
<1>4. CASE \E h \in Thread : Touch(h)
  BY <1>4 DEF Touch, Due, Unused
<1> QED BY StepKinds, <1>1, <1>2, <1>3, <1>4

\* What a claim does to the table of tokens and to the history of claims.
LEMMA ClaimRows ==
  ASSUME TypeOK, LateInv, NEW h \in Thread, Claim(h)
  PROVE  /\ call[h].code \in Code /\ Claimable(call[h].code, call[h].now)
         /\ invites'[call[h].code].st = "claimed"
         /\ \E t \in Token :
              /\ Unused(t) /\ ~Unused(t)'
              /\ tokens'[t].st = "live" /\ tokens'[t].last = Never
              /\ tokens'[t].name = invites[call[h].code].name
              /\ origin'[t].code = call[h].code /\ origin'[t].late = call[h].late
              /\ \A o \in Token \ {t} :
                   /\ origin'[o] = origin[o]
                   /\ Unused(o)' <=> Unused(o)
                   /\ Live(o)' <=> Live(o) /\ tokens[o].name # tokens'[t].name
                   /\ ~Unused(o) => /\ tokens'[o].name = tokens[o].name
                                    /\ tokens'[o].last = tokens[o].last
<1> DEFINE c == call[h].code
           i == invites[c]
           n == i.name
           row == NewRow(n, i.user, Expiry(call[h].now, i.ttl))
<1>1. c \in Code /\ call[h].now \in Nat /\ i \in Invite /\ Claimable(c, call[h].now)
  BY CallType, InviteType DEF Claim, ClaimCall, LateInv
<1>2. n \in Name /\ i.user \in User /\ i.ttl \in Nat
  BY <1>1 DEF Invite
<1>3. row.st = "live" /\ row.name = n /\ row.last = Never
  BY <1>1, <1>2, NewRowType
<1>4. PICK t \in Token : /\ Unused(t)
                         /\ tokens' = [Retired(n) EXCEPT ![t] = row]
                         /\ origin' = [origin EXCEPT ![t] = [code |-> c, late |-> call[h].late,
                                                             over |-> c \in answered]]
  BY DEF Claim
<1>5. tokens'[t] = row /\ \A o \in Token \ {t} : tokens'[o] = Retired(n)[o]
  BY <1>2, <1>4, RetiredRows
<1>6. /\ origin'[t] = [code |-> c, late |-> call[h].late, over |-> c \in answered]
      /\ \A o \in Token \ {t} : origin'[o] = origin[o]
  BY <1>4 DEF TypeOK
<1>7. invites'[c].st = "claimed"
  BY <1>1 DEF Claim, TypeOK, Invite
<1>8. ~Unused(t)' /\ tokens'[t].name = n
  BY <1>3, <1>5 DEF Unused
<1>9. ASSUME NEW o \in Token \ {t}
      PROVE  /\ Unused(o)' <=> Unused(o)
             /\ Live(o)' <=> Live(o) /\ tokens[o].name # n
             /\ ~Unused(o) => /\ tokens'[o].name = tokens[o].name
                              /\ tokens'[o].last = tokens[o].last
  BY <1>2, <1>5, RetiredRows DEF Unused, Live
<1> QED
  <2>1. origin'[t].code = c /\ origin'[t].late = call[h].late
    BY <1>6
  <2>2. tokens'[t].st = "live" /\ tokens'[t].last = Never
    BY <1>3, <1>5
  <2>3. \A o \in Token \ {t} :
          /\ origin'[o] = origin[o]
          /\ Unused(o)' <=> Unused(o)
          /\ Live(o)' <=> Live(o) /\ tokens[o].name # tokens'[t].name
          /\ ~Unused(o) => /\ tokens'[o].name = tokens[o].name
                           /\ tokens'[o].last = tokens[o].last
    BY <1>6, <1>8, <1>9
  <2> HIDE DEF c, row
  <2>4. t \in Token /\ Unused(t)
    BY <1>4
  <2>5. origin'[t].code = call[h].code /\ tokens'[t].name = invites[call[h].code].name
    BY <1>8, <2>1 DEF c
  <2>6. /\ call[h].code \in Code /\ Claimable(call[h].code, call[h].now)
        /\ invites'[call[h].code].st = "claimed"
    BY <1>1, <1>7 DEF c
  <2> QED BY <1>8, <2>1, <2>2, <2>3, <2>4, <2>5, <2>6

\* What a sign-in does to the table of tokens.
LEMMA IssueRows ==
  ASSUME TypeOK, NEW t \in Token, Issue(t)
  PROVE  /\ Unused(t) /\ ~Unused(t)' /\ tokens'[t].last = Never
         /\ \A o \in Token \ {t} : tokens'[o] = tokens[o]
         /\ \A o \in Token \ {t} : Live(o) => tokens[o].name # tokens'[t].name
<1>1. PICK n \in Name, u \in User, ttl \in TokenTtl :
        Holders(n) = {} /\ tokens' = [tokens EXCEPT ![t] = NewRow(n, u, Expiry(clock, ttl))]
  BY DEF Issue
<1>2. /\ tokens'[t] = NewRow(n, u, Expiry(clock, ttl))
      /\ \A o \in Token \ {t} : tokens'[o] = tokens[o]
  BY <1>1 DEF TypeOK
<1>3. tokens'[t].st = "live" /\ tokens'[t].name = n /\ tokens'[t].last = Never
  <2>1. clock \in Nat /\ ttl \in Nat
    BY DEF TypeOK
  <2>2. LET row == NewRow(n, u, Expiry(clock, ttl))
        IN  row.st = "live" /\ row.name = n /\ row.last = Never
    BY <2>1, NewRowType
  <2> QED BY <1>2, <2>2
<1> QED BY <1>1, <1>2, <1>3 DEF Issue, Holders, Unused

LEMMA OneLiveStep ==
  ASSUME TypeOK, LateInv, OneLivePerName, [Next]_vars
  PROVE  OneLivePerName'
<1>1. ASSUME NEW h \in Thread, Claim(h) PROVE OneLivePerName'
  BY <1>1, ClaimRows, LiveIsUsed DEF OneLivePerName
<1>2. ASSUME NEW t \in Token, Issue(t) PROVE OneLivePerName'
  BY <1>2, IssueRows DEF OneLivePerName, Live
<1>3. CASE (\A t \in Token : ~Issue(t)) /\ (\A h \in Thread : ~Claim(h))
  <2>1. \A t \in Token : Live(t)' => Live(t) /\ tokens'[t].name = tokens[t].name
    BY <1>3, NoNewRow, RowsStand DEF Live, Unused
  <2> QED BY <2>1 DEF OneLivePerName
<1> QED BY <1>1, <1>2, <1>3

\* Only a claim writes the history of claims.
LEMMA OriginStays ==
  ASSUME [Next]_vars, \A h \in Thread : ~Claim(h)
  PROVE  origin' = origin
  BY DEF Next, vars, history, MintInvite, Issue, AskClaim, AskRevoke, AskVerify,
     ClaimRefused, Revoke, Verify, Touch, Lookup, Answer, Tick

LEMMA OriginStep ==
  ASSUME TypeOK, LateInv, OriginInv, ClaimedOnce, RevokedFirst, [Next]_vars
  PROVE  OriginInv' /\ ClaimedOnce' /\ RevokedFirst'
<1>1. \A t \in Token : origin[t].code # NoCode =>
        /\ origin[t].code \in Code /\ ~Unused(t)'
        /\ invites'[origin[t].code].st = "claimed"
  <2> SUFFICES ASSUME NEW t \in Token, origin[t].code # NoCode
               PROVE  /\ origin[t].code \in Code /\ ~Unused(t)'
                      /\ invites'[origin[t].code].st = "claimed"
    OBVIOUS
  <2>1. origin[t].code \in Code
    BY DEF TypeOK
  <2>2. ~Unused(t) /\ invites[origin[t].code].st = "claimed"
    BY DEF OriginInv
  <2> QED BY <2>1, <2>2, RowsStand, InvitesStand DEF Minted
<1>2. CASE \A h \in Thread : ~Claim(h)
  <2>1. origin' = origin
    BY <1>2, OriginStays
  <2> QED BY <1>1, <2>1 DEF OriginInv, ClaimedOnce, RevokedFirst
<1>3. ASSUME NEW h \in Thread, Claim(h)
      PROVE  OriginInv' /\ ClaimedOnce' /\ RevokedFirst'
  <2> DEFINE c == call[h].code
  <2>1. PICK t \in Token :
          /\ Unused(t) /\ ~Unused(t)'
          /\ origin'[t].code = c /\ origin'[t].late = call[h].late
          /\ \A o \in Token \ {t} : origin'[o] = origin[o]
    BY <1>3, ClaimRows
  <2>2. Claimable(c, call[h].now) /\ c \in Code /\ invites'[c].st = "claimed"
    BY <1>3, ClaimRows
  <2>3. \A o \in Token : origin[o].code # c
    BY <2>2 DEF OriginInv, Claimable, TypeOK, TokensAssumption
  <2>4. ~call[h].late
    BY <1>3, <2>2 DEF LateInv, Claim
  <2>5. OriginInv'
    BY <1>1, <2>1, <2>2 DEF OriginInv
  <2>6. ClaimedOnce'
    BY <2>1, <2>3 DEF ClaimedOnce
  <2>7. RevokedFirst'
    BY <2>1, <2>4 DEF RevokedFirst
  <2> QED BY <2>5, <2>6, <2>7
<1> QED BY <1>2, <1>3

-----------------------------------------------------------------------------
(* What becomes of codes *)

LEMMA SpentStep ==
  ASSUME TypeOK, LateInv, OriginInv, SpentOnSomething, [Next]_vars
  PROVE  SpentOnSomething'
<1>1. ASSUME NEW h \in Thread, Claim(h) PROVE SpentOnSomething'
  <2> DEFINE d == call[h].code
  <2>1. PICK t \in Token : /\ Unused(t) /\ origin'[t].code = d
                           /\ \A o \in Token \ {t} : origin'[o] = origin[o]
    BY <1>1, ClaimRows
  <2>2. origin[t].code = NoCode
    BY <2>1 DEF OriginInv
  <2>3. \A c \in Code \ {d} : invites'[c] = invites[c]
    BY <1>1, ClaimRows DEF Claim, TypeOK
  <2>4. answered' = answered
    BY <1>1 DEF Claim
  <2> QED BY <2>1, <2>2, <2>3, <2>4 DEF SpentOnSomething
<1>2. ASSUME NEW h \in Thread, Revoke(h) PROVE SpentOnSomething'
  <2> DEFINE n == call[h].name
             closed == ToClose(n, call[h].now)
  <2>1. \A c \in Code : c \notin closed => invites'[c] = invites[c]
    BY <1>2 DEF Revoke
  <2>2. closed \subseteq answered' /\ answered \subseteq answered'
    BY <1>2 DEF Revoke, ToClose, Claimable
  <2>3. origin' = origin
    BY <1>2 DEF Revoke
  <2> QED BY <2>1, <2>2, <2>3 DEF SpentOnSomething
<1>3. CASE \A h \in Thread : ~Claim(h) /\ ~Revoke(h)
  <2>1. \A c \in Code : invites'[c].st = "claimed" => invites[c].st = "claimed"
    <3>1. CASE \E c \in Code : MintInvite(c)
      BY <3>1 DEF MintInvite, TypeOK
    <3>2. CASE TablesStay \/ (\E t \in Token : Issue(t)) \/ \E h \in Thread : Touch(h)
      BY <3>2 DEF TablesStay, Issue, Touch
    <3> QED BY <1>3, StepKinds, <3>1, <3>2
  <2>2. answered' = answered
    BY <1>3 DEF Next, vars, history, MintInvite, Issue, AskClaim, AskRevoke, AskVerify,
       ClaimRefused, Verify, Touch, Lookup, Answer, Tick
  <2>3. origin' = origin
    BY <1>3, OriginStays
  <2> QED BY <2>1, <2>2, <2>3 DEF SpentOnSomething
<1> QED BY <1>1, <1>2, <1>3

\* What a clock refuses, a later one refuses.
LEMMA RefusedLater ==
  ASSUME TypeOK, NEW c \in Code, NEW a \in Nat, NEW b \in Nat, a <= b, ~Claimable(c, a)
  PROVE  ~Claimable(c, b)
<1>1. CASE Minted(c)
  BY <1>1, InviteType DEF Claimable, Invite
<1>2. CASE ~Minted(c)
  BY <1>2 DEF Claimable, Minted
<1> QED BY <1>1, <1>2

LEMMA AnsweredStep ==
  ASSUME TypeOK, TypeOK', ClockInv, LateInv, AnsweredInv, [Next]_vars
  PROVE  AnsweredInv'
<1>1. clock \in Nat /\ clock' \in Nat /\ clock <= clock'
  <2>1. clock' = clock \/ clock' = clock + 1
    BY DEF Next, vars, MintInvite, Issue, AskClaim, AskRevoke, AskVerify, Claim,
       ClaimRefused, Revoke, Verify, Touch, Lookup, Answer, Tick
  <2> QED BY <2>1 DEF TypeOK
<1>2. ASSUME NEW c \in Code, Minted(c), ~Claimable(c, clock)
      PROVE  Minted(c)' /\ ~Claimable(c, clock)'
  <2>1. Minted(c)' /\ \A now : ~Claimable(c, now) => ~Claimable(c, now)'
    BY <1>2, InvitesStand
  <2>2. ~(invites'[c].st = "open" /\ invites'[c].expires > clock)
    BY <1>2, <2>1 DEF Claimable
  <2>3. invites'[c] \in Invite
    BY <2>1 DEF TypeOK, Minted, NoInvite
  <2>4. invites'[c].expires \in Nat
    BY <2>3 DEF Invite
  <2> QED BY <1>1, <2>1, <2>2, <2>4 DEF Claimable
<1>3. ASSUME NEW c \in answered', c \notin answered
      PROVE  c \in Code /\ Minted(c)' /\ ~Claimable(c, clock)'
  <2>1. PICK h \in Thread : Revoke(h)
    BY <1>3 DEF Next, vars, history, MintInvite, Issue, AskClaim, AskRevoke, AskVerify,
       Claim, ClaimRefused, Verify, Touch, Lookup, Answer, Tick
  <2>2. c \in Code /\ invites[c].st = "open" /\ invites[c].name = call[h].name
    BY <1>3, <2>1 DEF Revoke
  <2>3. CASE c \in ToClose(call[h].name, call[h].now)
    <3>1. invites[c] \in Invite
      BY <2>2, InviteType DEF Minted
    <3>2. invites'[c] = [invites[c] EXCEPT !.st = "claimed"]
      BY <2>1, <2>2, <2>3 DEF Revoke
    <3> QED BY <2>2, <3>1, <3>2 DEF Minted, Claimable, Invite
  <2>4. CASE c \notin ToClose(call[h].name, call[h].now)
    <3>1. ~Claimable(c, call[h].now)
      BY <2>2, <2>4 DEF ToClose
    <3>2. call[h].now \in Nat /\ call[h].now <= clock
      BY <2>1, CallType DEF ClockInv, Revoke, RevokeCall
    <3>3. ~Claimable(c, clock)
      BY <1>1, <2>2, <3>1, <3>2, RefusedLater
    <3> QED BY <1>2, <2>2, <3>3 DEF Minted
  <2> QED BY <2>2, <2>3, <2>4
<1> QED BY <1>2, <1>3 DEF AnsweredInv, TypeOK

\* A call that is not what it was has moved by a step of its own.
LEMMA OwnStep ==
  ASSUME TypeOK, [Next]_vars, NEW g \in Thread, call'[g] # call[g]
  PROVE  \/ call'[g] = Idle
         \/ \E c \in Code : AskClaim(g, c)
         \/ \E n \in Name : AskRevoke(g, n)
         \/ \E t \in Token : AskVerify(g, t)
         \/ Verify(g) \/ Touch(g) \/ Lookup(g)
<1>1. ASSUME NEW h \in Thread, Claim(h) \/ ClaimRefused(h) \/ Revoke(h) \/ Answer(h)
      PROVE  call'[g] = Idle
  BY <1>1 DEF Claim, ClaimRefused, Revoke, Answer, TypeOK
<1>2. ASSUME NEW h \in Thread, Verify(h) \/ Touch(h) \/ Lookup(h)
      PROVE  g = h
  BY <1>2 DEF Verify, Touch, Lookup, TypeOK
<1>3. ASSUME NEW h \in Thread, \/ \E c \in Code : AskClaim(h, c)
                               \/ \E n \in Name : AskRevoke(h, n)
                               \/ \E t \in Token : AskVerify(h, t)
      PROVE  g = h
  BY <1>3 DEF AskClaim, AskRevoke, AskVerify, Take, TypeOK
<1> QED BY <1>1, <1>2, <1>3 DEF Next, vars, MintInvite, Issue, Tick

\* What a step of a call's own leaves the call.
LEMMA AskedCalls ==
  ASSUME TypeOK, NEW g \in Thread
  PROVE  /\ \A c \in Code : AskClaim(g, c) =>
              /\ call'[g].op = "claim" /\ call'[g].code = c /\ call'[g].now = clock
              /\ call'[g].late => c \in answered
              /\ invites' = invites /\ Minted(c)
         /\ \A n \in Name : AskRevoke(g, n) => call'[g].op = "revoke"
         /\ \A t \in Token : AskVerify(g, t) =>
              /\ call'[g].op = "verify" /\ call'[g].token = t
              /\ ~Unused(t) /\ tokens' = tokens
<1>1. \A o : Take(g, o) => call'[g] = o
  BY DEF Take, TypeOK
<1>2. ASSUME NEW c \in Code, AskClaim(g, c)
      PROVE  /\ call'[g].op = "claim" /\ call'[g].code = c /\ call'[g].now = clock
             /\ call'[g].late => c \in answered
             /\ invites' = invites /\ Minted(c)
  <2>1. call'[g] = [op |-> "claim", code |-> c, now |-> clock, late |-> c \in answered]
    BY <1>1, <1>2 DEF AskClaim
  <2>2. call'[g].late = (c \in answered)
    BY <2>1
  <2>3. call'[g].op = "claim" /\ call'[g].code = c /\ call'[g].now = clock
    BY <2>1
  <2>4. invites' = invites /\ Minted(c)
    BY <1>2 DEF AskClaim, Minted
  <2> QED BY <2>2, <2>3, <2>4
<1>3. ASSUME NEW n \in Name, AskRevoke(g, n) PROVE call'[g].op = "revoke"
  BY <1>1, <1>3 DEF AskRevoke
<1>4. ASSUME NEW t \in Token, AskVerify(g, t)
      PROVE  /\ call'[g].op = "verify" /\ call'[g].token = t
             /\ ~Unused(t) /\ tokens' = tokens
  BY <1>1, <1>4 DEF AskVerify
<1> QED BY <1>2, <1>3, <1>4

LEMMA MovedCalls ==
  ASSUME TypeOK, NEW g \in Thread
  PROVE  /\ Verify(g) =>
              /\ tokens' = tokens
              /\ \/ call'[g] = Idle
                 \/ /\ call'[g].op \in {"touch", "lookup"}
                    /\ call'[g].token = call[g].token /\ call'[g].now = call[g].now
                    /\ call'[g].name = tokens[call[g].token].name
                    /\ call'[g].op = "lookup" => ~Stale(call[g].token, call[g].now)
         /\ Touch(g) => /\ call'[g].op = "lookup" /\ call'[g].token = call[g].token
                        /\ call'[g].name = call[g].name
         /\ Lookup(g) => /\ call'[g].op = "serve" /\ call'[g].token = call[g].token
                         /\ call'[g].held = Live(call[g].token)
                         /\ tokens' = tokens
<1>1. Verify(g) => /\ tokens' = tokens
                   /\ \/ call'[g] = Idle
                      \/ /\ call'[g].op \in {"touch", "lookup"}
                         /\ call'[g].token = call[g].token /\ call'[g].now = call[g].now
                         /\ call'[g].name = tokens[call[g].token].name
                         /\ call'[g].op = "lookup" => ~Stale(call[g].token, call[g].now)
  BY DEF Verify, TypeOK
<1>2. Touch(g) => /\ call'[g].op = "lookup" /\ call'[g].token = call[g].token
                  /\ call'[g].name = call[g].name
  <2> SUFFICES ASSUME Touch(g)
               PROVE  /\ call'[g].op = "lookup" /\ call'[g].token = call[g].token
                      /\ call'[g].name = call[g].name
    OBVIOUS
  <2>1. call[g] \in UseCall
    BY CallType DEF Touch
  <2>2. call'[g] = [call[g] EXCEPT !.op = "lookup"]
    BY DEF Touch, TypeOK
  <2> QED BY <2>1, <2>2 DEF UseCall
<1>3. Lookup(g) => /\ call'[g].op = "serve" /\ call'[g].token = call[g].token
                   /\ call'[g].held = Live(call[g].token)
                   /\ tokens' = tokens
  BY DEF Lookup, TypeOK
<1> QED BY <1>1, <1>2, <1>3

LEMMA LateStep ==
  ASSUME TypeOK, AnsweredInv, LateInv, [Next]_vars
  PROVE  LateInv'
<1> SUFFICES ASSUME NEW g \in Thread, call'[g].op = "claim"
             PROVE  /\ Minted(call[g].code)'
                    /\ call'[g].late => ~Claimable(call[g].code, call[g].now)'
  BY DEF LateInv
<1>1. CASE call'[g] = call[g]
  <2>1. call[g].code \in Code /\ Minted(call[g].code)
    BY <1>1, CallType DEF ClaimCall, LateInv
  <2>2. call[g].late => ~Claimable(call[g].code, call[g].now)
    BY <1>1 DEF LateInv
  <2>3. /\ invites'[call[g].code].st # "none"
        /\ \A now : ~Claimable(call[g].code, now) =>
             ~(invites'[call[g].code].st = "open" /\ invites'[call[g].code].expires > now)
    BY <2>1, InvitesStand DEF Minted, Claimable
  <2> QED BY <1>1, <2>2, <2>3 DEF Minted, Claimable
<1>2. ASSUME NEW c \in Code, AskClaim(g, c)
      PROVE  /\ Minted(call[g].code)'
             /\ call'[g].late => ~Claimable(call[g].code, call[g].now)'
  BY <1>2, AskedCalls DEF AnsweredInv, Minted, Claimable
<1>3. CASE call'[g] # call[g]
  BY <1>2, <1>3, OwnStep, AskedCalls, MovedCalls DEF Idle
<1> QED BY <1>1, <1>3

-----------------------------------------------------------------------------
(* Requests *)

LEMMA CallStep ==
  ASSUME TypeOK, LateInv, CallInv, [Next]_vars
  PROVE  CallInv'
<1> SUFFICES ASSUME NEW g \in Thread
             PROVE  /\ call'[g].op \in {"verify", "touch", "lookup", "serve"} =>
                         ~Unused(call[g].token)'
                    /\ call'[g].op \in {"touch", "lookup"} =>
                         tokens'[call'[g].token].name = call'[g].name
  BY DEF CallInv
<1>1. call[g].op \in {"verify", "touch", "lookup", "serve"} =>
        /\ call[g].token \in Token /\ ~Unused(call[g].token)
        /\ tokens'[call[g].token].st # "none"
        /\ tokens'[call[g].token].name = tokens[call[g].token].name
  BY CallType, RowsStand DEF CallInv, VerifyCall, UseCall, ServeCall, Unused
<1>2. CASE call'[g] = call[g]
  BY <1>1, <1>2 DEF CallInv, Unused
<1>3. CASE call'[g] # call[g]
  <2>1. CASE call'[g] = Idle
    BY <2>1 DEF Idle
  <2>2. CASE (\E c \in Code : AskClaim(g, c)) \/ \E n \in Name : AskRevoke(g, n)
    BY <2>2, AskedCalls
  <2>3. CASE \E t \in Token : AskVerify(g, t)
    BY <2>3, AskedCalls DEF Unused
  <2>4. CASE Verify(g)
    BY <1>1, <2>1, <2>4, MovedCalls DEF Unused, Verify
  <2>5. CASE Touch(g)
    BY <1>1, <2>5, MovedCalls DEF Unused, Touch, CallInv
  <2>6. CASE Lookup(g)
    BY <1>1, <2>6, MovedCalls DEF Unused, Lookup
  <2> QED BY <1>3, <2>1, <2>2, <2>3, <2>4, <2>5, <2>6, OwnStep
<1> QED BY <1>2, <1>3

LEMMA NamespaceStep ==
  ASSUME TypeOK, LateInv, CallInv, OneLivePerName, NamespaceIsOwn, [Next]_vars
  PROVE  NamespaceIsOwn'
<1> SUFFICES ASSUME NEW g \in Thread, call'[g].op = "serve", call'[g].held
             PROVE  call'[g].user = tokens'[call'[g].token].user
  BY DEF NamespaceIsOwn
<1>1. CASE call'[g] = call[g]
  <2>1. call[g].token \in Token /\ ~Unused(call[g].token)
    BY <1>1, CallType DEF CallInv, ServeCall
  <2> QED BY <1>1, <2>1, RowsStand DEF NamespaceIsOwn
<1>2. CASE Lookup(g)
  <2> DEFINE t == call[g].token
             n == call[g].name
  <2>1. t \in Token /\ tokens[t].name = n /\ Live(t) /\ tokens' = tokens
    BY <1>2, CallType, MovedCalls DEF Lookup, UseCall, CallInv
  <2>2. Holders(n) = {t}
    BY <2>1 DEF Holders, OneLivePerName
  <2>3. PICK u \in {tokens[o].user : o \in Holders(n)} :
          call' = [call EXCEPT ![g] = [op |-> "serve", token |-> t, user |-> u,
                                       held |-> Live(t)]]
    BY <1>2, <2>2 DEF Lookup
  <2>4. u = tokens[t].user
    BY <2>2, <2>3
  <2>5. call'[g].user = u
    BY <2>3 DEF TypeOK
  <2> QED BY <1>2, <2>1, <2>4, <2>5, MovedCalls
<1> QED BY <1>1, <1>2, OwnStep, AskedCalls, MovedCalls DEF Idle

-----------------------------------------------------------------------------
(* Last uses *)

LEMMA SeenStep ==
  ASSUME TypeOK, TypeOK', LateInv, ClockInv, CallInv, SeenInv, [Next]_vars
  PROVE  SeenInv'
<1> SUFFICES ASSUME NEW t \in Token, seen'[t] # Never
             PROVE  ~Unused(t)' /\ (Told(t)' \/ OnItsWay(t)')
  BY DEF SeenInv
<1>1. ASSUME NEW h \in Thread, Verify(h), seen'[t] # seen[t]
      PROVE  ~Unused(t)' /\ (Told(t)' \/ OnItsWay(t)')
  <2> DEFINE now == call[h].now
  <2>1. t \in Token /\ t = call[h].token /\ now \in Nat /\ seen[t] \in Nat
    BY <1>1, CallType DEF Verify, VerifyCall, TypeOK
  <2>2. seen'[t] = now /\ tokens' = tokens /\ ~Unused(t) /\ call'[h] # Idle
    BY <1>1, <2>1, CallType, LiveIsUsed DEF Verify, TypeOK, Later, Idle
  <2>3. CASE call'[h].op = "touch"
    BY <1>1, <2>1, <2>2, <2>3, MovedCalls DEF OnItsWay, Unused
  <2>4. CASE ~Stale(t, now)
    <3>1. tokens[t].last \in Nat
      BY <2>2, RowType DEF Row
    <3> QED BY <2>1, <2>2, <2>4, <3>1 DEF Stale, Told, Unused
  <2> QED BY <1>1, <2>1, <2>2, <2>3, <2>4, MovedCalls
<1>2. ASSUME seen'[t] = seen[t]
      PROVE  ~Unused(t)' /\ (Told(t)' \/ OnItsWay(t)')
  <2>1. ~Unused(t) /\ (Told(t) \/ OnItsWay(t)) /\ seen[t] \in Nat
    BY <1>2 DEF SeenInv, TypeOK
  <2>2. ~Unused(t)'
    BY <2>1, RowsStand
  <2>3. tokens[t].last \in Nat
    BY <2>1, RowType DEF Row
  <2>4. ASSUME NEW h \in Thread, Touch(h)
        PROVE  Told(t)' \/ OnItsWay(t)'
    <3> DEFINE now == call[h].now
    <3>1. now \in Nat /\ now >= 1 /\ call[h].token \in Token
      BY <2>4, CallType DEF Touch, UseCall, ClockInv
    <3>2. CASE Due(t, call[h].name, now)
      <4>1. tokens'[t].last = now
        BY <2>1, <2>4, <3>2, RowType DEF Touch, Row
      <4>2. now > seen[t] - Interval \/ OnItsWay(t)'
        <5>1. CASE Told(t)
          BY <2>1, <2>3, <3>1, <3>2, <5>1 DEF Told, Due
        <5>2. CASE OnItsWay(t)
          <6>1. PICK g \in Thread : call[g].op = "touch" /\ call[g].token = t /\ call[g].now = seen[t]
            BY <5>2 DEF OnItsWay
          <6>2. CASE g = h
            BY <3>1, <6>1, <6>2
          <6>3. CASE g # h
            BY <1>2, <2>4, <6>1, <6>3 DEF Touch, TypeOK, OnItsWay
          <6> QED BY <6>2, <6>3
        <5> QED BY <2>1, <5>1, <5>2
      <4> QED BY <1>2, <3>1, <4>1, <4>2 DEF Told
    <3>3. CASE ~Due(t, call[h].name, now)
      <4>1. tokens'[t] = tokens[t]
        BY <2>4, <3>3 DEF Touch
      <4>2. CASE Told(t)
        BY <1>2, <4>1, <4>2 DEF Told
      <4>3. CASE OnItsWay(t)
        <5>1. PICK g \in Thread : call[g].op = "touch" /\ call[g].token = t /\ call[g].now = seen[t]
          BY <4>3 DEF OnItsWay
        <5>2. CASE g = h
          <6>1. tokens[t].name = call[h].name
            BY <5>1, <5>2 DEF CallInv
          <6>2. tokens[t].last # Never /\ tokens[t].last > now - Interval
            BY <2>1, <2>3, <3>1, <3>3, <6>1 DEF Due
          <6> QED BY <1>2, <4>1, <5>1, <5>2, <6>2 DEF Told
        <5>3. CASE g # h
          BY <1>2, <2>4, <5>1, <5>3 DEF Touch, TypeOK, OnItsWay
        <5> QED BY <5>2, <5>3
      <4> QED BY <2>1, <4>2, <4>3
    <3> QED BY <3>2, <3>3
  <2>5. CASE \A h \in Thread : ~Touch(h)
    <3>1. tokens'[t].last = tokens[t].last
      <4>1. CASE TablesStay \/ \E c \in Code : MintInvite(c)
        BY <4>1 DEF TablesStay, MintInvite
      <4>2. ASSUME NEW o \in Token, Issue(o) PROVE tokens'[t].last = tokens[t].last
        BY <2>1, <4>2, IssueRows
      <4>3. ASSUME NEW h \in Thread, Claim(h) PROVE tokens'[t].last = tokens[t].last
        BY <2>1, <4>3, ClaimRows
      <4>4. ASSUME NEW h \in Thread, Revoke(h) PROVE tokens'[t].last = tokens[t].last
        BY <2>1, <4>4, CallType, RetiredRows DEF Revoke, RevokeCall
      <4> QED BY <2>5, StepKinds, <4>1, <4>2, <4>3, <4>4
    <3>2. \A g \in Thread : call[g].op = "touch" => call'[g] = call[g]
      <4> SUFFICES ASSUME NEW g \in Thread, call[g].op = "touch" PROVE call'[g] = call[g]
        OBVIOUS
      <4> QED BY <2>5 DEF Next, vars, MintInvite, Issue, Tick, AskClaim, AskRevoke,
                AskVerify, Take, Claim, ClaimRefused, Revoke, Verify, Lookup, Answer, TypeOK
    <3>3. Told(t) => Told(t)'
      BY <1>2, <3>1 DEF Told
    <3>4. OnItsWay(t) => OnItsWay(t)'
      <4> SUFFICES ASSUME NEW g \in Thread, call[g].op = "touch" /\ call[g].token = t
                                            /\ call[g].now = seen[t]
                   PROVE  OnItsWay(t)'
        BY DEF OnItsWay
      <4>1. call'[g] = call[g]
        BY <3>2
      <4>2. call'[g].op = "touch" /\ call'[g].token = t /\ call'[g].now = seen'[t]
        BY <1>2, <4>1
      <4> QED BY <4>2 DEF OnItsWay
    <3> QED BY <2>1, <2>2, <3>3, <3>4
  <2> QED BY <2>2, <2>4, <2>5
<1>3. CASE \A h \in Thread : ~Verify(h)
  <2>1. seen' = seen
    BY <1>3 DEF Next, vars, history, MintInvite, Issue, AskClaim, AskRevoke, AskVerify,
       Claim, ClaimRefused, Revoke, Touch, Lookup, Answer, Tick
  <2> QED BY <1>2, <2>1
<1> QED BY <1>1, <1>2, <1>3

-----------------------------------------------------------------------------

\* The inductive invariant of the token store.
THEOREM Invariance == Spec => []IInv
<1>1. IInv /\ [Next]_vars => IInv'
  <2> SUFFICES ASSUME IInv, [Next]_vars PROVE IInv'
    OBVIOUS
  <2>1. TypeOK'
    BY TypeStep DEF IInv
  <2> QED BY <2>1, ClockStep, OneLiveStep, OriginStep, SpentStep, AnsweredStep, LateStep,
             CallStep, NamespaceStep, SeenStep DEF IInv
<1> QED BY InitInv, <1>1, PTL DEF Spec

\* Every variable keeps its type.
THEOREM TypeCorrect == Spec => []TypeOK
<1>1. IInv => TypeOK
  BY DEF IInv
<1> QED BY Invariance, <1>1, PTL

\* A claim never meets the index on live names.
THEOREM OneTokenEach == Spec => []OneLivePerName
<1>1. IInv => OneLivePerName
  BY DEF IInv
<1> QED BY Invariance, <1>1, PTL

\* However many claims of a code race, it makes one token.
THEOREM CodeClaimedOnce == Spec => []ClaimedOnce
<1>1. IInv => ClaimedOnce
  BY DEF IInv
<1> QED BY Invariance, <1>1, PTL

\* A code is spent on a token or closed by a revocation of its name.
THEOREM NoCodeBurnt == Spec => []SpentOnSomething
<1>1. IInv => SpentOnSomething
  BY DEF IInv
<1> QED BY Invariance, <1>1, PTL

\* A claim begun after a revocation mints nothing from what it met.
THEOREM RevocationHolds == Spec => []RevokedFirst
<1>1. IInv => RevokedFirst
  BY DEF IInv
<1> QED BY Invariance, <1>1, PTL

\* A request is served from the saves of the token that let it in.
THEOREM OwnNamespace == Spec => []NamespaceIsOwn
<1>1. IInv => NamespaceIsOwn
  BY DEF IInv
<1> QED BY Invariance, <1>1, PTL

\* Once the touches have landed, a row's last use is within the interval.
THEOREM LastUseIsTold == Spec => []SeenLately
<1>1. IInv => SeenLately
  BY DEF IInv, SeenInv, SeenLately, Told, OnItsWay
<1> QED BY Invariance, <1>1, PTL
=============================================================================
