----------------------------- MODULE Connection ------------------------------
(***************************************************************************)
(* One kept-alive connection of the service (service/app.py and its        *)
(* routes): requests follow each other on one socket, each with the body   *)
(* it declares, and are answered by a thread that reads as it goes.  What  *)
(* a request left unread is what the next one is read from, so an answer   *)
(* that leaves a body behind closes.  A client may be gone at any moment,  *)
(* and what it had sent can still be read.                                 *)
(*                                                                         *)
(* A request is [top, verb, who, length, climbs]: the first part of its    *)
(* path, its method, whose credential it carries, the units of body it     *)
(* declares (Unreadable for a length that is no number, or is negative),   *)
(* and whether its path climbs.  Bodies are declared by a length.          *)
(***************************************************************************)
EXTENDS Integers, Sequences

CONSTANTS Request,
          listener,    \* "public", "admin" or "both"
          Cap,         \* units of body a route takes: body_cap
          Unreadable,  \* a Content-Length no number is read from
          MaxRequests  \* bound

VARIABLES wire,    \* what was sent and not read yet: heads and units of body
          client,  \* [sent, owes, gone]: requests sent, units of the last one's body still to send
          open,    \* the service's end
          at,      \* where the thread is: "parse", "route", "auth", "body", "dispatch"
          req,     \* the head in hand
          answers, \* per answer: [to, r, code, body]
          taken    \* what a store was given: [declared, got]

vars == <<wire, client, open, at, req, answers, taken>>

None == [kind |-> "none"]

Init == /\ wire = <<>> /\ client = [sent |-> 0, owes |-> 0, gone |-> FALSE]
        /\ open = TRUE /\ at = "parse" /\ req = None
        /\ answers = <<>> /\ taken = {}

Reads(r) == r.verb \in {"GET", "HEAD"}

\* A build's body is left for its route to read.
streamed(r) == r.top = "ports" /\ r.verb = "PUT"

(* the client *)

Send ==
  /\ open /\ ~client.gone /\ client.owes = 0 /\ client.sent < MaxRequests
  /\ \E r \in Request :
       /\ wire' = Append(wire, [kind |-> "head", r |-> r, n |-> client.sent + 1, got |-> 0])
       /\ client' = [client EXCEPT !.sent = @ + 1, !.owes = IF r.length = Unreadable THEN 1 ELSE r.length]
  /\ UNCHANGED <<open, at, req, answers, taken>>

SendBody ==
  /\ open /\ ~client.gone /\ client.owes > 0
  /\ wire' = Append(wire, [kind |-> "body"])
  /\ client' = [client EXCEPT !.owes = @ - 1]
  /\ UNCHANGED <<open, at, req, answers, taken>>

Vanish == /\ open /\ ~client.gone /\ client' = [client EXCEPT !.gone = TRUE]
          /\ UNCHANGED <<wire, open, at, req, answers, taken>>

(* the handler *)

\* _send, _json, _problem: close_connection ends the connection with the answer.
Answer(code, closes) ==
  /\ answers' = Append(answers, [to |-> req.n, r |-> req.r, code |-> code, body |-> req.r.verb # "HEAD"])
  /\ at' = "parse" /\ open' = ~closes /\ req' = None

Goes(stage) == at' = stage /\ UNCHANGED <<open, req, answers>>

\* handle_one_request: the next line is a request's, or this is the end.
Parse ==
  /\ open /\ at = "parse"
  /\ \/ /\ wire # <<>> /\ Head(wire).kind = "head"
        /\ req' = Head(wire) /\ wire' = Tail(wire)
        /\ at' = "route" /\ UNCHANGED open
     \/ wire = <<>> /\ client.gone /\ open' = FALSE /\ UNCHANGED <<wire, at, req>>
  /\ UNCHANGED <<client, answers, taken>>

Routing == open /\ at = "route" /\ UNCHANGED <<wire, client, taken>>

do_OPTIONS == Routing /\ req.r.verb = "OPTIONS" /\ Answer(204, TRUE)

\* Which half of the service this socket is.
refused(r) == \/ listener = "public" /\ r.top = "admin"
              \/ listener = "admin" /\ r.top \notin {"admin", "healthz", "logs", "ui"}

\* The admin page; /ui and its files; sign-in, whatever the verb; the player's
\* page; healthz; and a claim, whose body is read by its route, if at all.
pre_auth(r) == \/ Reads(r) /\ r.top \in {"adminpage", "ui"}
               \/ r.top \in {"signin", "healthz"}
               \/ r.verb = "POST" /\ r.top = "claim"

play_page(r) == Reads(r) /\ r.top = "play" /\ listener # "admin"

Route ==
  /\ Routing /\ req.r.verb # "OPTIONS"
  /\ IF refused(req.r) THEN Answer(404, TRUE)
     ELSE IF pre_auth(req.r) \/ play_page(req.r) THEN \E code \in {200, 404} : Answer(code, TRUE)
     ELSE Goes("auth")

admin_token_reaches(r) == \/ r.top = "admin"
                          \/ r.top = "logs" /\ r.verb \in {"GET", "DELETE"} /\ listener # "public"

\* Decided before the route is looked at, so that all of it reads alike to a
\* stranger; and before the body, which only a bearer may send.
Authenticate ==
  /\ open /\ at = "auth" /\ UNCHANGED <<wire, client, taken>>
  /\ IF req.r.who = "nobody" THEN Answer(401, TRUE)
     ELSE IF req.r.who = "foreign page" /\ ~Reads(req.r) THEN Answer(403, TRUE)
     ELSE IF req.r.who = "admin" /\ ~admin_token_reaches(req.r) THEN Answer(401, TRUE)
     ELSE Goes(IF streamed(req.r) THEN "dispatch" ELSE "body")

\* What there is of the body, once it is all there or no more will come.
Readable == Len(wire) >= req.r.length \/ client.gone
Got == IF Len(wire) < req.r.length THEN Len(wire) ELSE req.r.length
Read == wire' = SubSeq(wire, Got + 1, Len(wire))

ReadBody ==
  /\ open /\ at = "body" /\ UNCHANGED <<client, taken>>
  /\ IF req.r.length = Unreadable THEN Answer(400, TRUE) /\ UNCHANGED wire
     ELSE IF req.r.length > Cap THEN Answer(413, TRUE) /\ UNCHANGED wire
     ELSE /\ Readable /\ Read /\ at' = "dispatch" /\ UNCHANGED <<open, answers>>
          /\ req' = [req EXCEPT !.got = Got]

Dispatching == open /\ at = "dispatch" /\ UNCHANGED client

ClimbsKept ==
  Dispatching /\ req.r.climbs /\ Answer(400, FALSE) /\ UNCHANGED <<wire, taken>>

Climbs ==
  /\ Dispatching /\ req.r.climbs /\ UNCHANGED <<wire, taken>>
  /\ Answer(400, streamed(req.r) \/ req.r.length = 0)

\* A save, a log or a picture is stored as it was read; or it is refused.
Store ==
  /\ Dispatching /\ ~req.r.climbs /\ req.r.top = "saves" /\ req.r.verb = "PUT" /\ UNCHANGED wire
  /\ \/ req.got > 0 /\ taken' = taken \cup {[declared |-> req.r.length, got |-> req.got]} /\ Answer(200, FALSE)
     \/ Answer(400, FALSE) /\ UNCHANGED taken

\* What is streamed may end short.
Stream ==
  /\ Dispatching /\ ~req.r.climbs /\ req.r.top = "games" /\ UNCHANGED <<wire, taken>>
  /\ \E short \in BOOLEAN : Answer(200, short /\ req.r.verb = "GET")

Serve ==
  /\ Dispatching /\ ~req.r.climbs /\ ~streamed(req.r) /\ UNCHANGED <<wire, taken>>
  /\ req.r.top # "games" /\ ~(req.r.top = "saves" /\ req.r.verb = "PUT")
  /\ \E code \in {200, 404} : Answer(code, FALSE)

\* A build is read by its route: every refusal leaves it unread, or part of it.
put ==
  /\ Dispatching /\ ~req.r.climbs /\ streamed(req.r)
  /\ \/ /\ Answer(IF req.r.length \in {0, Unreadable} THEN 411 ELSE IF req.r.length > Cap THEN 413 ELSE 404, TRUE)
        /\ UNCHANGED <<wire, taken>>
     \/ /\ req.r.length \in 1..Cap /\ Readable /\ Read
        /\ IF Got < req.r.length THEN Answer(400, TRUE) /\ UNCHANGED taken
           ELSE /\ taken' = taken \cup {[declared |-> req.r.length, got |-> Got]}
                /\ Answer(200, FALSE)

\* Nothing came for as long as a socket waits: closed, with no answer.
TimeOut ==
  /\ open /\ ~client.gone
  /\ \/ at = "parse" /\ wire = <<>>
     \/ at = "body" /\ req.r.length \in 1..Cap /\ Len(wire) < req.r.length
     \/ at = "dispatch" /\ streamed(req.r) /\ ~req.r.climbs /\ req.r.length \in 1..Cap /\ Len(wire) < req.r.length
  /\ open' = FALSE
  /\ UNCHANGED <<wire, client, at, req, answers, taken>>

Next == \/ Send \/ SendBody \/ Vanish
        \/ Parse \/ do_OPTIONS \/ Route \/ Authenticate \/ ReadBody
        \/ Climbs \/ Store \/ Stream \/ Serve \/ put \/ TimeOut

Spec == Init /\ [][Next]_vars

-----------------------------------------------------------------------------
\* Whatever a request was answered, and wherever: what the connection reads next
\* as a request is one, each answer is the next request's, a HEAD's has no body,
\* and a stranger past the open pages is told 401 and nothing else (the rule of
\* _problem's close, of _send for HEAD, and of _handle's order).
AnswersAreFramed ==
  /\ open /\ at = "parse" /\ wire # <<>> => Head(wire).kind = "head"
  /\ \A i \in DOMAIN answers :
       LET a == answers[i] IN
       /\ a.to = i /\ (a.r.verb = "HEAD" => ~a.body)
       /\ a.r.who = "nobody" /\ a.r.verb # "OPTIONS" /\ ~refused(a.r) /\ ~pre_auth(a.r) /\ ~play_page(a.r)
            => a.code = 401

\* A client that dies while it sends is a delay, not a loss: what a store was
\* given is all its client meant to send (docs/saves-plan.md:461).  It does not
\* hold: a body that ends short is read as far as it came, and stored.
CutIsRefused == \A t \in taken : t.got = t.declared
=============================================================================
