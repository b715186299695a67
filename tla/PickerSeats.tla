---------------------------- MODULE PickerSeats -----------------------------
(***************************************************************************)
(* The picker and danstick's daemon (gotg_ui/danstick.py, keys.py, and the *)
(* loop's watch over both in app.py): a socket read once a frame, a daemon *)
(* that dies and is asked after again on a thread,                         *)
(* and the keyboard, which moves the picker while danstick says it holds a *)
(* seat.  The daemon is the external part: it seats, says so on every      *)
(* change, and answers a status with what is so then.                      *)
(***************************************************************************)
EXTENDS Naturals, Sequences

CONSTANTS Player,     \* who can be seated, the keyboard among them
          Keyboard,
          MaxInbox,   \* bound on what the daemon has sent and the picker not read
          MaxDeaths   \* bound on the daemons that die

VARIABLES daemon,  \* [up, seated, deaths], danstick's own
          wire,    \* [to, from]: commands and states on the socket
          link,    \* Danstick: [open, told, error], and the space bar
          watch    \* the restarter: "idle", "asking", "answered"

vars == <<daemon, wire, link, watch>>

NoWire == [to |-> <<>>, from |-> <<>>]
State(seated) == [end |-> FALSE, seated |-> seated]
End == [end |-> TRUE, seated |-> {}]

\* ensure_daemon at the start: it may have failed, and the grid is drawn.
Init == /\ \E up \in BOOLEAN : daemon = [up |-> up, seated |-> {}, deaths |-> 0]
        /\ wire = NoWire
        /\ link = [open |-> FALSE, told |-> {}, error |-> FALSE, space |-> "up"]
        /\ watch = "idle"

\* The other end of the socket is the daemon that is up now.
Linked == link.open /\ \A i \in DOMAIN wire.from : ~wire.from[i].end

(* the daemon *)

Seat ==
  /\ daemon.up /\ Len(wire.from) < MaxInbox
  /\ \E seated \in SUBSET Player :
       /\ seated # daemon.seated
       /\ daemon' = [daemon EXCEPT !.seated = seated]
       /\ wire' = IF Linked THEN [wire EXCEPT !.from = Append(@, State(seated))] ELSE wire
  /\ UNCHANGED <<link, watch>>

\* A status is answered with the state of that moment.
Reply ==
  /\ daemon.up /\ wire.to # <<>> /\ Len(wire.from) < MaxInbox
  /\ wire' = [to |-> Tail(wire.to), from |-> Append(wire.from, State(daemon.seated))]
  /\ UNCHANGED <<daemon, link, watch>>

\* What it had sent can still be read; the end of it is read after that.
Die ==
  /\ daemon.up /\ daemon.deaths < MaxDeaths
  /\ daemon' = [up |-> FALSE, seated |-> {}, deaths |-> daemon.deaths + 1]
  /\ wire' = [wire EXCEPT !.to = <<>>, !.from = IF Linked THEN Append(@, End) ELSE @]
  /\ UNCHANGED <<link, watch>>

(* danstick.py *)

close(l) == [l EXCEPT !.open = FALSE, !.told = {}]

\* Asked at once for its state: the daemon tells only of changes.
Connect ==
  /\ ~link.open
  /\ IF daemon.up
     THEN link' = [link EXCEPT !.open = TRUE, !.error = FALSE] /\ wire' = [to |-> <<"status">>, from |-> <<>>]
     ELSE link' = [link EXCEPT !.error = TRUE] /\ UNCHANGED wire
  /\ UNCHANGED <<daemon, watch>>

\* Everything that has arrived.  A closed connection is found before any of
\* what it had sent is read, and takes it along.
poll ==
  /\ link.open /\ wire.from # <<>>
  /\ IF wire.from[Len(wire.from)].end
     THEN link' = [close(link) EXCEPT !.error = TRUE] /\ wire' = NoWire
     ELSE /\ link' = [link EXCEPT !.told = wire.from[Len(wire.from)].seated]
          /\ wire' = [wire EXCEPT !.from = <<>>]
  /\ UNCHANGED <<daemon, watch>>

\* A send the socket refuses drops the connection with it.
send ==
  /\ link.open
  /\ IF daemon.up /\ Linked
     THEN wire.to = <<>> /\ wire' = [wire EXCEPT !.to = <<"status">>] /\ UNCHANGED link
     ELSE link' = [close(link) EXCEPT !.error = TRUE] /\ wire' = NoWire
  /\ UNCHANGED <<daemon, watch>>

(* the loop: while nothing is connected, one ensure_daemon at a time *)

Ask == ~link.open /\ watch = "idle" /\ watch' = "asking" /\ UNCHANGED <<daemon, wire, link>>

\* Not fresh: the daemon that comes back seats who was seated.
ensure_daemon ==
  /\ watch = "asking" /\ watch' = "answered"
  /\ \/ \E seated \in SUBSET Player :
          daemon' = IF daemon.up THEN daemon ELSE [daemon EXCEPT !.up = TRUE, !.seated = seated]
     \/ UNCHANGED daemon
  /\ UNCHANGED <<wire, link>>

Collect == ~link.open /\ watch = "answered" /\ watch' = "idle" /\ UNCHANGED <<daemon, wire, link>>

(* keys.py: the keyboard takes a seat like everything else *)

drives == link.open /\ Keyboard \in link.told

\* The space bar, heard seated or not: a tap opens the menu, a hold was a seat.
Space ==
  /\ link' = [link EXCEPT !.space = CASE @ = "up" -> "down" [] @ = "down" -> "held" [] @ = "held" -> "up"]
  /\ UNCHANGED <<daemon, wire, watch>>

Tap == link.space = "down" /\ link' = [link EXCEPT !.space = "up"] /\ UNCHANGED <<daemon, wire, watch>>

Next == Seat \/ Reply \/ Die \/ Connect \/ poll \/ send \/ Ask \/ ensure_daemon \/ Collect \/ Space \/ Tap

Spec == Init /\ [][Next]_vars

\* Who the picker believes is seated is who the daemon it is connected to has
\* seated, once nothing it said or was asked is still on the wire, and nobody
\* while there is no connection: a daemon that died takes its seats along, the
\* keyboard's too, and a new one's are learned without a change
\* (danstick.py connect, _drop, poll; keys.py drives).
ToldIsTrue ==
  /\ Linked /\ wire = NoWire => link.told = daemon.seated
  /\ ~link.open => link.told = {} /\ ~drives
=============================================================================
