------------------------------ MODULE SavesHead ------------------------------
(***************************************************************************)
(* What the service's saves store promises for one environment of one      *)
(* user: a numbered head that moves by compare-and-set.  A push names the  *)
(* hash it descends from; it is answered in one indivisible step that      *)
(* either advances the head by one generation, finds its own bytes already *)
(* there, or is refused with the head it lost to.                          *)
(***************************************************************************)
EXTENDS Naturals

CONSTANTS Thread,   \* the service's request threads
          Hash,     \* what a bundle may hash to
          NoHash    \* the parent of a machine that never synced ("")

VARIABLES head,     \* [gen, hash]; generation 0 is "nothing pushed"
          call      \* per thread: the push it is serving

headVars == <<head, call>>

Parent == Hash \cup {NoHash}
Empty == [gen |-> 0, hash |-> NoHash]
Idle == [st |-> "idle", body |-> NoHash, parent |-> NoHash,
         force |-> FALSE, reply |-> "none"]

HInit == /\ head = Empty
         /\ call = [t \in Thread |-> Idle]

HAsk(t) ==
  /\ call[t].st = "idle"
  /\ \E b \in Hash, p \in Parent, f \in BOOLEAN :
       call' = [call EXCEPT ![t] = [st |-> "asked", body |-> b, parent |-> p,
                                    force |-> f, reply |-> "none"]]
  /\ UNCHANGED head

Settled(c, r) == [st |-> "done", body |-> c.body, parent |-> c.parent,
                  force |-> c.force, reply |-> r]

HReply(t, r) == call' = [call EXCEPT ![t] = Settled(call[t], r)]

\* The same bytes as the head: a success that changes nothing.
HSame(t) ==
  /\ call[t].st = "asked" /\ head.gen > 0 /\ call[t].body = head.hash
  /\ HReply(t, "same")
  /\ UNCHANGED head

\* The head is not what the push descends from: refused.
HRefuse(t) ==
  /\ call[t].st = "asked" /\ head.gen > 0
  /\ call[t].body # head.hash
  /\ ~call[t].force /\ call[t].parent # head.hash
  /\ HReply(t, "conflict")
  /\ UNCHANGED head

HAdvance(t) ==
  /\ call[t].st = "asked"
  /\ head.gen > 0 => /\ call[t].body # head.hash
                     /\ call[t].force \/ call[t].parent = head.hash
  /\ head' = [gen |-> head.gen + 1, hash |-> call[t].body]
  /\ HReply(t, "advanced")

\* The push fails: before it was decided (nothing happened), or after, when
\* only its answer is an error.
HFail(t) ==
  /\ call[t].st # "idle"
  /\ HReply(t, "error")
  /\ UNCHANGED head

HAnswer(t) ==
  /\ call[t].st = "done"
  /\ call' = [call EXCEPT ![t] = Idle]
  /\ UNCHANGED head

\* The service restarts: every push in flight is forgotten, the head is not.
HCrash == /\ call' = [t \in Thread |-> Idle]
          /\ UNCHANGED head

HNext == \/ \E t \in Thread : \/ HAsk(t) \/ HSame(t) \/ HRefuse(t)
                              \/ HAdvance(t) \/ HFail(t) \/ HAnswer(t)
         \/ HCrash

HSpec == HInit /\ [][HNext]_headVars
=============================================================================
