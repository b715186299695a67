------------------------------ MODULE MCServer -------------------------------
(***************************************************************************)
(* The service's parts on small instances.                                 *)
(***************************************************************************)
EXTENDS Service, TLC

CONSTANTS t1, t2

MCThread == {t1, t2}
MCUploader == MCThread \cup {"t3"}
ServerSymmetry == Permutations(MCThread)

\* A name that is its own slug, one that is not, and none.
Plain(text, words) == [text |-> text, plain |-> TRUE, slug |-> words, short |-> words, digest |-> ""]
Altered(text, words, digest) ==
  [text |-> text, plain |-> FALSE, slug |-> words, short |-> words, digest |-> digest]
NoName == Altered("", <<"u">>, "e3b0c")

OnList(login, email, local, domain, subject) ==
  [login |-> login, email |-> email, local |-> local, domain |-> domain, subject |-> subject]

\* Two logins that sanitize alike, the second admitted by its domain; two people
\* without a login whose e-mails begin alike; and one who is not on the list.
MCPerson ==
  {OnList(Plain("foo-bar", <<"foo", "bar">>), NoName, NoName, "", Plain("1", <<"1">>)),
   OnList(Altered("foo.bar", <<"foo", "bar">>, "2595d"), Altered("f@here", <<"f", "here">>, "21544"),
          Plain("f", <<"f">>), "@here", Plain("2", <<"2">>)),
   OnList(NoName, Altered("ann@here", <<"ann", "here">>, "f44f3"), Plain("ann", <<"ann">>), "@here", Plain("3", <<"3">>)),
   OnList(NoName, Altered("ann@there", <<"ann", "there">>, "ccb3d"), Plain("ann", <<"ann">>), "@there", Plain("4", <<"4">>)),
   OnList(Plain("eve", <<"eve">>), NoName, NoName, "", Plain("5", <<"5">>))}

\* Two games, and an update of the first.
MCOf == ("a1" :> "a") @@ ("b1" :> "b") @@ ("u" :> "a")
MCBefore == {<<"a1", "b1">>}

\* One game with two updates.
MCOfOne == ("a1" :> "a") @@ ("u" :> "a") @@ ("v" :> "a")

Dump(slug, region, rev, nums, tags, retail, valid, role, ext) ==
  [slug |-> slug, region |-> region, rev |-> rev, nums |-> nums, tags |-> tags, retail |-> retail,
   valid |-> valid, role |-> role, ext |-> ext]
Num(n) == [n |-> n, tens |-> IF n < 10 THEN 10 ELSE 100]

\* Of "a": no revision, "Rev 9" plain and of another distribution, and "Rev 10" from
\* Europe, where "a (v1.2)" and a title "a v1.2" have one id.
MCName ==
  {Dump(<<"a">>, "usa", <<>>, <<>>, 0, TRUE, TRUE, "", "sfc"),
   Dump(<<"a">>, "usa", <<"rev9">>, <<Num(9)>>, 0, TRUE, TRUE, "", "sfc"),
   Dump(<<"a">>, "usa", <<"rev9">>, <<Num(9)>>, 1, TRUE, TRUE, "", "sfc"),
   Dump(<<"a">>, "eur", <<"rev10">>, <<Num(10)>>, 0, TRUE, TRUE, "", "sfc"),
   Dump(<<"a">>, "eur", <<"v1", "2">>, <<Num(1), Num(2)>>, 0, TRUE, TRUE, "", "sfc"),
   Dump(<<"a", "v1", "2">>, "eur", <<>>, <<>>, 0, TRUE, TRUE, "", "sfc"),
   Dump(<<"b">>, "usa", <<>>, <<>>, 1, FALSE, TRUE, "", "nsp"),
   Dump(<<"b">>, "world", <<>>, <<>>, 0, TRUE, FALSE, "", "nsp"),
   Dump(<<"c">>, "usa", <<"v2">>, <<Num(2)>>, 1, TRUE, TRUE, "update", "7z"),
   Dump(<<"c">>, "usa", <<>>, <<>>, 0, TRUE, TRUE, "", "rar"),
   Dump(<<"s">>, "world", <<>>, <<>>, 0, TRUE, TRUE, "", "r00"),
   Dump(<<"d">>, "usa", <<>>, <<>>, 0, TRUE, TRUE, "", "iso"),
   Dump(<<"x">>, "usa", <<>>, <<>>, 0, TRUE, TRUE, "", "pdf")}

\* What is read and answered in each way, and with bodies where nothing reads one.
Http(top, verb, who, length, climbs) ==
  [top |-> top, verb |-> verb, who |-> who, length |-> length, climbs |-> climbs]

MCRequest ==
  {Http("games", verb, "person", 0, FALSE) : verb \in {"GET", "HEAD"}}
    \cup {Http("saves", "PUT", "person", n, FALSE) : n \in {0, 1, 2, 3, -1}}
    \cup {Http("saves", "PUT", "person", n, TRUE) : n \in {0, 1}}
    \cup {Http("ports", "PUT", "person", n, c) : n \in {1, 2, 3}, c \in BOOLEAN}
    \cup {Http("ports", "PUT", "person", -1, FALSE), Http("saves", "PUT", "nobody", 1, FALSE),
          Http("games", "HEAD", "nobody", 0, FALSE), Http("igdb", "POST", "foreign page", 1, FALSE),
          Http("saves", "OPTIONS", "nobody", 1, FALSE), Http("claim", "POST", "nobody", 1, FALSE),
          Http("claim", "GET", "nobody", 1, FALSE), Http("healthz", "GET", "nobody", 1, FALSE),
          Http("play", "GET", "nobody", 1, FALSE), Http("signin", "POST", "nobody", 1, FALSE),
          Http("admin", "PUT", "admin", 1, FALSE), Http("logs", "GET", "admin", 1, FALSE)}

MCPlatformOf == [sfc |-> "snes", nsp |-> "switch", iso |-> "gamecube"]
MCDatDirs == (<<"s">> :> <<"archive_set", "gamecube">>) @@ (<<"x">> :> <<"excluded", "nes">>)
MCTarget == [gamecube |-> "rvz"]
MCOverrides == <<"c">> :> "usa"

\* The versions of a downloaded payload, of as many units.
MCSize == <<2, 3, 1>>
MCUnreadable == -1
MCOneBefore == {<<"u", "v">>}
=============================================================================
