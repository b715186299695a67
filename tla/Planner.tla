------------------------------- MODULE Planner -------------------------------
(***************************************************************************)
(* From a payload to what is to be done with it (gotg/indexer: scan.py,    *)
(* classify.py, planner.py, plan.py, slugify.py, rules.py): a probe, a     *)
(* verdict, then one operation per game.  A name is what the parser gets   *)
(* out of it: its region, its slug and its revision (the words between the *)
(* underscores), the numbers in the revision (each as n and the power of   *)
(* ten its digits make room for), how many tags say it is another          *)
(* distribution, whether it is retail, whether its id is one and the role  *)
(* it claims.  The state is one payload's way through.                     *)
(***************************************************************************)
EXTENDS Integers, Sequences, FiniteSetsExt

CONSTANTS Name,      \* the names there are: records as described above
          PlatformOf,\* rules.extensions: extension -> platform
          DatDirs,   \* rules.dat_dirs: a directory's slug -> <<handler, platform>>
          Target,    \* rules.targets: platform -> extension
          Overrides, \* rules.scene_overrides: slug -> region
          MinSet,    \* rules.min_set_files
          MaxFiles   \* bound: files in a directory

None == ""
Nowhere == <<>>                               \* the dst of what is not filed
Packing == {"rar", "sfv", "nfo"}              \* archive_exts
Volumes == {"r00"}                            \* VOLUME_RE
Lone == {"7z", "rar"}                         \* SINGLE_ARCHIVE_EXTS
Extras == {"switch"}                          \* EXTRAS_PLATFORMS
Region == <<"usa", "world", "eur", "jpn">>    \* _REGION_PRIORITY

VARIABLES source,   \* the payload as probed
          verdict,  \* what it was classified as
          ops,      \* what is planned for it
          at        \* how far it is

vars == <<source, verdict, ops, at>>

\* What a probe returns.  marks: what else it is evidence of -- decrypted
\* output with an executable in code/, or a raw download with its TMD.
Source == [is_dir : BOOLEAN, name : Name, marks : {None, "decrypted", "nus"},
           files : UNION {kSubset(k, Name) : k \in 0..MaxFiles},
           members : UNION {kSubset(k, Name) : k \in 0..1}]

Verdict(handler, platform) == [handler |-> handler, platform |-> platform]
Manual == Verdict("manual", None)

Init == source = None /\ verdict = Manual /\ ops = {} /\ at = "idle"

\* scan: a file has no entries; only a lone archive or a release with a .rar is
\* listed, and the listing is empty when the tool is missing, late or fails.
Scan(s) ==
  /\ s.is_dir \/ (s.files = {} /\ s.marks = None)
  /\ s.members # {} => IF s.is_dir THEN \E f \in s.files : f.ext = "rar" ELSE s.name.ext \in Lone
  /\ source' = s /\ verdict' = Manual /\ ops' = {} /\ at' = "classify"

platform_for_ext(e) == IF e \in DOMAIN PlatformOf THEN PlatformOf[e] ELSE None
is_rom_name(n) == n.ext # None /\ n.ext \notin Packing \cup Volumes
Roms(names) == {n \in names : is_rom_name(n)}

\* _platform_from_names: the platforms that most of the ROM names vote for (a
\* tie goes to the first name met), and how many did.
Votes(names, p) == Cardinality({n \in Roms(names) : platform_for_ext(n.ext) = p})
Named(names) == {platform_for_ext(n.ext) : n \in Roms(names)} \ {None}
Winners(names) == {p \in Named(names) : \A q \in Named(names) : Votes(names, p) >= Votes(names, q)}

Has(s, e) == \E f \in s.files : f.ext = e
IsScene(s) == Has(s, "rar") /\ (Has(s, "r00") \/ Has(s, "sfv"))  \* _is_scene_archive

\* classify: a file by its extension or what it packs, a directory by its name
\* and then by what is in it.  The verdicts it can come to.
Of(handler, platforms) == IF platforms = {} THEN {Manual} ELSE {Verdict(handler, p) : p \in platforms}
Verdicts(s) ==
  CASE ~s.is_dir /\ platform_for_ext(s.name.ext) # None -> {Verdict("single_file", platform_for_ext(s.name.ext))}
    [] ~s.is_dir /\ platform_for_ext(s.name.ext) = None -> Of("single_archive", Winners(s.members))
    [] s.is_dir /\ s.name.slug \in DOMAIN DatDirs -> {Verdict(DatDirs[s.name.slug][1], DatDirs[s.name.slug][2])}
    [] OTHER ->
         CASE s.marks = "decrypted" -> {Verdict("wiiu_decrypted", "wiiu")}
           [] s.marks = "nus" -> {Verdict("wiiu_nus", "wiiu")}
           [] s.marks = None /\ IsScene(s) ->
                Of("scene_archive", IF Winners(s.files) # {} THEN Winners(s.files) ELSE Winners(s.members))
           [] OTHER -> (UNION {Of(IF Votes(s.files, p) = 1 /\ MinSet > 1 THEN "single_file" ELSE "no_intro_set", {p}) :
                                p \in Winners(s.files)})
                       \cup (IF Winners(s.files) = {} THEN {Manual} ELSE {})

Classify == /\ at = "classify" /\ at' = "plan"
            /\ verdict' \in Verdicts(source)
            /\ UNCHANGED <<source, ops>>

-----------------------------------------------------------------------------

\* The slug and the revision run on into one another.
entry_id(n) == <<n.region, n.slug \o n.rev>>
Dst(platform, n, ext) == <<platform, entry_id(n), ext>>
Op(action, platform, n, dst) ==
  [action |-> action, platform |-> platform, from |-> n, entry |-> entry_id(n), dst |-> dst]
Refer(platform, n) == Op("manual", platform, n, Nowhere)
Unnamed(action, platform, n) == [Op(action, platform, n, Nowhere) EXCEPT !.entry = Nowhere]

\* _rev_sort_key: the digits of the revision's numbers read as one number.
RevKey(n) ==
  LET read[i \in 0..Len(n.nums)] == IF i = 0 THEN 0 ELSE read[i - 1] * n.nums[i].tens + n.nums[i].n
  IN read[Len(n.nums)]
RegionIdx(n) == CHOOSE i \in DOMAIN Region : Region[i] = n.region
Better(a, b) == \/ RegionIdx(a) < RegionIdx(b)
                \/ RegionIdx(a) = RegionIdx(b) /\ RevKey(a) > RevKey(b)
                \/ RegionIdx(a) = RegionIdx(b) /\ RevKey(a) = RevKey(b) /\ a.tags < b.tags

\* select_1g1r: the first of the best retail dumps with an id, as a set of one,
\* or of none.
RetailAny(group) == {n \in group : n.valid}  \* mutant
Retail(group) == {n \in group : n.retail /\ n.valid}
select_1g1r(group) ==
  IF Retail(group) = {} THEN {}
  ELSE {CHOOSE n \in Retail(group) : \A o \in Retail(group) : ~Better(o, n)}

Groups(names) == {{n \in names : n.slug = s} : s \in {n.slug : n \in names}}

\* One group of a set: nothing retail is skipped whole, and what has no id is
\* left for a person.
PlanGroup(platform, group, kept, action, target) ==
  LET ext(n) == IF target # None THEN target ELSE n.ext
  IN IF kept = {} THEN {Op("skip", platform, CHOOSE n \in group : TRUE, Nowhere)}
     ELSE {IF n.valid THEN Op(action, platform, n, Dst(platform, n, ext(n))) ELSE Refer(platform, n) : n \in kept}

plan_no_intro_set(platform, names, one_g_one_r) ==
  UNION {PlanGroup(platform, g, IF one_g_one_r THEN select_1g1r(g) ELSE g, "hardlink", None) : g \in Groups(names)}

target_for(platform) == IF platform \in DOMAIN Target THEN Target[platform] ELSE None
plan_archive_set(platform, names) ==
  LET target == target_for(platform)
      action == IF target # None THEN "convert" ELSE "extract"
  IN UNION {PlanGroup(platform, g, select_1g1r(g), action, target) : g \in Groups(names)}

\* _attach: onto the base game, where the platform's recipe installs extras.
Attach(platform, n) ==
  LET base == [n EXCEPT !.rev = <<>>]
  IN IF platform \in Extras THEN Op("attach", platform, base, Nowhere) ELSE Refer(platform, base)

plan_single_archive(platform, n, inner) ==
  LET ext == IF target_for(platform) # None THEN target_for(platform) ELSE inner
  IN IF ~n.valid THEN Refer(platform, n)
     ELSE IF n.role # None THEN Attach(platform, n)
     ELSE Op(IF ext = inner THEN "extract" ELSE "convert", platform, n, Dst(platform, n, ext))

\* plan_scene_archive: the release directory names the game, and has no region
\* of its own and no revision outside an update's.
plan_scene_archive(platform, n, inner) ==
  LET region == IF n.slug \in DOMAIN Overrides THEN Overrides[n.slug] ELSE "world"
      game == [n EXCEPT !.region = region, !.rev = <<>>]
  IN IF n.role # None THEN Attach(platform, game)
     ELSE Op("extract", platform, game, Dst(platform, game, inner))

\* Deferred, with the file it is meant for.
plan_wiiu_nus(n) ==
  IF n.valid THEN Op("manual", "wiiu", n, Dst("wiiu", n, "zip")) ELSE Unnamed("manual", "wiiu", n)

Inner(s) == IF Roms(s.files) # {} THEN Roms(s.files) ELSE Roms(s.members)

\* The names a set is made of.
Dumps(s, v) == IF v.handler = "archive_set" THEN {n \in s.files : n.ext \in Lone} ELSE Roms(s.files)

\* By handler, every plan the names' order allows; who is unknown goes to a person.
ByHandler(s, v) ==
  CASE v.handler = "wiiu_decrypted" ->
         {{IF s.name.valid THEN Op("archive", "wiiu", s.name, Dst("wiiu", s.name, "zip")) ELSE Refer("wiiu", s.name)}}
    [] v.handler = "wiiu_nus" -> {{plan_wiiu_nus(s.name)}}
    [] v.handler = "scene_archive" -> {{plan_scene_archive(v.platform, s.name, n.ext)} : n \in Inner(s)}
    [] v.handler = "single_archive" -> {{plan_single_archive(v.platform, s.name, n.ext)} : n \in Roms(s.members)}
    [] v.handler = "no_intro_set" -> {plan_no_intro_set(v.platform, Dumps(s, v), TRUE)}
    [] v.handler = "archive_set" -> {plan_archive_set(v.platform, Dumps(s, v))}
    [] v.handler = "single_file" -> {plan_no_intro_set(v.platform, IF s.is_dir THEN Dumps(s, v) ELSE {s.name}, FALSE)}
    [] OTHER -> {{Unnamed("manual", v.platform, s.name)}}

\* _plan_classified: nothing goes anywhere without a platform.
Plans(s, v) ==
  IF v.handler = "excluded" THEN {{Unnamed("skip", v.platform, s.name)}}
  ELSE IF v.platform = None THEN {{Unnamed("manual", None, s.name)}} ELSE ByHandler(s, v)

Plan == /\ at = "plan" /\ at' = "done"
        /\ ops' \in Plans(source, verdict)
        /\ UNCHANGED <<source, verdict>>

\* The importer's loop goes on to its next payload.
Onwards == /\ at = "done" /\ at' = "idle"
           /\ source' = None /\ verdict' = Manual /\ ops' = {}

Next == (at = "idle" /\ \E s \in Source : Scan(s)) \/ Classify \/ Plan \/ Onwards
Spec == Init /\ [][Next]_vars

-----------------------------------------------------------------------------

\* What puts a file in the library.
Files(op) == op.dst # Nowhere /\ op.action # "manual"
Placed == {op \in ops : Files(op)}
Sets == {"no_intro_set", "archive_set"}

\* Nothing has a place without a platform and an id, not even what waits for a
\* person; an update or DLC travelling in an archive never becomes a game of its
\* own, and only goes where extras are installed (planner.py:79-91,
\* plan.py:53-86).  Two titles may have one id, and then their files meet.
FiledRight ==
  /\ \A op \in ops : op.dst # Nowhere => op.platform # None /\ (verdict.handler # "scene_archive" => op.from.valid)
  /\ verdict.handler \in {"scene_archive", "single_archive"} /\ source.name.role # None => Placed = {}
  /\ \A op \in ops : op.action = "attach" => op.platform \in Extras

\* A revision's number, of those that have one at most.
Number(n) == IF n.nums = <<>> THEN 0 ELSE n.nums[1].n

\* A set keeps one dump of each title that has a retail dump at all, and none of
\* a title that has none.  The one kept is not beaten on region; of one region, it
\* is no older than another where revisions are plain numbers, and of one revision
\* it has no more marks of another distribution (slugify.py:234-256).
OneEach ==
  verdict.handler \in Sets /\ at = "done" =>
    \A g \in Groups(Dumps(source, verdict)) :
      LET kept == {op.from : op \in Placed} \cap g
          fit == {n \in g : n.retail /\ n.valid}
      IN /\ Cardinality(kept) = IF fit = {} THEN 0 ELSE 1
         /\ \A k \in kept, n \in fit :
              /\ RegionIdx(k) <= RegionIdx(n)
              /\ k.region = n.region /\ Len(k.nums) <= 1 /\ Len(n.nums) <= 1 => Number(n) <= Number(k)
              /\ k.region = n.region /\ k.nums = n.nums => k.tags <= n.tags

\* The same of any revision (select_1g1r: "then the highest revision").  It does not
\* hold, and PlanIsSound does not have it: read as one number, v1.2 is above v2.
Newer(a, b) ==
  \E i \in DOMAIN a.nums : /\ \A j \in 1..(i - 1) : j \in DOMAIN b.nums /\ a.nums[j].n = b.nums[j].n
                          /\ i \in DOMAIN b.nums => a.nums[i].n > b.nums[i].n
HighestKept ==
  verdict.handler \in Sets /\ at = "done" =>
    \A k \in {op.from : op \in Placed}, n \in Dumps(source, verdict) :
      k.slug = n.slug /\ k.region = n.region /\ n.retail /\ n.valid => ~Newer(n, k)

\* Both, of every payload.
PlanIsSound == FiledRight /\ OneEach

=============================================================================
