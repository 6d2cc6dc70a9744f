--------------------------- MODULE DecisionRecord ---------------------------
(***************************************************************************)
(* The life of a decision record in a repository: the one-time split of a  *)
(* monolithic DECISIONS.md (scripts/split-decisions.mjs), the freeze of    *)
(* what it gave (gen-decisions-baseline.mjs), and then years of people     *)
(* writing, retiring, converting, archiving and deleting records, running  *)
(* gen:decisions, which may be killed between two of its writes, and       *)
(* committing when check:decisions is green, on two branches that merge.   *)
(***************************************************************************)
EXTENDS DecisionGate

CONSTANTS
  Monolith,  \* what the monolith decides: [name, id, cites] of each decision
  Drafts,    \* what people write: [name, id, topic, supersedes, amends, cites,
             \*   fits, slip]
  Earlier,   \* those written before the story starts
  Prose,     \* the specification, as written by hand
  MaxEdits,  \* bound: changes made by hand,
  Fresh,     \*   and how many of them are left to a record that is still to be split
  NoSide     \* no second branch is waiting to be merged

\* Each decision of the monolith gets a file that load() looks at.
ASSUME MonolithAssumption == \A d \in Monolith : d.name \in Names \ Strays

\* A file has so many lines, and the lists people type in it so many entries.
ASSUME TextAssumption ==
  /\ Prose \in Seq(STRING \X STRING)
  /\ \A d \in Drafts \cup Earlier :
       /\ {"supersedes", "amends"} \subseteq DOMAIN d
       /\ IsFiniteSet(d.supersedes) /\ IsFiniteSet(d.amends)

VARIABLES
  work,     \* the working tree
  base,     \* the commit it was checked out from
  side,     \* a commit of another branch off the same base, or NoSide
  pc,       \* the tool that is running: "idle", "split" or "gen"
  plan,     \* the tree it will leave, computed before its first write
  merged,   \* history: the working tree is what a merge without conflict left
  adopted,  \* history: the baseline as it was first written
  edits     \* files saved by hand

vars == <<work, base, side, pc, plan, merged, adopted, edits>>

-----------------------------------------------------------------------------
(* What people type *)

\* A hand-written v1 record, and the ways one goes wrong.
Slipped(lines, slip, when) == IF slip = when THEN <<>> ELSE lines
Typed(d) ==
  LET claims == <<ListTop("claims"), Line("item", "kind", Plain("file")),
                  Line("nested", "target", Plain("somewhere"))>>
      ids == SetToSeq(d.supersedes)
      supersedes ==
        IF ids = <<>> THEN <<>>
        ELSE IF d.slip = "flow" THEN <<[ListTop("supersedes") EXCEPT !.flow = ids]>>
        ELSE IF d.slip = "dashless" THEN <<Top("supersedes", Plain(ids[1]))>>
        ELSE <<ListTop("supersedes")>> \o [i \in DOMAIN ids |-> Line("bare", "", Plain(ids[i]))]
      amends == FlattenSeq([i \in 1 .. Cardinality(d.amends) |->
        <<Line("item", "section", Plain(SetToSeq(d.amends)[i]))>>
          \o Slipped(<<Line("nested", "scope", Plain("how"))>>, d.slip, "scopeless")])
  IN  [fm |-> Slipped(<<Top("schema", Plain("1"))>>, d.slip, "schemaless")
                \o <<Top("id", Plain(d.id))>>
                \o Slipped(<<Top("title", Plain("as decided"))>>, d.slip, "untitled")
                \o <<Top("topic", Plain(d.topic)), Top("status", Plain("active")),
                     Top("ruling", [Plain("so") EXCEPT !.note = d.slip = "noted"])>>
                \o claims
                \o (IF d.slip = "miskeyed"
                    THEN <<ListTop("notes"), Line("bare", "", Plain("an aside"))>> ELSE <<>>)
                \o supersedes
                \o <<Top("revisit_if", Plain("when"))>>
                \o (IF d.amends = {} THEN <<>> ELSE <<ListTop("amends_spec")>> \o amends),
       crlf |-> d.slip = "crlf", cites |-> d.cites, fits |-> d.fits]

\* A key is set in place, or added at the end.
With(t, key, v) ==
  IF TopLines(t.fm, key) = {} THEN [t EXCEPT !.fm = Append(@, Top(key, v))]
  ELSE [t EXCEPT !.fm[Min(TopLines(t.fm, key))].val = v]

\* What its author has to do to retire record n in favour of a new one under name m:
\* write that, mark n if it may be touched, and bring along what n had replaced.
RetiredBy(c, rw, n, m) ==
  LET id == idOf(c.dir[n])
      heirs == {id} \cup (IF id \in DOMAIN rw THEN rw[id].supersedes ELSE {})
      new == Typed([name |-> m, id |-> NameId[m], topic |-> CHOOSE t \in Topics : TRUE,
                    supersedes |-> heirs, amends |-> {}, cites |-> {}, fits |-> TRUE,
                    slip |-> "none"])
      kept(l) == IF l.key = "supersedes" \/ l.kind = "bare" THEN <<>> ELSE <<l>>
      without(t) == [t EXCEPT !.fm = FlattenSeq([i \in DOMAIN @ |-> kept(@[i])])]
      marked(t) == With(With(t, "status", Plain("superseded")),
                        "superseded_by", Plain(NameId[m]))
      after(t) == IF ~hasSchemaKey(t) \/ idOf(t) \notin heirs THEN t
                  ELSE IF idOf(t) = id THEN without(marked(t)) ELSE marked(t)
  IN  [c EXCEPT !.dir = [k \in Names |-> IF k = m THEN new
                                          ELSE IF c.dir[k] = Absent THEN Absent
                                          ELSE after(c.dir[k])],
                !.arch = [k \in Names |-> IF c.arch[k] = Absent THEN Absent
                                           ELSE after(c.arch[k])]]

-----------------------------------------------------------------------------
(* The split, the freeze *)

LegacyText(d) ==
  [fm |-> <<Top("id", Plain(d.id)), Top("title", Quote(Plain("as decided"))),
            Top("topic", Quote(Plain(CHOOSE t \in Topics : TRUE)))>>,
   crlf |-> FALSE, cites |-> d.cites, fits |-> FALSE]

\* The monolith: no preamble apart, no records, no blocks in the specification.
Unsplit ==
  [dir |-> [n \in Names |-> Absent], arch |-> [n \in Names |-> Absent],
   baseline |-> {}, intro |-> "",
   index |-> [intro |-> "monolith", rows |-> {<<"", d.id, Undefined>> : d \in Monolith}],
   spec |-> Prose]

IsSplit(c) ==
  [c EXCEPT !.dir = [n \in Names |-> IF \E d \in Monolith : d.name = n
                                     THEN LegacyText(CHOOSE d \in Monolith : d.name = n)
                                     ELSE c.dir[n]],
            !.intro = "preamble"]

\* A line for every record without a schema key, in either directory.
Legacy(c) == {f \in Files(c) : ~hasSchemaKey(TextAt(c, f))}
BaselineOf(c) == {<<idOf(TextAt(c, f)), fingerprint(TextAt(c, f))>> : f \in Legacy(c)}

\* A record that was split and frozen long ago, and has been written in since.
Grown ==
  LET split == generate(IsSplit(Unsplit))
      written == [split EXCEPT !.baseline = BaselineOf(split),
                               !.dir = [n \in Names |->
                                          IF \E d \in Earlier : d.name = n
                                          THEN Typed(CHOOSE d \in Earlier : d.name = n)
                                          ELSE split.dir[n]]]
  IN  generate(written)

\* What has been committed before the story starts has passed the gate.
ASSUME GrownAssumption == Green(Grown)

Init ==
  /\ work \in {Unsplit, Grown} /\ base = work /\ side = NoSide
  /\ pc = "idle" /\ plan = Unsplit /\ merged = FALSE
  /\ adopted = work.baseline
  /\ edits = IF work = Unsplit THEN MaxEdits - Fresh ELSE 0

\* A tool has read what it reads, and starts writing.
Run(tool, result) ==
  /\ pc = "idle"
  /\ pc' = tool
  /\ plan' = result
  /\ UNCHANGED <<work, base, side, merged, adopted, edits>>

\* Refused over records that exist, and over headings with one id.
Split ==
  /\ work.index.intro = "monolith"
  /\ \A n \in Names \ Strays : work.dir[n] = Absent
  /\ Monolith # {} /\ \A d, e \in Monolith : d.id = e.id => d = e
  /\ Run("split", IsSplit(work))

\* It is run once, on a record that is fresh.
GenBaseline ==
  /\ pc = "idle" /\ adopted = {} /\ work.baseline = {}
  /\ work.intro # "" /\ Stale(work) = {}
  /\ \A f \in Legacy(work) : idOf(TextAt(work, f)) # ""
  /\ work' = [work EXCEPT !.baseline = BaselineOf(work)]
  /\ adopted' = work'.baseline
  /\ merged' = FALSE
  /\ UNCHANGED <<base, side, pc, plan, edits>>

-----------------------------------------------------------------------------
(* gen:decisions, and what a running tool writes *)

Gen == Generates(work) /\ Run("gen", generate(work))

\* What is still to be written: put() skips what is already as it should be.
PendingFiles == {n \in Names : work.dir[n] # plan.dir[n]}
Rest == IF pc = "split" THEN <<"intro">> ELSE <<"index", "spec">>

\* Mutant: the preamble first, so that a split cut short can be generated from.
WriteIntroFirst ==
  /\ pc # "idle"
  /\ \/ \E n \in PendingFiles : /\ pc = "split" => work.intro = plan.intro
                                /\ work' = [work EXCEPT !.dir[n] = plan.dir[n]]
     \/ \E i \in DOMAIN Rest :
          /\ work[Rest[i]] # plan[Rest[i]]
          /\ pc = "split" \/ PendingFiles = {}
          /\ work' = [work EXCEPT ![Rest[i]] = plan[Rest[i]]]
  /\ merged' = FALSE
  /\ UNCHANGED <<base, side, pc, plan, adopted, edits>>

\* One file is written: the records first, in whatever order they were listed,
\* then the rest in turn.
Write ==
  /\ pc # "idle"
  /\ \/ \E n \in PendingFiles : work' = [work EXCEPT !.dir[n] = plan.dir[n]]
     \/ /\ PendingFiles = {}
        /\ \E i \in DOMAIN Rest :
             /\ work[Rest[i]] # plan[Rest[i]]
             /\ \A j \in 1 .. (i - 1) : work[Rest[j]] = plan[Rest[j]]
             /\ work' = [work EXCEPT ![Rest[i]] = plan[Rest[i]]]
  /\ merged' = FALSE
  /\ UNCHANGED <<base, side, pc, plan, adopted, edits>>

Finish ==
  /\ pc # "idle"
  /\ PendingFiles = {} /\ \A i \in DOMAIN Rest : work[Rest[i]] = plan[Rest[i]]
  /\ pc' = "idle"
  /\ plan' = Unsplit
  /\ UNCHANGED <<work, base, side, merged, adopted, edits>>

Killed ==
  /\ pc # "idle"
  /\ pc' = "idle"
  /\ plan' = Unsplit
  /\ UNCHANGED <<work, base, side, merged, adopted, edits>>

-----------------------------------------------------------------------------
(* People *)

Edit(tree) ==
  /\ pc = "idle" /\ adopted # {}
  /\ edits < MaxEdits
  /\ edits' = edits + 1
  /\ work' = tree
  /\ merged' = FALSE
  /\ UNCHANGED <<base, side, pc, plan, adopted>>

Save(n, t) == Edit([work EXCEPT !.dir[n] = t])
Kept(n) == n \in Names /\ work.dir[n] # Absent

NewRecord ==
  \E d \in Drafts : work.dir[d.name] = Absent /\ Save(d.name, Typed(d))

\* Half of one: the old record is marked, and says by whom it was replaced.
Mark ==
  \E n, m \in Names :
    /\ Kept(n) /\ Kept(m) /\ n # m /\ hasSchemaKey(work.dir[n])
    /\ Save(n, With(With(work.dir[n], "status", Plain("superseded")),
                    "superseded_by", Plain(idOf(work.dir[m]))))

\* Both halves of a retirement.
Retire ==
  \E n, m \in Names \ Strays :
    /\ Kept(n) /\ NameId[m] \notin seenIds(work)
    /\ Edit(RetiredBy(work, rewritten(work), n, m))

\* Any record may be touched up, a frozen one too.
Reword == \E n \in Names : Kept(n) /\ Save(n, With(work.dir[n], "title", Plain("reworded")))

Withdraw ==
  \E n \in Names : /\ Kept(n) /\ hasSchemaKey(work.dir[n])
                   /\ Save(n, With(work.dir[n], "status", Plain("withdrawn")))

\* A frozen record is converted to v1 and its line is taken off the baseline.
Convert ==
  \E n \in Names : \E d \in Drafts :
    /\ Kept(n) /\ ~hasSchemaKey(work.dir[n]) /\ d.fits /\ d.slip = "none"
    /\ Edit([work EXCEPT !.dir[n] = Typed([d EXCEPT !.id = idOf(work.dir[n])]),
                         !.baseline = {l \in @ : l[1] # idOf(work.dir[n])}])

ArchiveOf(c, n) == [c EXCEPT !.dir[n] = Absent, !.arch[n] = c.dir[n]]
Archive == \E n \in Names : Kept(n) /\ work.arch[n] = Absent /\ Edit(ArchiveOf(work, n))

Delete == \E n \in Names : Kept(n) /\ Edit([work EXCEPT !.dir[n] = Absent])

\* A section of the specification is renumbered away.
CutSection ==
  \E i \in DOMAIN work.spec :
    work.spec[i][1] = "heading" /\ Edit([work EXCEPT !.spec = RemoveAt(@, i)])

-----------------------------------------------------------------------------
(* Git *)

Commit ==
  /\ pc = "idle" /\ adopted # {} /\ side = NoSide
  /\ work # base /\ Green(work)
  /\ base' = work
  /\ merged' = FALSE
  /\ UNCHANGED <<work, side, pc, plan, adopted, edits>>

\* What was done so far becomes another branch's commit, and work starts again
\* from the same base.
Park ==
  /\ pc = "idle" /\ side = NoSide /\ adopted # {} /\ base # Unsplit
  /\ work # base /\ Green(work)
  /\ side' = work
  /\ work' = base
  /\ merged' = FALSE
  /\ UNCHANGED <<base, pc, plan, adopted, edits>>

Discard ==
  /\ pc = "idle" /\ work # base
  /\ work' = base
  /\ merged' = FALSE
  /\ UNCHANGED <<base, side, pc, plan, adopted, edits>>

\* Three-way: what only one side changed is that side's; of what both changed, a
\* person takes one.  The baseline and the rows of the index merge line by line; a
\* record and the specification are whole files, so two changes to one are a conflict
\* here even where git finds them far enough apart.
Merged(b, x, y, taken) == IF x = b THEN y ELSE IF y = b \/ x = y THEN x ELSE taken
MergedLines(b, x, y) == (x \cap y) \cup (x \ b) \cup (y \ b)

MergeOf(b, x, y, take) ==
  LET of(u, v, w) == Merged(u, v, w, IF take = "ours" THEN w ELSE v)
      files(k) == [n \in Names |-> of(b[k][n], x[k][n], y[k][n])]
  IN  [dir |-> files("dir"), arch |-> files("arch"),
       baseline |-> MergedLines(b.baseline, x.baseline, y.baseline),
       intro |-> of(b.intro, x.intro, y.intro),
       index |-> [intro |-> of(b.index.intro, x.index.intro, y.index.intro),
                  rows |-> MergedLines(b.index.rows, x.index.rows, y.index.rows)],
       spec |-> of(b.spec, x.spec, y.spec)]

Merge ==
  /\ pc = "idle" /\ side # NoSide /\ work # base /\ Green(work)
  /\ \E take \in {"ours", "theirs"} : work' = MergeOf(base, side, work, take)
  /\ side' = NoSide
  /\ merged' = (MergeOf(base, side, work, "ours") = MergeOf(base, side, work, "theirs"))
  /\ UNCHANGED <<base, pc, plan, adopted, edits>>

-----------------------------------------------------------------------------
Next ==
  \/ Split \/ GenBaseline \/ Gen \/ Write \/ Finish \/ Killed
  \/ NewRecord \/ Mark \/ Retire \/ Reword \/ Withdraw \/ Convert \/ Archive \/ Delete
  \/ CutSection
  \/ Commit \/ Park \/ Discard \/ Merge

Spec == Init /\ [][Next]_vars

-----------------------------------------------------------------------------
(* Properties *)

Settled == pc = "idle" /\ adopted # {} /\ work = base /\ side = NoSide

\* In every commit a reader of a retired record is one step from the live record
\* that replaced it, whichever branches retired what (check-decisions.mjs:292-312).
RetirementsResolve == base # Unsplit => OneStepToLive(rewritten(base))

\* In every commit a record that is not v1 is byte for byte what it was when the
\* record was frozen, wherever it has been moved (check-decisions.mjs:119-138).
LegacyIsAsAdopted ==
  base # Unsplit =>
    \A f \in Files(base) :
      hasSchemaKey(TextAt(base, f))
        \/ <<idOf(TextAt(base, f)), fingerprint(TextAt(base, f))>> \in adopted

\* The split, killed anywhere, leaves every decision in a file of its own or in
\* the monolith still, and so does whatever is run next (split-decisions.mjs:131-141).
SplitLosesNothing ==
  adopted = {} =>
    \A d \in Monolith : work.index.intro = "monolith" \/ work.dir[d.name] # Absent

\* Running the generator puts right whatever it writes.  Killed between two writes
\* it writes, run again, what it would have written; and where nothing else is wrong,
\* also half way through an earlier run or after a merge, it leaves the gate green
\* (gen-decisions-index.mjs:5-8 and :493-519, check-decisions.mjs:606-622).
GenHeals ==
  /\ pc = "gen" => Generates(work) /\ generate(work) = plan
  /\ pc = "idle" /\ adopted # {} /\ Generates(work)
       /\ ContentProblems([work EXCEPT !.index = generate(work).index]) = {}
     => Green(generate(work))

\* Both readers of a v1 record find the same entries under the same lists, whatever
\* mistyped key or list stands between them: the generator writes no claim, retirement
\* or amendment its author did not, and drops one only with the whole of a list in
\* flow style (gen-decisions-index.mjs:155-187).
EntriesStay ==
  pc = "idle" /\ Generates(work) =>
    \A d \in load(work) : V1(d.text) =>
      LET was == parseYaml(d.text.fm)
          now == parseYaml(renderDecision(d.text, d.meta).fm)
          flows(k) == \E i \in TopLines(d.text.fm, k) : d.text.fm[i].flow # <<>>
          same(e, f, k) == \A x \in DOMAIN e \cap EntryKeys[k] :
                             x \in DOMAIN f /\ f[x].text = e[x].text
      IN  \A k \in LISTS :
            IF flows(k) THEN ListOf(now, k) = <<>>
            ELSE /\ Len(ListOf(now, k)) = Len(ListOf(was, k))
                 /\ \A n \in DOMAIN ListOf(was, k) :
                      same(ListOf(was, k)[n], ListOf(now, k)[n], k)

\* What the generator says of itself: writing a v1 record back changes no key of it,
\* nothing its author wrote is dropped, nothing is written for him
\* (gen-decisions-index.mjs:177-186, 370-377).
RoundTrips ==
  pc = "idle" /\ Generates(work) =>
    \A d \in load(work) :
      V1(d.text) =>
        LET was == parseYaml(d.text.fm)
            now == parseYaml(renderDecision(d.text, d.meta).fm)
        IN  /\ \A k \in Properties : Says(was, k) = Says(now, k)
            /\ \A k \in Properties \cap DOMAIN was.scalars : was.scalars[k] = now.scalars[k]
            /\ \A k \in LISTS : ListOf(was, k) = ListOf(now, k)

\* A merge that git made without conflict never needs the generator: the index is
\* of such a form that its lines merge (gen-decisions-index.mjs:454-464).
CleanMergeIsFresh == merged /\ ContentProblems(work) = {} => Stale(work) = {}

\* No rule is without a compliant action: every live record, frozen ones and heirs
\* of others too, can be retired without touching a frozen file
\* (check-decisions.mjs:306-311, lib/records.mjs:15-17).
AlwaysRetirable ==
  Settled =>
    LET rw == rewritten(base)
        free == {m \in Names \ Strays : NameId[m] \notin seenIds(base)}
    IN  \A n \in Live(base) : \A m \in free :
          (idOf(base.dir[n]) \in DOMAIN rw => rw[idOf(base.dir[n])].status = "active")
            => Green(generate(RetiredBy(base, rw, n, m)))
=============================================================================
