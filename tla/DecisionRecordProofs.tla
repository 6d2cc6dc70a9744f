------------------------- MODULE DecisionRecordProofs -------------------------
(***************************************************************************)
(* What check:decisions guarantees of every commit, for any records,       *)
(* people and branches.                                                    *)
(*                                                                         *)
(* The gate looks at one tree; the first two theorems are about all        *)
(* commits, because a commit is made of a tree the gate has passed.  That  *)
(* both halves of every retirement agree gives one step to a live record   *)
(* by logic alone (Succession).  That a legacy record is as adopted needs  *)
(* an invariant: no tree's baseline, nor that of a tool's plan, ever gains *)
(* a line.  The last two are about a tool killed half way and about git:   *)
(* the split writes last what lets anything else run; and a merge without  *)
(* conflict leaves what the generator would write, because the rows of the *)
(* index merge as lines just as their records merge as files, and because  *)
(* a specification's blocks tell whose amendments they are.                *)
(***************************************************************************)
EXTENDS DecisionRecord, TLAPS, FiniteSetTheorems, WellFoundedInduction

-----------------------------------------------------------------------------
(* Succession *)

\* What the two loops find nothing wrong with is paired, where no id is empty.
LEMMA PairedWhenClean ==
  ASSUME NEW rw, NEW seen, supersessionProblems(rw, seen) = {}
  PROVE  Paired(rw, seen)
<1>1. selfPointing(rw) = {} /\ NamesNoSuccessor(rw) = {} /\ BadSuccessor(rw) = {}
        /\ BadClaim(rw, seen) = {}
  BY DEF supersessionProblems
<1>2. ASSUME NEW i \in DOMAIN rw, rw[i].superseded_by # ""
      PROVE  LET by == rw[i].superseded_by
             IN  by \in DOMAIN rw /\ rw[by].status = "active" /\ i \in rw[by].supersedes
  BY <1>1, <1>2 DEF BadSuccessor
<1>3. ASSUME NEW i \in DOMAIN rw, NEW b \in rw[i].supersedes
      PROVE  /\ b \in DOMAIN rw => rw[b].status = "superseded" /\ rw[b].superseded_by = i
             /\ b \notin DOMAIN rw => b \in seen
  <2>1. <<i, b>> \in Claims(rw)
    BY DEF Claims
  <2>2. <<i, b>> \notin BadClaim(rw, seen)
    BY <1>1
  <2>3. <<i, b>>[1] = i /\ <<i, b>>[2] = b
    OBVIOUS
  <2>4. ~Unreturned(rw, seen, i, b)
    BY <2>1, <2>2, <2>3 DEF BadClaim
  <2> QED BY <1>1, <2>4 DEF Unreturned
<1>4. RetiredNamesLive(rw)
  <2> SUFFICES ASSUME NEW i \in DOMAIN rw
               PROVE  rw[i].status = "superseded" <=> rw[i].superseded_by # ""
    BY <1>2 DEF RetiredNamesLive
  <2>1. rw[i].status = "superseded" => rw[i].superseded_by # ""
    BY <1>1 DEF NamesNoSuccessor
  <2>2. ASSUME rw[i].superseded_by # "" PROVE rw[i].status = "superseded"
    <3> DEFINE by == rw[i].superseded_by
    <3>1. by \in DOMAIN rw /\ i \in rw[by].supersedes
      BY <1>2, <2>2
    <3> QED BY <1>3, <3>1
  <2> QED BY <2>1, <2>2
<1> QED
  BY <1>3, <1>4 DEF Paired, ClaimsAreReturned

\* No chains, no cycles, no second successor: pairing is enough.
LEMMA OneStepWhenPaired ==
  ASSUME NEW rw, NEW seen, "" \notin DOMAIN rw, Paired(rw, seen)
  PROVE  OneStepToLive(rw)
<1> SUFFICES ASSUME NEW i \in DOMAIN rw, rw[i].status = "superseded"
             PROVE  /\ \E by \in DOMAIN rw :
                         /\ rw[by].status = "active" /\ by # i
                         /\ {j \in DOMAIN rw : i \in rw[j].supersedes} = {by}
                         /\ rw[i].superseded_by = by
                    /\ rw[i].supersedes \cap DOMAIN rw = {}
  BY DEF OneStepToLive
<1> DEFINE by == rw[i].superseded_by
<1>1. by \in DOMAIN rw /\ rw[by].status = "active" /\ i \in rw[by].supersedes
  BY DEF Paired, RetiredNamesLive
<1>2. by # i
  BY <1>1
<1>3. ASSUME NEW j \in DOMAIN rw, i \in rw[j].supersedes PROVE j = by
  BY <1>3 DEF Paired, ClaimsAreReturned
<1>4. {j \in DOMAIN rw : i \in rw[j].supersedes} = {by}
  BY <1>1, <1>3
<1>5. ASSUME NEW b \in rw[i].supersedes \cap DOMAIN rw PROVE FALSE
  <2>1. rw[b].superseded_by = i
    BY DEF Paired, ClaimsAreReturned
  <2>2. rw[i].status = "active"
    BY <2>1 DEF Paired, RetiredNamesLive
  <2> QED BY <2>2
<1> QED
  BY <1>1, <1>2, <1>4, <1>5

-----------------------------------------------------------------------------
(* What a green tree is *)

LEMMA GreenIsClean ==
  ASSUME NEW c, Green(c)
  PROVE  Sweep(c) = {} /\ supersessionProblems(rewritten(c), seenIds(c)) = {}
BY DEF Green, check, ContentProblems

LEMMA FilesAreClean ==
  ASSUME NEW c, Sweep(c) = {}, NEW f \in Files(c)
  PROVE  FileProblems(c, TextAt(c, f)) = {}
BY DEF Sweep

\* A v1 record the schema has nothing against says its id.
LEMMA SchemaAsksForAnId ==
  ASSUME NEW meta, validateAgainstSchema(meta) = {}
  PROVE  SaidIn(meta, "id") # ""
<1>1. "id" \in Keys(meta)
  <2>1. Missing(meta) = {}
    BY DEF validateAgainstSchema
  <2> QED BY <2>1 DEF Missing, Required
<1>2. "id" \notin DOMAIN meta.lists
  <2>1. NoTexts(meta) = {}
    BY DEF validateAgainstSchema
  <2> QED BY <2>1 DEF NoTexts, Properties, Required, LISTS
<1>3. "id" \in DOMAIN meta.scalars => meta.scalars["id"].text # ""
  <2>1. Unmatched(meta) = {}
    BY DEF validateAgainstSchema
  <2> QED BY <2>1 DEF Unmatched
<1> QED
  BY <1>1, <1>2, <1>3 DEF SaidIn, Says, Keys

LEMMA EveryRecordHasAnId ==
  ASSUME NEW c, Sweep(c) = {}
  PROVE  "" \notin DOMAIN rewritten(c)
<1>1. ASSUME NEW f \in Files(c), V1(TextAt(c, f))
      PROVE  SaidIn(parseYaml(TextAt(c, f).fm), "id") # ""
  <2>1. validateAgainstSchema(parseYaml(TextAt(c, f).fm)) = {}
    <3>1. FileProblems(c, TextAt(c, f)) = {}
      BY FilesAreClean
    <3> QED BY <1>1, <3>1 DEF V1, FileProblems, validateSchemaRecord
  <2> QED BY <2>1, SchemaAsksForAnId
<1>2. ASSUME NEW s \in standings(c) PROVE s.id # ""
  <2>1. PICK f \in Files(c) : /\ V1(TextAt(c, f))
                              /\ s = Standing(parseYaml(TextAt(c, f).fm))
    BY DEF standings
  <2> QED BY <1>1, <2>1 DEF Standing
<1>3. DOMAIN rewritten(c) = {s.id : s \in standings(c)}
  BY DEF rewritten
<1> QED BY <1>2, <1>3

LEMMA GreenResolves ==
  ASSUME NEW c, Green(c)
  PROVE  OneStepToLive(rewritten(c))
<1>1. Sweep(c) = {} /\ supersessionProblems(rewritten(c), seenIds(c)) = {}
  BY GreenIsClean
<1>2. "" \notin DOMAIN rewritten(c)
  BY Zenon, <1>1, EveryRecordHasAnId
<1>3. Paired(rewritten(c), seenIds(c))
  BY ZenonT(60), <1>1, PairedWhenClean
<1> QED BY ZenonT(60), <1>2, <1>3, OneStepWhenPaired

-----------------------------------------------------------------------------
(* The steps *)

LEMMA OnlyCommitsAreCommitted == [Next]_vars => Commit \/ base' = base
BY DEF Next, vars, Split, Run, GenBaseline, Gen, Write, Finish, Killed, NewRecord, Mark,
       Retire, Reword, Withdraw, Convert, Archive, Delete, CutSection, Save, Edit, Park,
       Discard, Merge

-----------------------------------------------------------------------------
\* In every commit a reader of a retired record is one step from the live one,
\* whichever records there are and whichever branches retired what.
THEOREM EveryCommitResolves == Spec => []RetirementsResolve
<1>1. Init => RetirementsResolve
  BY GrownAssumption, GreenResolves DEF Init, RetirementsResolve
<1>2. RetirementsResolve /\ [Next]_vars => RetirementsResolve'
  <2> SUFFICES ASSUME RetirementsResolve, [Next]_vars PROVE RetirementsResolve'
    OBVIOUS
  <2>1. CASE Commit
    BY <2>1, GreenResolves DEF Commit, RetirementsResolve
  <2>2. CASE base' = base
    BY <2>2 DEF RetirementsResolve
  <2> QED BY <2>1, <2>2, OnlyCommitsAreCommitted
<1> QED BY <1>1, <1>2, PTL DEF Spec

-----------------------------------------------------------------------------
(* The frozen records *)

\* A tree whose baseline holds no line that was not there at adoption.
NoNewLine(c, lines) == "baseline" \in DOMAIN c /\ c.baseline \subseteq lines

\* The inductive invariant: whichever tree is committed next, its baseline is
\* part of the first one, and what is committed has passed the gate.
FrozenInv ==
  /\ NoNewLine(work, adopted)
  /\ NoNewLine(base, adopted)
  /\ side # NoSide => NoNewLine(side, adopted)
  /\ base # Unsplit => Green(base)

\* The generator leaves the baseline alone.
LEMMA GenerateKeepsBaseline ==
  ASSUME NEW c, "baseline" \in DOMAIN c
  PROVE  "baseline" \in DOMAIN generate(c) /\ generate(c).baseline = c.baseline
BY DEF generate

LEMMA UnsplitHasBaseline == "baseline" \in DOMAIN Unsplit
BY DEF Unsplit

LEMMA GrownHasBaseline == "baseline" \in DOMAIN Grown
<1> DEFINE split == generate(IsSplit(Unsplit))
           written == [split EXCEPT !.baseline = BaselineOf(split),
                                    !.dir = [n \in Names |->
                                               IF \E d \in Earlier : d.name = n
                                               THEN Typed(CHOOSE d \in Earlier : d.name = n)
                                               ELSE split.dir[n]]]
<1>1. "baseline" \in DOMAIN IsSplit(Unsplit)
  BY UnsplitHasBaseline DEF IsSplit
<1>2. "baseline" \in DOMAIN split
  BY <1>1, GenerateKeepsBaseline
<1> HIDE DEF split
<1>3. "baseline" \in DOMAIN written
  BY <1>2
<1>4. Grown = generate(written)
  BY DEF Grown, split
<1> QED BY <1>3, <1>4, GenerateKeepsBaseline

\* Git takes no line that neither side has.
LEMMA MergeAddsNoLine ==
  ASSUME NEW b, NEW x, NEW y, NEW take, NEW lines, NoNewLine(x, lines), NoNewLine(y, lines)
  PROVE  NoNewLine(MergeOf(b, x, y, take), lines)
<1>1. MergeOf(b, x, y, take).baseline = MergedLines(b.baseline, x.baseline, y.baseline)
        /\ "baseline" \in DOMAIN MergeOf(b, x, y, take)
  BY DEF MergeOf
<1> QED BY <1>1 DEF NoNewLine, MergedLines

\* Nothing saved by hand adds a line; converting a record takes its own away.
LEMMA EditsAddNoLine ==
  ASSUME NoNewLine(work, adopted),
         \/ NewRecord \/ Mark \/ Retire \/ Reword \/ Withdraw
         \/ Convert \/ Archive \/ Delete \/ CutSection
  PROVE  NoNewLine(work', adopted) /\ UNCHANGED <<base, side, adopted>>
<1>1. CASE NewRecord
  BY <1>1 DEF NewRecord, Save, Edit, NoNewLine
<1>2. CASE Mark
  BY <1>2 DEF Mark, Save, Edit, NoNewLine
<1>3. CASE Retire
  <2>1. PICK n, m : /\ work' = RetiredBy(work, rewritten(work), n, m)
                    /\ UNCHANGED <<base, side, adopted>>
    BY Zenon, <1>3 DEF Retire, Edit
  <2>2. PICK dir, arch :
          RetiredBy(work, rewritten(work), n, m) = [work EXCEPT !.dir = dir, !.arch = arch]
    BY Zenon DEF RetiredBy
  <2> QED BY <2>1, <2>2 DEF NoNewLine
<1>4. CASE Reword
  BY <1>4 DEF Reword, Save, Edit, NoNewLine
<1>5. CASE Withdraw
  BY SMTT(30), <1>5 DEF Withdraw, Save, Edit, NoNewLine
<1>6. CASE Convert
  BY <1>6 DEF Convert, Edit, NoNewLine
<1>7. CASE Archive
  BY <1>7 DEF Archive, ArchiveOf, Edit, NoNewLine
<1>8. CASE Delete
  BY <1>8 DEF Delete, Edit, NoNewLine
<1>9. CASE CutSection
  BY <1>9 DEF CutSection, Edit, NoNewLine
<1> QED BY <1>1, <1>2, <1>3, <1>4, <1>5, <1>6, <1>7, <1>8, <1>9

\* Of a tool's plan only the records, the preamble, the index and the
\* specification are written.
LEMMA WritesAddNoLine ==
  ASSUME NoNewLine(work, adopted), Write
  PROVE  NoNewLine(work', adopted) /\ UNCHANGED <<base, side, adopted>>
<1>1. CASE \E n \in PendingFiles : work' = [work EXCEPT !.dir[n] = plan.dir[n]]
  BY <1>1 DEF Write, NoNewLine
<1>2. CASE \E i \in DOMAIN Rest : work' = [work EXCEPT ![Rest[i]] = plan[Rest[i]]]
  <2>1. PICK i \in DOMAIN Rest : work' = [work EXCEPT ![Rest[i]] = plan[Rest[i]]]
    BY <1>2
  <2>2. Rest[i] # "baseline"
    BY DEF Rest
  <2> QED BY <2>1, <2>2 DEF Write, NoNewLine
<1> QED BY <1>1, <1>2 DEF Write

LEMMA FrozenStart == Init => FrozenInv
BY GrownAssumption, GrownHasBaseline, UnsplitHasBaseline DEF Init, FrozenInv, NoNewLine

LEMMA FrozenStep == FrozenInv /\ [Next]_vars => FrozenInv'
<1> SUFFICES ASSUME FrozenInv, [Next]_vars PROVE FrozenInv'
  OBVIOUS
<1>1. CASE UNCHANGED vars
  BY <1>1 DEF vars, FrozenInv
<1>2. CASE Split \/ Gen \/ Finish \/ Killed
  BY <1>2 DEF Split, Gen, Run, Finish, Killed, FrozenInv
<1>3. CASE GenBaseline
  BY <1>3 DEF GenBaseline, FrozenInv, NoNewLine
<1>4. CASE Write
  BY <1>4, WritesAddNoLine DEF FrozenInv
<1>5. CASE \/ NewRecord \/ Mark \/ Retire \/ Reword \/ Withdraw
           \/ Convert \/ Archive \/ Delete \/ CutSection
  BY <1>5, EditsAddNoLine DEF FrozenInv
<1>6. CASE Commit
  BY <1>6 DEF Commit, FrozenInv
<1>7. CASE Park
  BY <1>7 DEF Park, FrozenInv
<1>8. CASE Discard
  BY <1>8 DEF Discard, FrozenInv
<1>9. CASE Merge
  BY <1>9, MergeAddsNoLine DEF Merge, FrozenInv
<1> QED
  BY <1>1, <1>2, <1>3, <1>4, <1>5, <1>6, <1>7, <1>8, <1>9 DEF Next

\* What the gate has passed and adoption froze is byte for byte what it was.
LEMMA FrozenIsAsAdopted == FrozenInv => LegacyIsAsAdopted
<1> SUFFICES ASSUME FrozenInv, base # Unsplit, NEW f \in Files(base),
                    ~hasSchemaKey(TextAt(base, f))
             PROVE  <<idOf(TextAt(base, f)), fingerprint(TextAt(base, f))>> \in adopted
  BY DEF LegacyIsAsAdopted
<1>1. FileProblems(base, TextAt(base, f)) = {}
  BY GreenIsClean, FilesAreClean DEF FrozenInv
<1>2. legacyVerdict(base, TextAt(base, f)) = "frozen"
  <2> DEFINE verdict == legacyVerdict(base, TextAt(base, f))
  <2>1. {<<"legacy", verdict>>} \ {<<"legacy", "frozen">>} = {}
    BY <1>1 DEF FileProblems
  <2> HIDE DEF verdict
  <2>2. <<"legacy", verdict>> = <<"legacy", "frozen">>
    BY <2>1
  <2>3. verdict = "frozen"
    BY <2>2
  <2> QED BY <2>3 DEF verdict
<1>3. <<idOf(TextAt(base, f)), fingerprint(TextAt(base, f))>> \in base.baseline
  BY <1>2 DEF legacyVerdict
<1> QED BY <1>3 DEF FrozenInv, NoNewLine

\* In every commit a record that is not v1 is byte for byte what it was when the
\* record was frozen (check-decisions.mjs:119-138), for any records and branches.
THEOREM FrozenForever == Spec => []LegacyIsAsAdopted
BY FrozenStart, FrozenStep, FrozenIsAsAdopted, PTL DEF Spec

-----------------------------------------------------------------------------
(* The split *)

\* What stands for no file is not a file.
AbsentIsNoFile ==
  \A fm, crlf, cites, fits :
    Absent # [fm |-> fm, crlf |-> crlf, cites |-> cites, fits |-> fits]

IsText(t) == t = [fm |-> t.fm, crlf |-> t.crlf, cites |-> t.cites, fits |-> t.fits]

\* A tree whose records are files, of which some may be missing.
IsTree(c) ==
  /\ {"dir", "intro", "index"} \subseteq DOMAIN c
  /\ DOMAIN c.dir = Names
  /\ \A n \in Names : c.dir[n] = Absent \/ IsText(c.dir[n])

AllThere(c) == \A d \in Monolith : c.dir[d.name] # Absent

\* Every decision has its file, or nothing that reads files instead of the
\* monolith can run, the preamble being the last thing the split writes.
Held(c) == AllThere(c) \/ (c.intro = "" /\ c.index.intro = "monolith")

\* The inductive invariant, as long as nothing is adopted: nobody commits, and
\* what a tool is about to write has every decision.
SplitInv ==
  adopted = {} =>
    /\ side = NoSide
    /\ IsTree(work) /\ Held(work)
    /\ IsTree(base) /\ Held(base)
    /\ pc \in {"idle", "split", "gen"}
    /\ pc # "idle" => IsTree(plan) /\ AllThere(plan)
    /\ pc = "gen" => AllThere(work)

LEMMA RecordsAreTexts ==
  /\ \A d : IsText(LegacyText(d)) /\ IsText(Typed(d))
  /\ \A t, meta : IsText(t) => IsText(renderDecision(t, meta))
<1>1. ASSUME NEW d PROVE IsText(LegacyText(d)) /\ IsText(Typed(d))
  BY DEF IsText, LegacyText, Typed
<1>2. ASSUME NEW t, NEW meta, IsText(t) PROVE IsText(renderDecision(t, meta))
  <2>1. PICK fm : renderDecision(t, meta) = [t EXCEPT !.fm = fm]
    BY Zenon DEF renderDecision
  <2>2. t = [fm |-> t.fm, crlf |-> t.crlf, cites |-> t.cites, fits |-> t.fits]
    BY <1>2 DEF IsText
  <2>3. renderDecision(t, meta) = [fm |-> fm, crlf |-> t.crlf, cites |-> t.cites, fits |-> t.fits]
    BY <2>1, <2>2
  <2> QED BY <2>3 DEF IsText
<1> QED BY <1>1, <1>2

LEMMA TextsAreThere ==
  ASSUME AbsentIsNoFile, NEW t, IsText(t)
  PROVE  t # Absent
BY DEF AbsentIsNoFile, IsText

\* The generator writes back every record it has read and removes none.
LEMMA GenerateKeepsRecords ==
  ASSUME AbsentIsNoFile, NEW c, IsTree(c)
  PROVE  /\ IsTree(generate(c))
         /\ AllThere(c) => AllThere(generate(c))
<1> DEFINE ds == load(c)
           file(n) == CHOOSE d \in ds : d.name = n
           dir == [n \in Names |-> IF n \in Live(c)
                                   THEN renderDecision(c.dir[n], file(n).meta)
                                   ELSE c.dir[n]]
<1>1. /\ generate(c).dir = dir
      /\ {"dir", "intro", "index"} \subseteq DOMAIN generate(c)
  BY DEF generate, IsTree
<1>2. ASSUME NEW n \in Names, c.dir[n] = Absent
      PROVE  dir[n] = Absent
  BY <1>2 DEF Live
<1>3. ASSUME NEW n \in Names, c.dir[n] # Absent
      PROVE  IsText(dir[n]) /\ dir[n] # Absent
  <2>1. IsText(c.dir[n])
    BY <1>3 DEF IsTree
  <2>2. IsText(renderDecision(c.dir[n], file(n).meta))
    BY <2>1, RecordsAreTexts
  <2>3. dir[n] \in {renderDecision(c.dir[n], file(n).meta), c.dir[n]}
    OBVIOUS
  <2> HIDE DEF dir, file
  <2> QED BY <2>1, <2>2, <2>3, TextsAreThere
<1>4. DOMAIN dir = Names
  OBVIOUS
<1> HIDE DEF dir
<1>5. IsTree(generate(c))
  BY <1>1, <1>2, <1>3, <1>4 DEF IsTree
<1> QED BY <1>1, <1>3, <1>5, MonolithAssumption DEF AllThere

LEMMA SplitWritesAll ==
  ASSUME AbsentIsNoFile, NEW c, IsTree(c)
  PROVE  IsTree(IsSplit(c)) /\ AllThere(IsSplit(c))
<1> DEFINE dir == [n \in Names |-> IF \E d \in Monolith : d.name = n
                                   THEN LegacyText(CHOOSE d \in Monolith : d.name = n)
                                   ELSE c.dir[n]]
<1>1. /\ IsSplit(c).dir = dir
      /\ {"dir", "intro", "index"} \subseteq DOMAIN IsSplit(c)
  BY DEF IsSplit, IsTree
<1>2. ASSUME NEW n \in Names, \E d \in Monolith : d.name = n
      PROVE  IsText(dir[n]) /\ dir[n] # Absent
  <2>1. dir[n] = LegacyText(CHOOSE d \in Monolith : d.name = n)
    BY <1>2
  <2>2. IsText(LegacyText(CHOOSE d \in Monolith : d.name = n))
    BY RecordsAreTexts
  <2> HIDE DEF dir
  <2> QED BY <2>1, <2>2, TextsAreThere
<1>3. ASSUME NEW n \in Names, ~\E d \in Monolith : d.name = n
      PROVE  dir[n] = c.dir[n]
  BY <1>3
<1>4. DOMAIN dir = Names
  OBVIOUS
<1> HIDE DEF dir
<1>5. IsTree(IsSplit(c))
  BY <1>1, <1>2, <1>3, <1>4 DEF IsTree
<1> QED BY <1>1, <1>2, <1>5, MonolithAssumption DEF AllThere

LEMMA UnsplitIsHeld == IsTree(Unsplit) /\ Held(Unsplit)
<1>1. /\ {"dir", "intro", "index"} \subseteq DOMAIN Unsplit
      /\ Unsplit.dir = [n \in Names |-> Absent]
  BY Zenon DEF Unsplit
<1>2. IsTree(Unsplit)
  BY <1>1 DEF IsTree
<1>3. Unsplit.intro = "" /\ Unsplit.index.intro = "monolith"
  BY Zenon DEF Unsplit
<1> QED BY Zenon, <1>2, <1>3 DEF Held

LEMMA GrownIsWhole == AbsentIsNoFile => IsTree(Grown) /\ AllThere(Grown)
<1> SUFFICES ASSUME AbsentIsNoFile PROVE IsTree(Grown) /\ AllThere(Grown)
  OBVIOUS
<1> DEFINE split == generate(IsSplit(Unsplit))
           dir == [n \in Names |-> IF \E d \in Earlier : d.name = n
                                   THEN Typed(CHOOSE d \in Earlier : d.name = n)
                                   ELSE split.dir[n]]
           written == [split EXCEPT !.baseline = BaselineOf(split), !.dir = dir]
<1>1. IsTree(split) /\ AllThere(split)
  BY UnsplitIsHeld, SplitWritesAll, GenerateKeepsRecords
<1>2. Grown = generate(written)
  BY Zenon DEF Grown
<1> HIDE DEF split
<1>3. ASSUME NEW n \in Names, \E d \in Earlier : d.name = n
      PROVE  IsText(dir[n]) /\ dir[n] # Absent
  <2>1. dir[n] = Typed(CHOOSE d \in Earlier : d.name = n)
    BY <1>3
  <2>2. IsText(Typed(CHOOSE d \in Earlier : d.name = n))
    BY RecordsAreTexts
  <2> HIDE DEF dir
  <2> QED BY <2>1, <2>2, TextsAreThere
<1>4. ASSUME NEW n \in Names, ~\E d \in Earlier : d.name = n
      PROVE  dir[n] = split.dir[n]
  BY <1>4
<1>5. DOMAIN dir = Names
  OBVIOUS
<1> HIDE DEF dir
<1>6. written.dir = dir /\ {"dir", "intro", "index"} \subseteq DOMAIN written
  BY <1>1 DEF IsTree
<1> HIDE DEF written
<1>7. IsTree(written)
  BY <1>1, <1>3, <1>4, <1>5, <1>6 DEF IsTree
<1>8. AllThere(written)
  BY <1>1, <1>3, <1>4, <1>6, MonolithAssumption DEF AllThere
<1> QED BY <1>2, <1>7, <1>8, GenerateKeepsRecords

LEMMA SplitStart == AbsentIsNoFile /\ Init => SplitInv
<1> SUFFICES ASSUME AbsentIsNoFile, Init PROVE SplitInv
  OBVIOUS
<1>1. IsTree(Grown) /\ Held(Grown)
  BY GrownIsWhole DEF Held
<1>2. IsTree(work) /\ Held(work)
  BY <1>1, UnsplitIsHeld DEF Init
<1> QED BY <1>2 DEF Init, SplitInv

\* One more record, or one of the files that follow the records.
LEMMA WritesKeepHold ==
  ASSUME SplitInv, adopted = {}, Write
  PROVE  IsTree(work') /\ Held(work') /\ (pc = "gen" => AllThere(work'))
<1>0. /\ IsTree(work) /\ Held(work) /\ IsTree(plan) /\ AllThere(plan)
      /\ pc = "gen" => AllThere(work)
      /\ pc \in {"split", "gen"}
  BY DEF SplitInv, Write
<1>1. ASSUME NEW n \in PendingFiles, work' = [work EXCEPT !.dir[n] = plan.dir[n]]
      PROVE  /\ IsTree(work') /\ (AllThere(work) => AllThere(work'))
             /\ work'.intro = work.intro /\ work'.index = work.index
  <2>1. n \in Names
    BY DEF PendingFiles
  <2>2. /\ DOMAIN work' = DOMAIN work
        /\ work'.dir = [work.dir EXCEPT ![n] = plan.dir[n]]
        /\ work'.intro = work.intro /\ work'.index = work.index
    BY <1>0, <1>1 DEF IsTree
  <2>3. \A m \in Names : work'.dir[m] = IF m = n THEN plan.dir[n] ELSE work.dir[m]
    BY <1>0, <2>1, <2>2 DEF IsTree
  <2>4. IsTree(work')
    BY <1>0, <2>1, <2>2, <2>3 DEF IsTree
  <2>5. AllThere(work) => AllThere(work')
    BY <1>0, <2>3, MonolithAssumption DEF AllThere
  <2> QED BY <2>2, <2>4, <2>5
<1>2. ASSUME NEW i \in DOMAIN Rest, PendingFiles = {}, work' = [work EXCEPT ![Rest[i]] = plan[Rest[i]]]
      PROVE  IsTree(work') /\ AllThere(work')
  <2>1. Rest[i] \in {"intro", "index", "spec"}
    BY DEF Rest
  <2>2. work'.dir = work.dir /\ DOMAIN work' = DOMAIN work
    BY <1>0, <1>2, <2>1 DEF IsTree
  <2>3. AllThere(work)
    BY <1>0, <1>2, MonolithAssumption DEF PendingFiles, AllThere
  <2> QED BY <1>0, <2>2, <2>3 DEF IsTree, AllThere
<1>3. CASE \E n \in PendingFiles : work' = [work EXCEPT !.dir[n] = plan.dir[n]]
  <2>1. PICK n \in PendingFiles : work' = [work EXCEPT !.dir[n] = plan.dir[n]]
    BY <1>3
  <2>2. /\ IsTree(work') /\ (AllThere(work) => AllThere(work'))
        /\ work'.intro = work.intro /\ work'.index = work.index
    BY <1>1, <2>1
  <2>3. Held(work')
    BY Zenon, <1>0, <2>2 DEF Held
  <2> QED BY <1>0, <2>2, <2>3
<1>4. CASE /\ PendingFiles = {}
           /\ \E i \in DOMAIN Rest : work' = [work EXCEPT ![Rest[i]] = plan[Rest[i]]]
  <2>1. IsTree(work') /\ AllThere(work')
    BY <1>2, <1>4
  <2> QED BY Zenon, <2>1 DEF Held
<1> QED BY <1>3, <1>4 DEF Write

LEMMA SplitStep == AbsentIsNoFile /\ SplitInv /\ [Next]_vars => SplitInv'
<1> SUFFICES ASSUME AbsentIsNoFile, SplitInv, [Next]_vars, adopted' = {} PROVE SplitInv'
  BY Zenon DEF SplitInv
<1>0. adopted = {}
  <2>1. CASE GenBaseline
    BY Zenon, <2>1 DEF GenBaseline
  <2>2. CASE adopted' = adopted
    BY <2>2
  <2> QED
    BY <2>1, <2>2 DEF Next, vars, Split, Run, Gen, Write, Finish, Killed, NewRecord, Mark,
       Retire, Reword, Withdraw, Convert, Archive, Delete, CutSection, Save, Edit, Commit, Park,
       Discard, Merge
<1>1. /\ side = NoSide /\ IsTree(work) /\ Held(work) /\ IsTree(base) /\ Held(base)
      /\ pc \in {"idle", "split", "gen"}
      /\ pc # "idle" => IsTree(plan) /\ AllThere(plan)
      /\ pc = "gen" => AllThere(work)
  BY <1>0 DEF SplitInv
<1>2. CASE UNCHANGED vars
  BY <1>2 DEF vars, SplitInv
<1>3. CASE Split
  <2>1. IsTree(plan') /\ AllThere(plan') /\ pc' = "split"
    BY <1>1, <1>3, SplitWritesAll DEF Split, Run
  <2> QED BY <1>1, <1>3, <2>1 DEF Split, Run, SplitInv
<1>4. CASE Gen
  <2>1. work.intro # ""
    BY Zenon, <1>4 DEF Gen, Generates
  <2>2. AllThere(work)
    BY Zenon, <1>1, <2>1 DEF Held
  <2>3. IsTree(generate(work)) /\ AllThere(generate(work))
    BY <1>1, <2>2, GenerateKeepsRecords
  <2>4. plan' = generate(work) /\ pc' = "gen" /\ UNCHANGED <<work, base, side, adopted>>
    BY <1>4 DEF Gen, Run
  <2> QED BY <1>1, <2>2, <2>3, <2>4 DEF SplitInv
<1>5. CASE Write
  <2>1. IsTree(work') /\ Held(work') /\ (pc = "gen" => AllThere(work'))
    BY <1>0, <1>5, WritesKeepHold
  <2> QED BY <1>1, <1>5, <2>1 DEF Write, SplitInv
<1>6. CASE Finish \/ Killed
  BY <1>1, <1>6 DEF Finish, Killed, SplitInv
<1>7. CASE GenBaseline
  <2>1. /\ work' = [work EXCEPT !.baseline = BaselineOf(work)]
        /\ UNCHANGED <<base, side, pc, plan>>
        /\ pc = "idle"
    BY Zenon, <1>7 DEF GenBaseline
  <2>2. /\ DOMAIN work' = DOMAIN work
        /\ work'.dir = work.dir /\ work'.intro = work.intro /\ work'.index = work.index
    BY <1>1, <2>1 DEF IsTree
  <2>3. IsTree(work')
    BY <1>1, <2>2 DEF IsTree
  <2>4. Held(work')
    BY Zenon, <1>1, <2>2 DEF Held, AllThere
  <2> QED BY <1>1, <2>1, <2>3, <2>4 DEF SplitInv
<1>8. CASE Discard
  BY <1>1, <1>8 DEF Discard, SplitInv
<1>9. CASE \/ NewRecord \/ Mark \/ Retire \/ Reword \/ Withdraw
           \/ Convert \/ Archive \/ Delete \/ CutSection \/ Commit \/ Park \/ Merge
  BY <1>0, <1>1, <1>9 DEF NewRecord, Mark, Retire, Reword, Withdraw, Convert, Archive, Delete,
     CutSection, Save, Edit, Commit, Park, Merge
<1> QED
  BY <1>2, <1>3, <1>4, <1>5, <1>6, <1>7, <1>8, <1>9 DEF Next

\* The split, killed anywhere, and whatever is run after it, leave every decision
\* in a file of its own or in the monolith still (split-decisions.mjs:131-141).
THEOREM NoDecisionIsLost ==
  ASSUME AbsentIsNoFile
  PROVE  Spec => []SplitLosesNothing
<1>1. Init => SplitInv
  BY SplitStart
<1>2. SplitInv /\ [Next]_vars => SplitInv'
  BY SplitStep
<1>3. SplitInv => SplitLosesNothing
  BY Zenon DEF SplitInv, Held, AllThere, SplitLosesNothing
<1> QED BY <1>1, <1>2, <1>3, PTL DEF Spec

-----------------------------------------------------------------------------
(* Merging two branches *)

\* An id keeps its file name.  A branch that renames a record and one that deletes
\* it are merged by name here, where git would ask.
OneNamePerId == \A n, m \in Names \ Strays : NameId[n] = NameId[m] => n = m

Shape(c) == {"dir", "index"} \subseteq DOMAIN c

RowOf(t) ==
  LET said == parseFrontmatter(t.fm).scalars
  IN  <<ValueOf(said, "topic").text, ValueOf(said, "id").text, ValueOf(said, "title")>>
Rendered(t) == renderDecision(t, parseFrontmatter(t.fm))

\* The index has the row of every record and no other, and every record is in
\* normal form.
Indexed(c) == c.index = [intro |-> c.intro, rows |-> {RowOf(c.dir[n]) : n \in Live(c)}]
Normal(c) == \A n \in Live(c) : c.dir[n] = Rendered(c.dir[n])
Named(c) == \A n \in Live(c) : NameId[n] = RowOf(c.dir[n])[2]

\* What generate() would write of the records and the index.
LEMMA GeneratedParts ==
  ASSUME NEW c, Shape(c)
  PROVE  /\ generate(c).index = [intro |-> c.intro, rows |-> {RowOf(c.dir[n]) : n \in Live(c)}]
         /\ \A n \in Live(c) : generate(c).dir[n] = Rendered(c.dir[n])
<1> DEFINE ds == load(c)
           rec(n) == [name |-> n, text |-> c.dir[n], meta |-> parseFrontmatter(c.dir[n].fm)]
           file(n) == CHOOSE d \in ds : d.name = n
           dir == [n \in Names |-> IF n \in Live(c)
                                   THEN renderDecision(c.dir[n], file(n).meta)
                                   ELSE c.dir[n]]
<1>1. generate(c).dir = dir /\ generate(c).index = renderIndex(ds, c.intro)
  BY DEF generate, Shape
<1>2. ds = {rec(n) : n \in Live(c)}
  BY DEF load
<1>3. \A n : Row(rec(n)) = RowOf(c.dir[n])
  BY DEF Row, RowOf, TopicIn, IdIn
<1>4. {Row(d) : d \in ds} = {RowOf(c.dir[n]) : n \in Live(c)}
  <2> HIDE DEF ds, rec
  <2> QED BY <1>2, <1>3
<1>5. ASSUME NEW n \in Live(c) PROVE dir[n] = Rendered(c.dir[n])
  <2>1. \A m : rec(m).name = m /\ rec(m).meta = parseFrontmatter(c.dir[m].fm)
    OBVIOUS
  <2>2. file(n) = rec(n)
    <3> HIDE DEF ds, rec
    <3>1. \A d \in ds : d.name = n <=> d = rec(n)
      BY <1>2, <2>1
    <3>2. rec(n) \in ds
      BY <1>2
    <3> QED BY <3>1, <3>2
  <2>3. n \in Names
    BY DEF Live
  <2> HIDE DEF file, rec
  <2> QED BY <2>1, <2>2, <2>3 DEF Rendered
<1> QED BY <1>1, <1>4, <1>5 DEF renderIndex

LEMMA GreenIsFresh ==
  ASSUME NEW c, Green(c), Shape(c)
  PROVE  Indexed(c) /\ Normal(c) /\ Named(c)
<1>1. ContentProblems(c) = {} /\ Stale(c) = {}
  BY Zenon DEF Green, check
<1>2. RecordProblems(c, load(c)) = {}
  BY Zenon, <1>1 DEF ContentProblems
<1>3. \A d \in load(c) : NameId[d.name] = IdIn(d)
  <2>1. {<<"filename does not start with its id", d.name>> :
           d \in {r \in load(c) : NameId[r.name] # IdIn(r)}} = {}
    BY Zenon, <1>2 DEF RecordProblems
  <2> QED BY Zenon, <2>1
<1>4. Named(c)
  <2> SUFFICES ASSUME NEW n \in Live(c) PROVE NameId[n] = RowOf(c.dir[n])[2]
    BY DEF Named
  <2> DEFINE d == [name |-> n, text |-> c.dir[n], meta |-> parseFrontmatter(c.dir[n].fm)]
  <2>1. d \in load(c)
    BY DEF load
  <2>2. NameId[d.name] = IdIn(d)
    BY <1>3, <2>1
  <2> QED BY <2>2 DEF IdIn, RowOf
<1>5. c.index = generate(c).index
  <2>1. When(c.index # generate(c).index, <<"index is stale", "">>) = {}
    BY Zenon, <1>1 DEF Stale
  <2> QED BY Zenon, <2>1 DEF When
<1>6. \A n \in Live(c) : c.dir[n] = generate(c).dir[n]
  <2>1. {<<"frontmatter is stale", n>> : n \in {m \in Live(c) : c.dir[m] # generate(c).dir[m]}} = {}
    BY Zenon, <1>1 DEF Stale
  <2> QED BY Zenon, <2>1
<1> QED BY <1>4, <1>5, <1>6, GeneratedParts DEF Indexed, Normal

\* Of a file that merged without conflict, at least one side left it alone, or
\* both did the same.
LEMMA CleanFile ==
  ASSUME NEW u, NEW v, NEW w, Merged(u, v, w, w) = Merged(u, v, w, v)
  PROVE  /\ \A take : Merged(u, v, w, take) \in {v, w}
         /\ v = u => \A take : Merged(u, v, w, take) = w
         /\ v # u => (w = u \/ v = w) /\ \A take : Merged(u, v, w, take) = v
BY DEF Merged

\* Rows merge as lines do what records do as files, since every row has a file.
LEMMA MergeOfFresh ==
  ASSUME OneNamePerId, NEW b, NEW x, NEW y, NEW take \in {"ours", "theirs"},
         Indexed(b) /\ Normal(b) /\ Named(b),
         Indexed(x) /\ Normal(x) /\ Named(x),
         Indexed(y) /\ Normal(y) /\ Named(y),
         MergeOf(b, x, y, "ours") = MergeOf(b, x, y, "theirs")
  PROVE  Indexed(MergeOf(b, x, y, take)) /\ Normal(MergeOf(b, x, y, take))
<1> DEFINE m == MergeOf(b, x, y, take)
           pick(u, v, w) == Merged(u, v, w, w)
           rows(c) == {RowOf(c.dir[n]) : n \in Live(c)}
           Is(t, r) == t # Absent /\ RowOf(t) = r
<1>1. \A u, v, w : \A t \in {"ours", "theirs"} :
        Merged(u, v, w, IF t = "ours" THEN w ELSE v) \in {Merged(u, v, w, w), Merged(u, v, w, v)}
  OBVIOUS
<1>2. \A n \in Names :
        Merged(b.dir[n], x.dir[n], y.dir[n], y.dir[n])
          = Merged(b.dir[n], x.dir[n], y.dir[n], x.dir[n])
  <2>1. MergeOf(b, x, y, "ours").dir = [n \in Names |->
          Merged(b.dir[n], x.dir[n], y.dir[n], y.dir[n])]
    BY DEF MergeOf
  <2>2. MergeOf(b, x, y, "theirs").dir = [n \in Names |->
          Merged(b.dir[n], x.dir[n], y.dir[n], x.dir[n])]
    BY DEF MergeOf
  <2> HIDE DEF m, pick
  <2> QED BY <2>1, <2>2
<1>3. \A n \in Names : m.dir[n] = pick(b.dir[n], x.dir[n], y.dir[n])
  <2>1. m = MergeOf(b, x, y, "ours")
    OBVIOUS
  <2>2. MergeOf(b, x, y, "ours").dir = [n \in Names |->
          Merged(b.dir[n], x.dir[n], y.dir[n], y.dir[n])]
    BY DEF MergeOf
  <2> HIDE DEF m
  <2> QED BY <2>1, <2>2
<1>4. /\ m.index.intro = m.intro
      /\ m.index = [intro |-> m.index.intro, rows |-> m.index.rows]
      /\ m.index.rows = MergedLines(rows(b), rows(x), rows(y))
  BY DEF MergeOf, Indexed
<1> HIDE DEF m
<1>5. \A n \in Names :
        /\ m.dir[n] \in {x.dir[n], y.dir[n]}
        /\ x.dir[n] = b.dir[n] => m.dir[n] = y.dir[n]
        /\ x.dir[n] # b.dir[n] =>
             (y.dir[n] = b.dir[n] \/ x.dir[n] = y.dir[n]) /\ m.dir[n] = x.dir[n]
  BY <1>2, <1>3, CleanFile
<1>6. Normal(m)
  BY <1>5 DEF Normal, Live
\* Which file a row is of is told by its id.
<1>7. ASSUME NEW c \in {b, x, y}, NEW n \in Names \ Strays, NEW r, NameId[n] = r[2]
      PROVE  r \in rows(c) <=> Is(c.dir[n], r)
  <2>1. Named(c)
    OBVIOUS
  <2>2. ASSUME NEW k \in Live(c), RowOf(c.dir[k]) = r PROVE k = n
    BY <1>7, <2>1, <2>2 DEF Named, OneNamePerId, Live
  <2>3. Is(c.dir[n], r) => n \in Live(c)
    BY DEF Live
  <2>4. \A k \in Live(c) : c.dir[k] # Absent
    BY DEF Live
  <2> QED BY <2>2, <2>3, <2>4
<1>8. ASSUME NEW n \in Names \ Strays, NEW r, NameId[n] = r[2]
      PROVE  r \in m.index.rows <=> Is(m.dir[n], r)
  <2>1. /\ r \in rows(b) <=> Is(b.dir[n], r)
        /\ r \in rows(x) <=> Is(x.dir[n], r)
        /\ r \in rows(y) <=> Is(y.dir[n], r)
    BY <1>7, <1>8
  <2> HIDE DEF rows, Is
  <2>2. r \in m.index.rows <=>
          \/ r \in rows(x) /\ r \in rows(y)
          \/ r \in rows(x) /\ r \notin rows(b)
          \/ r \in rows(y) /\ r \notin rows(b)
    BY <1>4 DEF MergedLines
  <2>3. CASE x.dir[n] = b.dir[n]
    BY <1>5, <2>1, <2>2, <2>3
  <2>4. CASE x.dir[n] # b.dir[n]
    BY <1>5, <2>1, <2>2, <2>4
  <2> QED BY <2>3, <2>4
<1>9. ASSUME NEW r \in m.index.rows PROVE \E n \in Names \ Strays : NameId[n] = r[2]
  <2>1. r \in rows(x) \/ r \in rows(y)
    BY <1>4 DEF MergedLines
  <2> QED BY <2>1 DEF Named, Live
<1>10. ASSUME NEW n \in Live(m) PROVE NameId[n] = RowOf(m.dir[n])[2]
  BY <1>5 DEF Named, Live
<1>11. m.index.rows = rows(m)
  <2>1. ASSUME NEW r \in m.index.rows PROVE r \in rows(m)
    <3>1. PICK n \in Names \ Strays : NameId[n] = r[2]
      BY <1>9
    <3>2. Is(m.dir[n], r)
      BY <1>8, <3>1
    <3> QED BY <3>1, <3>2 DEF Live
  <2>2. ASSUME NEW n \in Live(m) PROVE RowOf(m.dir[n]) \in m.index.rows
    <3>1. n \in Names \ Strays /\ Is(m.dir[n], RowOf(m.dir[n]))
      BY DEF Live
    <3> HIDE DEF Is
    <3> QED BY <1>8, <1>10, <3>1
  <2> QED BY <2>1, <2>2
<1>12. Indexed(m)
  BY <1>4, <1>11 DEF Indexed
<1> QED BY <1>6, <1>12 DEF m

\* The inductive invariant: what is merged has passed the gate on both sides and
\* at the base, and after a clean merge nothing has been written.
MergeInv ==
  /\ Shape(work) /\ Shape(base)
  /\ base # Unsplit => Green(base)
  /\ side # NoSide => Shape(side) /\ Green(side) /\ base # Unsplit
  /\ merged => Indexed(work) /\ Normal(work)

LEMMA UnsplitHasShape == Shape(Unsplit)
BY Zenon DEF Shape, Unsplit

LEMMA GenerateKeepsShape == \A c : Shape(c) => Shape(generate(c))
BY DEF Shape, generate

LEMMA GrownHasShape == Shape(Grown)
<1> DEFINE split == generate(IsSplit(Unsplit))
           dir == [n \in Names |-> IF \E d \in Earlier : d.name = n
                                   THEN Typed(CHOOSE d \in Earlier : d.name = n)
                                   ELSE split.dir[n]]
           written == [split EXCEPT !.baseline = BaselineOf(split), !.dir = dir]
<1>1. Shape(IsSplit(Unsplit))
  BY UnsplitHasShape DEF Shape, IsSplit
<1>2. Shape(split)
  BY <1>1, GenerateKeepsShape
<1>3. Grown = generate(written)
  BY Zenon DEF Grown
<1> HIDE DEF split
<1> HIDE DEF dir
<1>4. Shape(written)
  BY <1>2 DEF Shape
<1> HIDE DEF written
<1> QED BY <1>3, <1>4, GenerateKeepsShape

\* Whatever is saved is no longer what the merge left.
LEMMA EditsKeepShape ==
  ASSUME Shape(work),
         \/ NewRecord \/ Mark \/ Retire \/ Reword \/ Withdraw
         \/ Convert \/ Archive \/ Delete \/ CutSection
  PROVE  Shape(work') /\ ~merged' /\ UNCHANGED <<base, side>>
<1>0. ~merged' /\ UNCHANGED <<base, side>>
  BY Zenon DEF NewRecord, Mark, Retire, Reword, Withdraw, Convert, Archive, Delete, CutSection,
     Save, Edit
<1>1. ASSUME NewRecord PROVE Shape(work')
  BY <1>1 DEF NewRecord, Save, Edit, Shape
<1>2. ASSUME Mark PROVE Shape(work')
  BY <1>2 DEF Mark, Save, Edit, Shape
<1>3. ASSUME Retire PROVE Shape(work')
  <2>1. PICK n, m : work' = RetiredBy(work, rewritten(work), n, m)
    BY Zenon, <1>3 DEF Retire, Edit
  <2>2. PICK dir, arch :
          RetiredBy(work, rewritten(work), n, m) = [work EXCEPT !.dir = dir, !.arch = arch]
    BY Zenon DEF RetiredBy
  <2> QED BY <2>1, <2>2 DEF Shape
<1>4. ASSUME Reword PROVE Shape(work')
  BY <1>4 DEF Reword, Save, Edit, Shape
<1>5. ASSUME Withdraw PROVE Shape(work')
  BY <1>5 DEF Withdraw, Save, Edit, Shape
<1>6. ASSUME Convert PROVE Shape(work')
  <2>1. PICK n \in Names :
          \E t, lines : work' = [work EXCEPT !.dir[n] = t, !.baseline = lines]
    BY Zenon, <1>6 DEF Convert, Edit
  <2> QED BY <2>1 DEF Shape
<1>7. ASSUME Archive PROVE Shape(work')
  <2>1. PICK n : work' = [work EXCEPT !.dir[n] = Absent, !.arch[n] = work.dir[n]]
    BY Zenon, <1>7 DEF Archive, ArchiveOf, Edit
  <2> QED BY <2>1 DEF Shape
<1>8. ASSUME Delete PROVE Shape(work')
  BY <1>8 DEF Delete, Edit, Shape
<1>9. ASSUME CutSection PROVE Shape(work')
  BY <1>9 DEF CutSection, Edit, Shape
<1> QED BY <1>0, <1>1, <1>2, <1>3, <1>4, <1>5, <1>6, <1>7, <1>8, <1>9

LEMMA WritesKeepShape ==
  ASSUME Shape(work), Write \/ GenBaseline
  PROVE  Shape(work') /\ ~merged' /\ UNCHANGED <<base, side>>
<1>1. ASSUME \E n \in PendingFiles : work' = [work EXCEPT !.dir[n] = plan.dir[n]]
      PROVE  Shape(work')
  BY <1>1 DEF Shape
<1>2. ASSUME \E i \in DOMAIN Rest : work' = [work EXCEPT ![Rest[i]] = plan[Rest[i]]]
      PROVE  Shape(work')
  <2>1. PICK i \in DOMAIN Rest : work' = [work EXCEPT ![Rest[i]] = plan[Rest[i]]]
    BY <1>2
  <2>2. Rest[i] # "dir"
    BY DEF Rest
  <2> QED BY <2>1, <2>2 DEF Shape
<1>3. ASSUME work' = [work EXCEPT !.baseline = BaselineOf(work)]
      PROVE  Shape(work')
  BY <1>3 DEF Shape
<1>4. ~merged' /\ UNCHANGED <<base, side>>
  BY Zenon DEF Write, GenBaseline
<1>5. \/ \E n \in PendingFiles : work' = [work EXCEPT !.dir[n] = plan.dir[n]]
      \/ \E i \in DOMAIN Rest : work' = [work EXCEPT ![Rest[i]] = plan[Rest[i]]]
      \/ work' = [work EXCEPT !.baseline = BaselineOf(work)]
  BY Zenon DEF Write, GenBaseline
<1> QED BY <1>1, <1>2, <1>3, <1>4, <1>5

LEMMA MergeKeepsShape == \A b, x, y, take : Shape(MergeOf(b, x, y, take))
BY DEF Shape, MergeOf

LEMMA MergeStart == Init => MergeInv
BY UnsplitHasShape, GrownHasShape, GrownAssumption DEF Init, MergeInv

LEMMA MergeStep == OneNamePerId /\ MergeInv /\ [Next]_vars => MergeInv'
<1> SUFFICES ASSUME OneNamePerId, MergeInv, [Next]_vars PROVE MergeInv'
  OBVIOUS
<1>1. CASE UNCHANGED vars
  BY <1>1 DEF vars, MergeInv
<1>2. CASE Split \/ Gen \/ Finish \/ Killed
  BY <1>2 DEF Split, Gen, Run, Finish, Killed, MergeInv
<1>3. CASE Write \/ GenBaseline
  BY <1>3, WritesKeepShape DEF MergeInv
<1>4. CASE \/ NewRecord \/ Mark \/ Retire \/ Reword \/ Withdraw
           \/ Convert \/ Archive \/ Delete \/ CutSection
  BY <1>4, EditsKeepShape DEF MergeInv
<1>5. CASE Commit
  BY <1>5 DEF Commit, MergeInv
<1>6. CASE Park
  BY <1>6 DEF Park, MergeInv
<1>7. CASE Discard
  BY <1>7 DEF Discard, MergeInv
<1>8. CASE Merge
  <2>1. /\ side # NoSide /\ Green(work) /\ side' = NoSide /\ base' = base
        /\ merged' = (MergeOf(base, side, work, "ours") = MergeOf(base, side, work, "theirs"))
    BY <1>8 DEF Merge
  <2>2. PICK take \in {"ours", "theirs"} : work' = MergeOf(base, side, work, take)
    BY <1>8 DEF Merge
  <2>3. /\ Indexed(base) /\ Normal(base) /\ Named(base)
        /\ Indexed(side) /\ Normal(side) /\ Named(side)
        /\ Indexed(work) /\ Normal(work) /\ Named(work)
    BY <2>1, GreenIsFresh DEF MergeInv
  <2>4. ASSUME merged' PROVE Indexed(work') /\ Normal(work')
    <3>1. MergeOf(base, side, work, "ours") = MergeOf(base, side, work, "theirs")
      BY Zenon, <2>1, <2>4
    <3>2. /\ Indexed(MergeOf(base, side, work, take))
          /\ Normal(MergeOf(base, side, work, take))
      BY <2>3, <3>1, MergeOfFresh
    <3> QED BY <2>2, <3>2
  <2>5. Shape(work')
    BY <2>2, MergeKeepsShape
  <2> QED BY <2>1, <2>4, <2>5 DEF MergeInv
<1> QED
  BY <1>1, <1>2, <1>3, <1>4, <1>5, <1>6, <1>7, <1>8 DEF Next

-----------------------------------------------------------------------------
(* Induction on the natural numbers *)

Less == OpToRel(<, Nat)

\* Every set of natural numbers that has a member has a least one.
LEMMA LeastNumber ==
  ASSUME NEW T, T \subseteq Nat, T # {}
  PROVE  \E n \in T : \A m \in T : n <= m
<1>1. IsWellFoundedOn(Less, Nat)
  BY NatLessThanWellFounded DEF Less
<1>2. PICK n \in T : \A m \in T : ~(<<m, n>> \in Less)
  BY <1>1, WFMin
<1>3. \A m \in T : m < n => <<m, n>> \in Less
  BY DEF Less, OpToRel
<1>4. \A m \in T : ~(m < n)
  BY <1>2, <1>3
<1> HIDE <1>2, <1>3
<1> QED BY <1>4

\* What is passed on from each number to the next holds of all.
LEMMA Counting ==
  ASSUME NEW T, 0 \in T, \A n \in Nat : n \in T => n + 1 \in T
  PROVE  Nat \subseteq T
<1> SUFFICES ASSUME Nat \ T # {} PROVE FALSE
  OBVIOUS
<1>1. PICK n \in Nat \ T : \A m \in Nat \ T : n <= m
  BY LeastNumber
<1>2. n # 0 /\ n - 1 \in Nat /\ (n - 1) + 1 = n /\ ~(n <= n - 1)
  OBVIOUS
<1>3. n - 1 \in T
  BY <1>1, <1>2
<1> QED BY <1>2, <1>3

-----------------------------------------------------------------------------
(* Sequences of anything *)

IsList(s) == \E S : s \in Seq(S)

LEMMA EmptyIsSeq == \A S : <<>> \in Seq(S)
OBVIOUS

LEMMA InSeq == \A S : \A s \in Seq(S) : \A q \in 1 .. Len(s) : s[q] \in S
OBVIOUS

LEMMA ConcatIsSeq == \A S : \A a, b \in Seq(S) : a \o b \in Seq(S)
OBVIOUS

\* Sizes of parts and of the whole, and places in them.
LEMMA Sizes ==
  ASSUME NEW whole \in Nat, NEW a \in Nat, NEW c \in Nat, whole = a + c
  PROVE  /\ a <= whole
         /\ \A p \in 1 .. a : p \in 1 .. whole
         /\ \A q \in 1 .. c : a + q \in 1 .. whole
         /\ \A all \in Nat : whole <= all => a <= all /\ \A p \in 1 .. whole : p \in 1 .. all
OBVIOUS

LEMMA ConcatLength == \A S : \A a, b \in Seq(S) : Len(a \o b) = Len(a) + Len(b)
OBVIOUS

LEMMA ListDomain ==
  ASSUME NEW s, IsList(s)
  PROVE  Len(s) \in Nat /\ DOMAIN s = 1 .. Len(s)
BY DEF IsList

LEMMA ListOfFunction ==
  ASSUME NEW n \in Nat, NEW f, DOMAIN f = 1 .. n, f = [i \in 1 .. n |-> f[i]]
  PROVE  f \in Seq({f[i] : i \in 1 .. n}) /\ Len(f) = n
<1> DEFINE S == {f[i] : i \in 1 .. n}
<1>1. f \in [1 .. n -> S]
  OBVIOUS
<1> HIDE DEF S
<1>2. f \in Seq(S) /\ Len(f) = n
  BY SMTT(30), <1>1
<1> QED BY <1>2 DEF S

\* Concatenating a list of lists, one by one.
Flattening(ss, n) ==
  CHOOSE f : f = [i \in 1 .. n |-> IF i = 1 THEN ss[i] ELSE f[i - 1] \o ss[i]]

LEMMA FlatteningExists ==
  ASSUME NEW ss, NEW n \in Nat
  PROVE  Flattening(ss, n)
           = [i \in 1 .. n |-> IF i = 1 THEN ss[i] ELSE Flattening(ss, n)[i - 1] \o ss[i]]
<1> DEFINE Is(f, k) == f = [i \in 1 .. k |-> IF i = 1 THEN ss[i] ELSE f[i - 1] \o ss[i]]
           T == {k \in Nat : \E f : Is(f, k)}
<1>1. 0 \in T
  <2> DEFINE f == [i \in 1 .. 0 |-> ss[i]]
  <2>1. Is(f, 0)
    OBVIOUS
  <2> HIDE DEF f, Is
  <2> QED BY <2>1
<1>2. ASSUME NEW k \in Nat, k \in T PROVE k + 1 \in T
  <2>1. PICK f : Is(f, k)
    BY <1>2
  <2> DEFINE h == IF k + 1 = 1 THEN ss[k + 1] ELSE f[k] \o ss[k + 1]
             g == [i \in 1 .. (k + 1) |-> IF i = k + 1 THEN h ELSE f[i]]
  <2>2. \A i \in 1 .. k : g[i] = f[i]
    OBVIOUS
  <2>3. g[k + 1] = h
    OBVIOUS
  <2>4. DOMAIN g = 1 .. (k + 1) /\ g = [i \in 1 .. (k + 1) |-> g[i]]
    OBVIOUS
  <2>5. \A i \in 1 .. k : f[i] = IF i = 1 THEN ss[i] ELSE f[i - 1] \o ss[i]
    BY <2>1
  <2> HIDE DEF g
  <2>6. ASSUME NEW i \in 1 .. (k + 1)
        PROVE  g[i] = IF i = 1 THEN ss[i] ELSE g[i - 1] \o ss[i]
    <3>1. CASE i = k + 1
      <4>1. i # 1 => i - 1 \in 1 .. k /\ i - 1 = k
        BY <3>1
      <4> QED BY <3>1, <4>1, <2>2, <2>3
    <3>2. CASE i # k + 1
      <4>1. i \in 1 .. k
        BY <3>2
      <4>2. i # 1 => i - 1 \in 1 .. k
        BY <4>1
      <4> QED BY <4>1, <4>2, <2>2, <2>5
    <3> QED BY <3>1, <3>2
  <2>7. Is(g, k + 1)
    BY <2>4, <2>6
  <2> HIDE DEF Is
  <2> QED BY <2>7
<1> HIDE DEF T
<1>3. n \in T
  BY <1>1, <1>2, Counting
<1> QED BY <1>3 DEF T, Flattening

LEMMA FlattenIsFlattening ==
  ASSUME NEW ss, Len(ss) \in Nat, Len(ss) # 0
  PROVE  FlattenSeq(ss) = Flattening(ss, Len(ss))[Len(ss)]
BY DEF FlattenSeq, Flattening

Lists(ss, T) == IsList(ss) /\ \A i \in DOMAIN ss : ss[i] \in Seq(T)

\* What the first i of them come to.
Joined(ss, i) == IF i = 0 THEN <<>> ELSE Flattening(ss, Len(ss))[i]

LEMMA JoinedSteps ==
  ASSUME NEW T, NEW ss, Lists(ss, T)
  PROVE  /\ FlattenSeq(ss) = Joined(ss, Len(ss))
         /\ Joined(ss, 0) = <<>>
         /\ \A i \in 1 .. Len(ss) : Joined(ss, i) = Joined(ss, i - 1) \o ss[i]
         /\ \A i \in 0 .. Len(ss) : Joined(ss, i) \in Seq(T)
<1> DEFINE n == Len(ss)
           f == Flattening(ss, n)
<1>1. n \in Nat /\ DOMAIN ss = 1 .. n /\ \A i \in 1 .. n : ss[i] \in Seq(T)
  BY ListDomain DEF Lists
<1>2. f = [i \in 1 .. n |-> IF i = 1 THEN ss[i] ELSE f[i - 1] \o ss[i]]
  BY <1>1, FlatteningExists
<1>3. \A i \in 1 .. n : f[i] = IF i = 1 THEN ss[i] ELSE f[i - 1] \o ss[i]
  <2> HIDE DEF f
  <2> QED BY <1>2
<1>4. Joined(ss, 0) = <<>> /\ \A i \in 1 .. n : Joined(ss, i) = f[i]
  BY <1>1 DEF Joined
<1>5. FlattenSeq(ss) = Joined(ss, n)
  <2>1. CASE n = 0
    BY <2>1 DEF Lists, IsList, FlattenSeq, Joined
  <2>2. CASE n # 0
    BY <2>2, <1>1, <1>4, FlattenIsFlattening
  <2> QED BY <2>1, <2>2
<1> HIDE DEF f
<1>6. ASSUME NEW i \in 1 .. n PROVE Joined(ss, i) = Joined(ss, i - 1) \o ss[i]
  <2>1. CASE i = 1
    <3>1. ss[i] \in Seq(T)
      BY <1>1
    <3>2. <<>> \o ss[i] = ss[i]
      BY <3>1
    <3>3. i - 1 = 0
      BY <2>1
    <3>4. Joined(ss, i) = ss[i]
      BY <2>1, <1>3, <1>4
    <3> QED BY Zenon, <3>2, <3>3, <3>4, <1>4
  <2>2. CASE i # 1
    <3>1. i - 1 \in 1 .. n
      BY <2>2, <1>1
    <3> QED BY <2>2, <3>1, <1>3, <1>4
  <2> QED BY <2>1, <2>2
<1>7. \A i \in 0 .. n : Joined(ss, i) \in Seq(T)
  <2> DEFINE K == {k \in Nat : k <= n => Joined(ss, k) \in Seq(T)}
  <2>1. 0 \in K
    BY Zenon, <1>4, EmptyIsSeq
  <2>2. ASSUME NEW k \in Nat, k \in K PROVE k + 1 \in K
    <3> SUFFICES ASSUME k + 1 <= n PROVE Joined(ss, k + 1) \in Seq(T)
      OBVIOUS
    <3>1. k <= n /\ k + 1 \in 1 .. n /\ (k + 1) - 1 = k
      BY <1>1
    <3>2. Joined(ss, k) \in Seq(T)
      BY <2>2, <3>1
    <3>3. ss[k + 1] \in Seq(T)
      BY <1>1, <3>1
    <3>4. Joined(ss, k + 1) = Joined(ss, k) \o ss[k + 1]
      BY <1>6, <3>1
    <3> QED BY Zenon, <3>2, <3>3, <3>4, ConcatIsSeq
  <2> HIDE DEF K
  <2>3. Nat \subseteq K
    BY <2>1, <2>2, Counting
  <2>4. \A i \in 0 .. n : i \in Nat /\ i <= n
    BY <1>1
  <2> QED BY <2>3, <2>4 DEF K
<1> QED BY <1>4, <1>5, <1>6, <1>7

LEMMA FlattenType ==
  ASSUME NEW T, NEW ss, Lists(ss, T)
  PROVE  FlattenSeq(ss) \in Seq(T)
<1>1. Len(ss) \in 0 .. Len(ss)
  <2>1. Len(ss) \in Nat
    BY ListDomain DEF Lists
  <2> QED BY <2>1
<1>2. FlattenSeq(ss) = Joined(ss, Len(ss))
  BY Zenon, JoinedSteps
<1>3. Joined(ss, Len(ss)) \in Seq(T)
  BY Zenon, <1>1, JoinedSteps
<1> QED BY <1>2, <1>3

\* What comes later leaves what was there where it was.
LEMMA JoinedPrefix ==
  ASSUME NEW T, NEW ss, Lists(ss, T),
         NEW i \in 0 .. Len(ss)
  PROVE  /\ Len(Joined(ss, i)) <= Len(FlattenSeq(ss))
         /\ \A p \in 1 .. Len(Joined(ss, i)) : FlattenSeq(ss)[p] = Joined(ss, i)[p]
<1> DEFINE n == Len(ss)
           J(k) == Joined(ss, k)
           all == FlattenSeq(ss)
           Stays(k) == Len(J(k)) <= Len(all) /\ \A p \in 1 .. Len(J(k)) : all[p] = J(k)[p]
           K == {k \in Nat : k <= n => Stays(n - k)}
<1>1. n \in Nat /\ DOMAIN ss = 1 .. n /\ \A j \in 1 .. n : ss[j] \in Seq(T)
  BY ListDomain DEF Lists
<1>2. /\ all = J(n)
      /\ \A k \in 1 .. n : J(k) = J(k - 1) \o ss[k]
      /\ \A k \in 0 .. n : J(k) \in Seq(T)
  BY JoinedSteps
<1> HIDE DEF J, all
<1>3. 0 \in K
  <2>1. n - 0 = n /\ all \in Seq(T)
    BY <1>1, <1>2
  <2> QED BY <1>1, <1>2, <2>1
<1>4. ASSUME NEW k \in Nat, k \in K PROVE k + 1 \in K
  <2> SUFFICES ASSUME k + 1 <= n PROVE Stays(n - (k + 1))
    OBVIOUS
  <2> DEFINE h == n - k
  <2>1. h \in 1 .. n /\ h - 1 = n - (k + 1) /\ h - 1 \in 0 .. n /\ k <= n
    BY <1>1
  <2>2. Stays(h)
    BY <1>4, <2>1
  <2> HIDE DEF h
  <2>3. /\ J(h) = J(h - 1) \o ss[h] /\ J(h - 1) \in Seq(T) /\ ss[h] \in Seq(T)
    BY <1>1, <1>2, <2>1
  <2>4. /\ Len(J(h)) = Len(J(h - 1)) + Len(ss[h])
        /\ Len(J(h - 1)) \in Nat /\ Len(ss[h]) \in Nat
        /\ \A p \in 1 .. Len(J(h - 1)) : J(h)[p] = J(h - 1)[p]
    BY <2>3
  <2>6. all \in Seq(T) /\ J(h) \in Seq(T)
    <3>1. n \in 0 .. n /\ h \in 0 .. n
      BY <1>1, <2>1
    <3> QED BY <3>1, <1>2
  <2>7. Len(all) \in Nat /\ Len(J(h)) \in Nat
    BY <2>6
  <2>5. \A p \in 1 .. Len(J(h - 1)) : p \in 1 .. Len(J(h))
    BY <2>4, <2>7, Sizes
  <2>8. Len(J(h - 1)) <= Len(all)
    BY <2>2, <2>4, <2>7, Sizes
  <2>9. Stays(h - 1)
    BY <2>2, <2>4, <2>5, <2>8
  <2> QED BY <2>1, <2>9
<1> HIDE DEF Stays
<1>5. Nat \subseteq K
  <2> HIDE DEF K
  <2> QED BY <1>3, <1>4, Counting
<1>6. n - i \in Nat /\ n - i <= n /\ n - (n - i) = i
  BY <1>1
<1>7. Stays(i)
  BY <1>5, <1>6
<1> QED BY <1>7 DEF Stays, J, all

\* Where in the whole each element of each list is.
LEMMA JoinedPlace ==
  ASSUME NEW T, NEW ss, Lists(ss, T),
         NEW i \in 1 .. Len(ss), NEW q \in 1 .. Len(ss[i])
  PROVE  /\ Len(Joined(ss, i - 1)) + q \in 1 .. Len(FlattenSeq(ss))
         /\ FlattenSeq(ss)[Len(Joined(ss, i - 1)) + q] = ss[i][q]
<1> DEFINE A == Joined(ss, i - 1)
           B == ss[i]
           J == Joined(ss, i)
           all == FlattenSeq(ss)
<1>1. Len(ss) \in Nat /\ DOMAIN ss = 1 .. Len(ss)
  BY ListDomain DEF Lists
<1>2. i \in DOMAIN ss /\ i - 1 \in 0 .. Len(ss) /\ i \in 0 .. Len(ss)
  BY <1>1
<1>3. J = A \o B /\ A \in Seq(T) /\ B \in Seq(T)
  BY <1>2, JoinedSteps DEF Lists
<1>4. Len(J) <= Len(all) /\ \A p \in 1 .. Len(J) : all[p] = J[p]
  BY <1>2, JoinedPrefix
<1>5. all \in Seq(T)
  BY FlattenType
<1>8. q \in 1 .. Len(B)
  OBVIOUS
<1> HIDE DEF A, B, J, all
<1>6. Len(A) \in Nat /\ Len(B) \in Nat /\ Len(J) = Len(A) + Len(B) /\ Len(all) \in Nat
  BY <1>3, <1>5
<1>7. Len(A) + q \in 1 .. Len(J) /\ J[Len(A) + q] = B[q]
  BY <1>3, <1>6, <1>8
<1>9. Len(A) + q \in 1 .. Len(all)
  BY <1>4, <1>6, <1>7
<1>10. all[Len(A) + q] = B[q]
  BY <1>4, <1>7
<1> QED BY <1>9, <1>10 DEF A, B, all

\* Nothing else is in it.
MadeOf(all, ss) ==
  \A p \in 1 .. Len(all) : \E i \in 1 .. Len(ss) : \E q \in 1 .. Len(ss[i]) : all[p] = ss[i][q]

LEMMA JoinedElements ==
  ASSUME NEW T, NEW ss, Lists(ss, T)
  PROVE  MadeOf(FlattenSeq(ss), ss)
<1> DEFINE U == {ss[i][q] : i \in 1 .. Len(ss), q \in Nat}
           V == UNION {{ss[i][q] : q \in 1 .. Len(ss[i])} : i \in 1 .. Len(ss)}
<1>1. Len(ss) \in Nat /\ DOMAIN ss = 1 .. Len(ss)
  BY ListDomain DEF Lists
<1>2. ASSUME NEW i \in DOMAIN ss PROVE ss[i] \in Seq(V)
  <2>1. ss[i] \in Seq(T)
    BY DEF Lists
  <2>2. \A q \in 1 .. Len(ss[i]) : ss[i][q] \in V
    BY <1>1
  <2> HIDE DEF V
  <2> QED BY <2>1, <2>2
<1> HIDE DEF V
<1>3. FlattenSeq(ss) \in Seq(V)
  <2>1. Lists(ss, V)
    BY <1>2 DEF Lists
  <2> QED BY <2>1, FlattenType
<1>4. \A p \in 1 .. Len(FlattenSeq(ss)) : FlattenSeq(ss)[p] \in V
  BY <1>3
<1> QED BY <1>4 DEF V, MadeOf

-----------------------------------------------------------------------------
(* Finite sets *)

LEMMA FiniteImage ==
  ASSUME NEW S, IsFiniteSet(S), NEW f, DOMAIN f = S
  PROVE  IsFiniteSet({f[x] : x \in S})
<1> DEFINE T == {f[x] : x \in S}
           g == [x \in S |-> f[x]]
<1>1. g \in Surjection(S, T)
  BY DEF Surjection
<1> HIDE DEF g, T
<1>2. IsFiniteSet(T)
  BY <1>1, FS_Surjection
<1> QED BY <1>2 DEF T

\* A finite set as a list: all of it, and nothing else.
LEMMA ListOfSet ==
  ASSUME NEW S, IsFiniteSet(S)
  PROVE  /\ SetToSeq(S) \in Seq(S)
         /\ S = {SetToSeq(S)[i] : i \in DOMAIN SetToSeq(S)}
<1> DEFINE n == Cardinality(S)
           f == SetToSeq(S)
<1>1. n \in Nat /\ Bijection(1 .. n, S) # {}
  BY FS_CardinalityType DEF ExistsBijection
<1>2. \E g \in [1 .. n -> S] : IsInjective(g)
  BY <1>1 DEF Bijection, Injection
<1>3. f \in [1 .. n -> S] /\ IsInjective(f)
  BY <1>2 DEF SetToSeq
<1>4. f \in Injection(1 .. n, S)
  BY <1>3 DEF Injection
<1>5. IsFiniteSet(1 .. n) /\ Cardinality(1 .. n) = n
  BY <1>1, FS_Interval
<1> HIDE DEF f, n
<1>6. f \in Surjection(1 .. n, S)
  BY <1>4, <1>5, FS_Injection DEF n
<1>7. \A x \in S : \E i \in 1 .. n : f[i] = x
  BY <1>6 DEF Surjection
<1>8. DOMAIN f = 1 .. n
  BY <1>3
<1>9. f \in Seq(S)
  BY <1>1, <1>3
<1> QED BY <1>3, <1>7, <1>8, <1>9 DEF f

LEMMA LeastOf ==
  ASSUME NEW S, S \subseteq Nat, S # {}
  PROVE  Min(S) \in S /\ \A x \in S : Min(S) <= x
BY LeastNumber DEF Min

-----------------------------------------------------------------------------
(* The specification without its blocks *)

StripStart == [out |-> <<>>, skipping |-> FALSE]
Stripping(ls, n) ==
  CHOOSE f : f = [i \in 0 .. n |-> IF i = 0 THEN StripStart ELSE StripLine(f[i - 1], ls[i])]

LEMMA StripIsStripping == \A ls : stripSpecBlocks(ls) = Stripping(ls, Len(ls))[Len(ls)].out
BY Zenon DEF stripSpecBlocks, ReadLines, Stripping, StripLine, StripStart

LEMMA StrippingExists ==
  ASSUME NEW ls, NEW n \in Nat
  PROVE  Stripping(ls, n)
           = [i \in 0 .. n |-> IF i = 0 THEN StripStart
                                        ELSE StripLine(Stripping(ls, n)[i - 1], ls[i])]
<1> DEFINE Is(f, k) == f = [i \in 0 .. k |-> IF i = 0 THEN StripStart
                                                      ELSE StripLine(f[i - 1], ls[i])]
           T == {k \in Nat : \E f : Is(f, k)}
<1>1. 0 \in T
  <2> DEFINE f == [i \in 0 .. 0 |-> StripStart]
  <2>1. Is(f, 0)
    OBVIOUS
  <2> HIDE DEF f, Is
  <2> QED BY <2>1
<1>2. ASSUME NEW k \in Nat, k \in T PROVE k + 1 \in T
  <2>1. PICK f : Is(f, k)
    BY <1>2
  <2> DEFINE h == StripLine(f[k], ls[k + 1])
             g == [i \in 0 .. (k + 1) |-> IF i = k + 1 THEN h ELSE f[i]]
  <2> HIDE DEF h
  <2>2. /\ \A i \in 0 .. k : g[i] = f[i]
        /\ g[k + 1] = h
        /\ DOMAIN g = 0 .. (k + 1) /\ g = [i \in 0 .. (k + 1) |-> g[i]]
    OBVIOUS
  <2>3. \A i \in 0 .. k : f[i] = IF i = 0 THEN StripStart ELSE StripLine(f[i - 1], ls[i])
    BY <2>1
  <2> HIDE DEF g
  <2>4. ASSUME NEW i \in 0 .. (k + 1)
        PROVE  g[i] = IF i = 0 THEN StripStart ELSE StripLine(g[i - 1], ls[i])
    <3>1. CASE i = k + 1
      <4>1. i # 0 /\ i - 1 \in 0 .. k /\ i - 1 = k
        BY <3>1
      <4> QED BY <3>1, <4>1, <2>2 DEF h
    <3>2. CASE i # k + 1
      <4>1. i \in 0 .. k
        BY <3>2
      <4>2. i # 0 => i - 1 \in 0 .. k
        BY <4>1
      <4> QED BY <4>1, <4>2, <2>2, <2>3
    <3> QED BY <3>1, <3>2
  <2>5. Is(g, k + 1)
    BY <2>2, <2>4
  <2> HIDE DEF Is
  <2> QED BY <2>5
<1> HIDE DEF T
<1>3. n \in T
  BY <1>1, <1>2, Counting
<1> QED BY <1>3 DEF T, Stripping

\* What is left is a list of lines of the original, and opens no block.
LEMMA StripLeavesNoBlock ==
  ASSUME NEW ls, NEW S, ls \in Seq(S)
  PROVE  stripSpecBlocks(ls) \in Seq(S \ {SPEC_OPEN})
<1> DEFINE n == Len(ls)
           f == Stripping(ls, n)
           Q == S \ {SPEC_OPEN}
           Ok(acc) == DOMAIN acc = {"out", "skipping"} /\ acc.out \in Seq(Q)
           K == {k \in Nat : k <= n => Ok(f[k])}
<1>1. n \in Nat /\ \A i \in 1 .. n : ls[i] \in S
  OBVIOUS
<1>2. \A i \in 0 .. n : f[i] = IF i = 0 THEN StripStart ELSE StripLine(f[i - 1], ls[i])
  <2>1. f = [i \in 0 .. n |-> IF i = 0 THEN StripStart ELSE StripLine(f[i - 1], ls[i])]
    BY <1>1, StrippingExists
  <2> HIDE DEF f
  <2> QED BY <2>1
<1> HIDE DEF f
<1>3. ASSUME NEW acc, NEW line \in S, Ok(acc) PROVE Ok(StripLine(acc, line))
  <2>1. CASE line = SPEC_OPEN
    <3> DEFINE out == IF acc.out # <<>> /\ Last(acc.out) = Blank THEN Front(acc.out) ELSE acc.out
    <3>1. StripLine(acc, line) = [out |-> out, skipping |-> TRUE]
      BY <2>1 DEF StripLine
    <3>2. out \in Seq(Q)
      <4>1. acc.out # <<>> => Front(acc.out) \in Seq(Q)
        BY <1>3 DEF Front
      <4> QED BY <1>3, <4>1
    <3> HIDE DEF out
    <3> QED BY <3>1, <3>2
  <2>2. CASE line # SPEC_OPEN /\ acc.skipping
    <3>1. StripLine(acc, line) = [acc EXCEPT !.skipping = line # SPEC_CLOSE]
      BY <2>2 DEF StripLine
    <3> QED BY <3>1, <1>3
  <2>3. CASE line # SPEC_OPEN /\ ~acc.skipping
    <3>1. StripLine(acc, line) = [acc EXCEPT !.out = Append(acc.out, line)]
      BY <2>3 DEF StripLine
    <3>2. Append(acc.out, line) \in Seq(Q)
      BY <2>3, <1>3
    <3> QED BY <3>1, <3>2, <1>3
  <2> QED BY <2>1, <2>2, <2>3
<1>4. 0 \in K
  <2>1. 0 \in 0 .. n
    BY <1>1
  <2>2. f[0] = StripStart
    BY <1>2, <2>1
  <2>3. Ok(StripStart)
    BY DEF StripStart
  <2> HIDE DEF Ok
  <2> QED BY <2>2, <2>3
<1>5. ASSUME NEW k \in Nat, k \in K PROVE k + 1 \in K
  <2> HIDE DEF Ok
  <2> SUFFICES ASSUME k + 1 <= n PROVE Ok(f[k + 1])
    OBVIOUS
  <2>1. k <= n /\ k + 1 \in 0 .. n /\ k + 1 # 0 /\ (k + 1) - 1 = k /\ k + 1 \in 1 .. n
    BY <1>1
  <2>2. f[k + 1] = StripLine(f[k], ls[k + 1])
    BY <1>2, <2>1
  <2>3. Ok(f[k]) /\ ls[k + 1] \in S
    BY <1>1, <1>5, <2>1
  <2> QED BY <1>3, <2>2, <2>3
<1>6. Nat \subseteq K
  <2> HIDE DEF K
  <2> QED BY <1>4, <1>5, Counting
<1>7. Ok(f[n])
  BY <1>1, <1>6
<1> QED BY <1>7, StripIsStripping DEF f

-----------------------------------------------------------------------------
(* What the blocks of a specification say can be read from it *)

BlockAt(lines, incoming, i) ==
  {s \in DOMAIN incoming \cap DOMAIN specSections(lines) : specSections(lines)[s] = i}
Boxed(es) == <<Blank>> \o specBanner(es)
Rendering(lines, incoming) ==
  [i \in DOMAIN lines |->
     <<lines[i]>> \o IF BlockAt(lines, incoming, i) = {} THEN <<>>
                     ELSE Boxed(incoming[CHOOSE s \in BlockAt(lines, incoming, i) : TRUE])]

LEMMA RenderIsRendering ==
  \A spec, incoming :
    renderSpec(spec, incoming) = FlattenSeq(Rendering(stripSpecBlocks(spec), incoming))
BY Zenon DEF renderSpec, Rendering, BlockAt, Boxed

\* Lines and what is due in blocks: L holds no line that opens a block, A only
\* lines that stand in one.
Fits(L, A) ==
  /\ SPEC_OPEN \notin L /\ \A l \in L : l = <<l[1], l[2]>>
  /\ \A a \in A : a = <<"amended", a[2]>>

LEMMA LineKinds ==
  ASSUME NEW L, NEW A, Fits(L, A)
  PROVE  /\ SPEC_OPEN \notin A /\ SPEC_CLOSE \notin A /\ SPEC_OPEN # Blank
         /\ \A l \in L : l # SPEC_OPEN
         /\ \A x : <<"heading", x>> \notin A \cup {Blank, SPEC_OPEN, SPEC_CLOSE}
<1>1. SPEC_OPEN[1] = "open" /\ SPEC_CLOSE[1] = "close" /\ Blank[1] = "blank"
  BY Zenon DEF SPEC_OPEN, SPEC_CLOSE, Blank
<1>2. \A a \in A : a[1] = "amended"
  BY DEF Fits
<1>3. \A x : <<"heading", x>>[1] = "heading"
  OBVIOUS
<1>4. "amended" # "open" /\ "amended" # "close" /\ "open" # "blank" /\ "heading" # "amended"
        /\ "heading" # "blank" /\ "heading" # "open" /\ "heading" # "close"
  OBVIOUS
<1> QED BY <1>1, <1>2, <1>3, <1>4 DEF Fits

\* The line a section is listed at is its heading.
LEMMA SectionPlace ==
  ASSUME NEW L, NEW lines \in Seq(L), \A l \in L : l = <<l[1], l[2]>>
  PROVE  /\ \A s \in DOMAIN specSections(lines) :
              /\ specSections(lines)[s] \in 1 .. Len(lines)
              /\ lines[specSections(lines)[s]] = <<"heading", s>>
         /\ \A i \in 1 .. Len(lines) : \A s :
              lines[i] = <<"heading", s>> => s \in DOMAIN specSections(lines)
<1> DEFINE At(s) == {i \in DOMAIN lines : lines[i] = <<"heading", s>>}
           named == {lines[i][2] : i \in {j \in DOMAIN lines : lines[j][1] = "heading"}}
<1>1. DOMAIN lines = 1 .. Len(lines) /\ Len(lines) \in Nat
  OBVIOUS
<1>2. DOMAIN specSections(lines) = named
  BY DEF specSections
<1>3. \A s \in named : specSections(lines)[s] = Min(At(s))
  BY DEF specSections
<1>4. ASSUME NEW s \in named PROVE Min(At(s)) \in At(s)
  <2>1. PICK i \in DOMAIN lines : lines[i][1] = "heading" /\ lines[i][2] = s
    OBVIOUS
  <2>2. lines[i] \in L
    OBVIOUS
  <2>3. i \in At(s)
    BY <2>1, <2>2
  <2>4. At(s) \subseteq Nat
    BY <1>1
  <2> HIDE DEF At, named
  <2> QED BY <2>3, <2>4, LeastOf
<1>5. ASSUME NEW i \in DOMAIN lines, NEW s, lines[i] = <<"heading", s>> PROVE s \in named
  <2>1. lines[i][1] = "heading" /\ lines[i][2] = s
    BY <1>5
  <2> QED BY <2>1
<1> QED BY <1>1, <1>2, <1>3, <1>4, <1>5

\* A block stands under the heading of the section it is for.
LEMMA BlockIsUnder ==
  ASSUME NEW L, NEW lines \in Seq(L), \A l \in L : l = <<l[1], l[2]>>,
         NEW incoming, NEW i \in 1 .. Len(lines)
  PROVE  \A s : s \in BlockAt(lines, incoming, i) =>
                  /\ lines[i] = <<"heading", s>> /\ s = lines[i][2]
                  /\ s \in DOMAIN incoming
                  /\ BlockAt(lines, incoming, i) = {lines[i][2]}
<1>1. ASSUME NEW s \in BlockAt(lines, incoming, i)
      PROVE  lines[i] = <<"heading", s>> /\ s = lines[i][2] /\ s \in DOMAIN incoming
  <2>1. s \in DOMAIN incoming /\ s \in DOMAIN specSections(lines) /\ specSections(lines)[s] = i
    BY DEF BlockAt
  <2>2. lines[i] = <<"heading", s>>
    BY <2>1, SectionPlace
  <2> QED BY <2>1, <2>2
<1> QED BY <1>1

\* A block, line by line.
IsBlock(b, A, es, h) ==
  /\ b \in Seq(A \cup {h, Blank, SPEC_OPEN, SPEC_CLOSE})
  /\ Len(b) = Len(es) + 4
  /\ b[1] = h /\ b[2] = Blank /\ b[3] = SPEC_OPEN
  /\ \A q \in 1 .. Len(es) : b[3 + q] = es[q]
  /\ b[Len(es) + 4] = SPEC_CLOSE

LEMMA BlockLines ==
  ASSUME NEW A, NEW es \in Seq(A), NEW h
  PROVE  IsBlock(<<h>> \o Boxed(es), A, es, h)
<1> DEFINE o == SPEC_OPEN
           c == SPEC_CLOSE
           k == Blank
           b == <<h>> \o (<<k>> \o (<<o>> \o es \o <<c>>))
<1>1. <<h>> \o Boxed(es) = b
  BY Zenon DEF Boxed, specBanner
<1> HIDE DEF o, c, k
<1>2. Len(es) \in Nat
  OBVIOUS
<1>3. b \in Seq(A \cup {h, k, o, c}) /\ Len(b) = Len(es) + 4
  OBVIOUS
<1>4. b[1] = h /\ b[2] = k /\ b[3] = o
  OBVIOUS
<1>5. \A q \in 1 .. Len(es) : b[3 + q] = es[q]
  OBVIOUS
<1>6. b[Len(es) + 4] = c
  OBVIOUS
<1> HIDE DEF b
<1> QED BY <1>1, <1>3, <1>4, <1>5, <1>6 DEF o, c, k, IsBlock

\* The records' side of a rendering: lists of lines that stand in blocks.
Due(incoming, A) == \A s \in DOMAIN incoming : incoming[s] \in Seq(A)
LinesIn(L, A) == L \cup A \cup {Blank, SPEC_OPEN, SPEC_CLOSE}

Renders(R, L, A, lines, incoming) ==
  /\ IsList(R) /\ Len(R) = Len(lines) /\ DOMAIN R = 1 .. Len(lines)
  /\ \A i \in 1 .. Len(lines) :
       /\ R[i] \in Seq(LinesIn(L, A))
       /\ Len(R[i]) >= 1 /\ R[i][1] = lines[i]
       /\ BlockAt(lines, incoming, i) = {} => R[i] = <<lines[i]>>
       /\ BlockAt(lines, incoming, i) # {} =>
            /\ lines[i] = <<"heading", lines[i][2]>>
            /\ lines[i][2] \in DOMAIN incoming
            /\ R[i] = <<lines[i]>> \o Boxed(incoming[lines[i][2]])

LEMMA RenderingLines ==
  ASSUME NEW L, NEW A, Fits(L, A), NEW lines \in Seq(L), NEW incoming, Due(incoming, A)
  PROVE  Renders(Rendering(lines, incoming), L, A, lines, incoming)
<1> DEFINE R == Rendering(lines, incoming)
           n == Len(lines)
<1>1. n \in Nat /\ DOMAIN lines = 1 .. n
  OBVIOUS
<1>2. DOMAIN R = 1 .. n /\ R = [i \in 1 .. n |-> R[i]]
  BY <1>1 DEF Rendering
<1>3. R \in Seq({R[i] : i \in 1 .. n}) /\ Len(R) = n
  <2> HIDE DEF R
  <2> QED BY <1>1, <1>2, ListOfFunction
<1>4. ASSUME NEW i \in 1 .. n, BlockAt(lines, incoming, i) = {}
      PROVE  R[i] = <<lines[i]>>
  <2>1. R[i] = <<lines[i]>> \o <<>>
    BY Zenon, <1>1, <1>4 DEF Rendering
  <2>2. \A x : <<x>> \o <<>> = <<x>>
    OBVIOUS
  <2> QED BY Zenon, <2>1, <2>2
<1>5. ASSUME NEW i \in 1 .. n, BlockAt(lines, incoming, i) # {}
      PROVE  /\ lines[i] = <<"heading", lines[i][2]>>
             /\ lines[i][2] \in DOMAIN incoming
             /\ R[i] = <<lines[i]>> \o Boxed(incoming[lines[i][2]])
  <2>1. PICK s : s \in BlockAt(lines, incoming, i)
    BY <1>5
  <2>2. /\ lines[i] = <<"heading", s>> /\ s = lines[i][2] /\ s \in DOMAIN incoming
        /\ BlockAt(lines, incoming, i) = {lines[i][2]}
    BY <2>1, BlockIsUnder DEF Fits
  <2>3. (CHOOSE t \in BlockAt(lines, incoming, i) : TRUE) = s
    BY <2>2
  <2>4. R[i] = <<lines[i]>> \o Boxed(incoming[s])
    BY <1>1, <1>5, <2>3 DEF Rendering
  <2> QED BY <2>2, <2>4
<1>6. ASSUME NEW i \in 1 .. n
      PROVE  R[i] \in Seq(LinesIn(L, A)) /\ Len(R[i]) >= 1 /\ R[i][1] = lines[i]
  <2>0. lines[i] \in L
    BY <1>1
  <2>1. CASE BlockAt(lines, incoming, i) = {}
    <3>1. R[i] = <<lines[i]>>
      BY Zenon, <1>4, <2>1
    <3>2. lines[i] \in LinesIn(L, A)
      BY <2>0 DEF LinesIn
    <3>3. \A x \in LinesIn(L, A) :
            <<x>> \in Seq(LinesIn(L, A)) /\ Len(<<x>>) >= 1 /\ <<x>>[1] = x
      OBVIOUS
    <3> QED BY Zenon, <3>1, <3>2, <3>3
  <2>2. CASE BlockAt(lines, incoming, i) # {}
    <3> DEFINE es == incoming[lines[i][2]]
               b == <<lines[i]>> \o Boxed(es)
    <3>1. es \in Seq(A) /\ R[i] = b
      BY <1>5, <2>2 DEF Due
    <3> HIDE DEF es
    <3>2. /\ b \in Seq(A \cup {lines[i], Blank, SPEC_OPEN, SPEC_CLOSE})
          /\ Len(b) = Len(es) + 4 /\ b[1] = lines[i]
      <4>1. IsBlock(b, A, es, lines[i])
        BY <3>1, BlockLines
      <4> HIDE DEF b
      <4> QED BY Zenon, <4>1 DEF IsBlock
    <3> HIDE DEF b
    <3>3. Len(es) \in Nat
      BY <3>1
    <3>4. A \cup {lines[i], Blank, SPEC_OPEN, SPEC_CLOSE} \subseteq LinesIn(L, A)
      BY <2>0 DEF LinesIn
    <3>5. b \in Seq(LinesIn(L, A))
      BY <3>2, <3>4
    <3> QED BY <3>1, <3>2, <3>3, <3>5
  <2> QED BY <2>1, <2>2
<1>7. IsList(R)
  BY <1>3 DEF IsList
<1> HIDE DEF R
<1> QED BY Zenon, <1>2, <1>3, <1>4, <1>5, <1>6, <1>7 DEF Renders, R

\* Two renderings of the same lines that come to the same.
Alike(L, A, lines, in1, in2) ==
  /\ Fits(L, A) /\ lines \in Seq(L) /\ Due(in1, A) /\ Due(in2, A)
  /\ FlattenSeq(Rendering(lines, in1)) = FlattenSeq(Rendering(lines, in2))

\* Where one has a block, so has the other: what follows a heading without a
\* block cannot be taken for the start of one.
LEMMA NoBlockAlone ==
  ASSUME NEW L, NEW A, NEW lines, NEW in1, NEW in2, Alike(L, A, lines, in1, in2),
         NEW i \in 1 .. Len(lines),
         Joined(Rendering(lines, in1), i - 1) = Joined(Rendering(lines, in2), i - 1),
         BlockAt(lines, in1, i) # {}
  PROVE  BlockAt(lines, in2, i) # {}
<1> SUFFICES ASSUME BlockAt(lines, in2, i) = {} PROVE FALSE
  OBVIOUS
<1> DEFINE n == Len(lines)
           R1 == Rendering(lines, in1)
           R2 == Rendering(lines, in2)
           all == FlattenSeq(R1)
           p == Len(Joined(R1, i - 1))
           Q == LinesIn(L, A)
           es == in1[lines[i][2]]
           b == <<lines[i]>> \o Boxed(es)
<1>1. n \in Nat /\ Fits(L, A) /\ lines \in Seq(L)
  BY DEF Alike
<1>2. /\ IsList(R1) /\ Len(R1) = n /\ DOMAIN R1 = 1 .. n /\ Lists(R1, Q)
      /\ es \in Seq(A) /\ R1[i] = b
  <2>1. Renders(R1, L, A, lines, in1)
    BY RenderingLines DEF Alike
  <2> HIDE DEF R1
  <2> QED BY <2>1 DEF Renders, Alike, Due, Lists
<1>3. /\ IsList(R2) /\ Len(R2) = n /\ DOMAIN R2 = 1 .. n /\ Lists(R2, Q)
      /\ \A j \in 1 .. n : /\ Len(R2[j]) >= 1 /\ R2[j][1] = lines[j]
                           /\ BlockAt(lines, in2, j) = {} => R2[j] = <<lines[j]>>
                           /\ BlockAt(lines, in2, j) # {} => lines[j] = <<"heading", lines[j][2]>>
  <2>1. Renders(R2, L, A, lines, in2)
    BY RenderingLines DEF Alike
  <2> HIDE DEF R2
  <2> QED BY <2>1 DEF Renders, Lists
<1>4. all = FlattenSeq(R2) /\ Joined(R2, i - 1) = Joined(R1, i - 1)
  BY DEF Alike
<1>5. Len(b) = Len(es) + 4 /\ b[2] = Blank /\ b[3] = SPEC_OPEN /\ Len(es) \in Nat
  <2> HIDE DEF es
  <2>1. IsBlock(b, A, es, lines[i])
    BY <1>2, BlockLines
  <2>2. Len(es) \in Nat
    BY <1>2
  <2> HIDE DEF b
  <2> QED BY <2>1, <2>2 DEF IsBlock
<1> HIDE DEF R1, R2, b, es
<1>6. \A q \in 1 .. Len(b) : p + q \in 1 .. Len(all) /\ all[p + q] = b[q]
  <2>1. i \in 1 .. Len(R1) /\ R1[i] = b
    BY <1>2
  <2>2. \A q \in 1 .. Len(R1[i]) : p + q \in 1 .. Len(all) /\ all[p + q] = R1[i][q]
    BY <1>2, <2>1, JoinedPlace
  <2> QED BY Zenon, <2>1, <2>2
<1>7. p \in Nat /\ all \in Seq(Q) /\ Len(all) \in Nat
  <2>1. i - 1 \in 0 .. n
    BY <1>1
  <2>2. Joined(R1, i - 1) \in Seq(Q)
    BY <1>2, <2>1, JoinedSteps
  <2>3. all \in Seq(Q)
    BY <1>2, FlattenType
  <2> QED BY <2>2, <2>3
<1> HIDE DEF all
<1>8. 2 \in 1 .. Len(b) /\ 3 \in 1 .. Len(b) /\ 4 \in 1 .. Len(b)
  BY <1>5
<1>9. all[p + 2] = Blank /\ all[p + 3] = SPEC_OPEN /\ p + 4 <= Len(all)
  <2>1. p + 4 \in 1 .. Len(all)
    BY <1>6, <1>8
  <2> QED BY <1>5, <1>6, <1>8, <1>7, <2>1
\* the other goes on one line at a time
<1>10. ASSUME NEW j \in 1 .. n, R2[j] = <<lines[j]>>, NEW m \in Nat,
              Len(Joined(R2, j - 1)) = m, m < p + 3
       PROVE  j + 1 \in 1 .. n /\ Len(Joined(R2, j)) = m + 1 /\ all[m + 2] = lines[j + 1]
  <2>1. j - 1 \in 0 .. n /\ j \in 0 .. n
    BY <1>1
  <2>2. Joined(R2, j) = Joined(R2, j - 1) \o R2[j] /\ Joined(R2, j - 1) \in Seq(Q)
          /\ Joined(R2, n) = all
    BY <1>3, <1>4, <2>1, JoinedSteps
  <2>3. R2[j] \in Seq(Q) /\ Len(R2[j]) = 1
    BY <1>3, <1>10 DEF Lists
  <2>4. Len(Joined(R2, j)) = m + 1
    <3> DEFINE u == Joined(R2, j - 1)
               v == R2[j]
    <3>1. u \in Seq(Q) /\ v \in Seq(Q) /\ Len(u) = m /\ Len(v) = 1
      BY <1>10, <2>2, <2>3
    <3> HIDE DEF u, v
    <3>2. Len(u \o v) = Len(u) + Len(v)
      BY Zenon, <3>1, ConcatLength
    <3>3. Joined(R2, j) = u \o v
      BY <2>2 DEF u, v
    <3> QED BY <3>1, <3>2, <3>3
  <2>5. j # n
    <3> SUFFICES ASSUME j = n PROVE FALSE
      OBVIOUS
    <3>1. Len(all) = m + 1
      BY <2>2, <2>4
    <3> QED BY <3>1, <1>7, <1>9, <1>10
  <2>6. j + 1 \in 1 .. n /\ (j + 1) - 1 = j
    BY <1>1, <2>5
  <2>7. 1 \in 1 .. Len(R2[j + 1]) /\ R2[j + 1][1] = lines[j + 1]
    <3>1. R2[j + 1] \in Seq(Q) /\ Len(R2[j + 1]) >= 1 /\ R2[j + 1][1] = lines[j + 1]
      BY <1>3, <2>6 DEF Lists
    <3>2. Len(R2[j + 1]) \in Nat
      BY <3>1
    <3> QED BY <3>1, <3>2
  <2>8. all[Len(Joined(R2, (j + 1) - 1)) + 1] = R2[j + 1][1]
    <3> DEFINE k == j + 1
    <3>1. k \in 1 .. Len(R2) /\ 1 \in 1 .. Len(R2[k])
      BY <1>3, <2>6, <2>7
    <3> HIDE DEF k
    <3>2. FlattenSeq(R2)[Len(Joined(R2, k - 1)) + 1] = R2[k][1]
      BY <1>3, <3>1, JoinedPlace
    <3> QED BY <1>4, <3>2 DEF k
  <2>9. (m + 1) + 1 = m + 2
    OBVIOUS
  <2> QED BY <2>4, <2>6, <2>7, <2>8, <2>9
<1>11. i + 1 \in 1 .. n /\ Len(Joined(R2, i)) = p + 1 /\ all[p + 2] = lines[i + 1]
  <2>1. R2[i] = <<lines[i]>> /\ Len(Joined(R2, i - 1)) = p /\ p < p + 3
    BY <1>3, <1>4, <1>7
  <2> HIDE DEF p
  <2> QED BY <1>7, <1>10, <2>1
<1>12. R2[i + 1] = <<lines[i + 1]>>
  <2>1. lines[i + 1] = Blank
    BY <1>9, <1>11
  <2>2. \A x : <<"heading", x>> # Blank
    BY <1>1, LineKinds
  <2> QED BY <1>3, <1>11, <2>1, <2>2
<1>13. (i + 1) + 1 \in 1 .. n /\ all[(p + 1) + 2] = lines[(i + 1) + 1]
  <2>1. (i + 1) - 1 = i /\ p + 1 \in Nat /\ p + 1 < p + 3
    BY <1>1, <1>7
  <2> DEFINE j == i + 1
             m == p + 1
  <2>2. j \in 1 .. n /\ R2[j] = <<lines[j]>> /\ m \in Nat /\ Len(Joined(R2, j - 1)) = m /\ m < p + 3
    BY <1>11, <1>12, <2>1
  <2> HIDE DEF j, m
  <2>3. j + 1 \in 1 .. n /\ all[m + 2] = lines[j + 1]
    BY <1>10, <2>2
  <2> QED BY <2>3 DEF j, m
<1>14. (p + 1) + 2 = p + 3
  BY <1>7
<1>15. lines[(i + 1) + 1] \in L
  BY <1>1, <1>13
<1> QED BY <1>1, <1>9, <1>13, <1>14, <1>15, LineKinds

\* Where both have one, the two say the same: it ends at the first line that closes.
LEMMA BlocksAgree ==
  ASSUME NEW L, NEW A, NEW lines, NEW in1, NEW in2, Alike(L, A, lines, in1, in2),
         NEW i \in 1 .. Len(lines),
         Joined(Rendering(lines, in1), i - 1) = Joined(Rendering(lines, in2), i - 1),
         BlockAt(lines, in1, i) # {}, BlockAt(lines, in2, i) # {}
  PROVE  in1[lines[i][2]] = in2[lines[i][2]]
<1> DEFINE n == Len(lines)
           R1 == Rendering(lines, in1)
           R2 == Rendering(lines, in2)
           all == FlattenSeq(R1)
           p == Len(Joined(R1, i - 1))
           Q == LinesIn(L, A)
           e1 == in1[lines[i][2]]
           e2 == in2[lines[i][2]]
<1>1. n \in Nat /\ Fits(L, A)
  BY DEF Alike
<1>2. /\ Len(R1) = n /\ Lists(R1, Q) /\ e1 \in Seq(A) /\ IsBlock(R1[i], A, e1, lines[i])
  <2>1. Renders(R1, L, A, lines, in1)
    BY RenderingLines DEF Alike
  <2> HIDE DEF R1
  <2>2. /\ IsList(R1) /\ Len(R1) = n /\ DOMAIN R1 = 1 .. n /\ Lists(R1, Q)
        /\ lines[i][2] \in DOMAIN in1 /\ R1[i] = <<lines[i]>> \o Boxed(e1)
    BY <2>1 DEF Renders, Lists
  <2>3. e1 \in Seq(A)
    BY <2>2 DEF Alike, Due
  <2> HIDE DEF e1
  <2> QED BY <2>2, <2>3, BlockLines
<1>3. /\ Len(R2) = n /\ Lists(R2, Q) /\ e2 \in Seq(A) /\ IsBlock(R2[i], A, e2, lines[i])
  <2>1. Renders(R2, L, A, lines, in2)
    BY RenderingLines DEF Alike
  <2> HIDE DEF R2
  <2>2. /\ IsList(R2) /\ Len(R2) = n /\ DOMAIN R2 = 1 .. n /\ Lists(R2, Q)
        /\ lines[i][2] \in DOMAIN in2 /\ R2[i] = <<lines[i]>> \o Boxed(e2)
    BY <2>1 DEF Renders, Lists
  <2>3. e2 \in Seq(A)
    BY <2>2 DEF Alike, Due
  <2> HIDE DEF e2
  <2> QED BY <2>2, <2>3, BlockLines
<1>4. all = FlattenSeq(R2) /\ Joined(R2, i - 1) = Joined(R1, i - 1)
  BY DEF Alike
<1> HIDE DEF R1, R2, e1, e2
<1>5. \A q \in 1 .. Len(R1[i]) : all[p + q] = R1[i][q]
  <2>1. i \in 1 .. Len(R1)
    BY <1>2
  <2>2. \A q \in 1 .. Len(R1[i]) :
          FlattenSeq(R1)[Len(Joined(R1, i - 1)) + q] = R1[i][q]
    BY <1>2, <2>1, JoinedPlace
  <2> QED BY Zenon, <2>2
<1>6. \A q \in 1 .. Len(R2[i]) : all[p + q] = R2[i][q]
  <2>0. i \in 1 .. Len(R2) /\ Lists(R2, Q)
    BY <1>3
  <2>1. \A q \in 1 .. Len(R2[i]) :
          FlattenSeq(R2)[Len(Joined(R2, i - 1)) + q] = R2[i][q]
    BY <2>0, JoinedPlace
  <2> QED BY Zenon, <1>4, <2>1
<1> HIDE DEF all, p
<1>7. ASSUME NEW a \in Seq(A), NEW b \in Seq(A), NEW x, NEW y,
             IsBlock(x, A, a, lines[i]), IsBlock(y, A, b, lines[i]),
             \A q \in 1 .. Len(x) : all[p + q] = x[q],
             \A q \in 1 .. Len(y) : all[p + q] = y[q]
      PROVE  Len(b) <= Len(a)
  <2> SUFFICES ASSUME ~(Len(b) <= Len(a)) PROVE FALSE
    OBVIOUS
  <2>1. Len(a) \in Nat /\ Len(b) \in Nat /\ Len(x) = Len(a) + 4 /\ Len(y) = Len(b) + 4
    BY <1>7 DEF IsBlock
  <2>2. Len(a) + 4 \in 1 .. Len(x) /\ Len(a) + 4 \in 1 .. Len(y) /\ Len(a) + 1 \in 1 .. Len(b)
          /\ 3 + (Len(a) + 1) = Len(a) + 4
    BY <2>1
  <2>3. all[p + (Len(a) + 4)] = SPEC_CLOSE
    BY <1>7, <2>2 DEF IsBlock
  <2>4. all[p + (Len(a) + 4)] = b[Len(a) + 1]
    <3>1. y[3 + (Len(a) + 1)] = b[Len(a) + 1]
      BY <1>7, <2>2 DEF IsBlock
    <3> QED BY <1>7, <2>2, <3>1
  <2>5. b[Len(a) + 1] \in A
    BY <2>2
  <2> QED BY <1>1, <2>3, <2>4, <2>5, LineKinds
<1>8. Len(e1) = Len(e2)
  <2>1. Len(e2) <= Len(e1) /\ Len(e1) <= Len(e2)
    BY <1>2, <1>3, <1>5, <1>6, <1>7
  <2>2. Len(e1) \in Nat /\ Len(e2) \in Nat
    BY <1>2, <1>3
  <2> QED BY <2>1, <2>2
<1>9. ASSUME NEW q \in 1 .. Len(e1) PROVE e1[q] = e2[q]
  <2>1. Len(e1) \in Nat /\ Len(R1[i]) = Len(e1) + 4 /\ Len(R2[i]) = Len(e1) + 4
    BY <1>2, <1>3, <1>8 DEF IsBlock
  <2>2. 3 + q \in 1 .. Len(R1[i]) /\ 3 + q \in 1 .. Len(R2[i])
    BY <2>1
  <2>3. R1[i][3 + q] = e1[q] /\ R2[i][3 + q] = e2[q]
    BY <1>2, <1>3, <1>8 DEF IsBlock
  <2> QED BY <1>5, <1>6, <2>2, <2>3
<1>10. e1 = e2
  <2>1. DOMAIN e1 = 1 .. Len(e1) /\ DOMAIN e2 = 1 .. Len(e2)
    BY <1>2, <1>3
  <2>2. e1 = [q \in 1 .. Len(e1) |-> e1[q]] /\ e2 = [q \in 1 .. Len(e2) |-> e2[q]]
    BY <1>2, <1>3
  <2> QED BY <1>8, <1>9, <2>1, <2>2
<1> QED BY <1>10 DEF e1, e2

\* So two renderings that come to the same are the same, section by section.
LEMMA RenderingsAgree ==
  ASSUME NEW L, NEW A, NEW lines, NEW in1, NEW in2, Alike(L, A, lines, in1, in2)
  PROVE  \A i \in 1 .. Len(lines) :
           /\ BlockAt(lines, in1, i) # {} <=> BlockAt(lines, in2, i) # {}
           /\ BlockAt(lines, in1, i) # {} => in1[lines[i][2]] = in2[lines[i][2]]
<1> DEFINE n == Len(lines)
           R1 == Rendering(lines, in1)
           R2 == Rendering(lines, in2)
           Same(i) == Joined(R1, i) = Joined(R2, i)
           Agree(i) == /\ BlockAt(lines, in1, i) # {} <=> BlockAt(lines, in2, i) # {}
                       /\ BlockAt(lines, in1, i) # {} => in1[lines[i][2]] = in2[lines[i][2]]
           K == {k \in Nat : k <= n => Same(k)}
<1>1. n \in Nat
  BY DEF Alike
<1>2. Alike(L, A, lines, in2, in1)
  BY DEF Alike
<1>3. Renders(R1, L, A, lines, in1) /\ Renders(R2, L, A, lines, in2)
  BY RenderingLines DEF Alike
<1>4. ASSUME NEW i \in 1 .. n, Same(i - 1) PROVE Agree(i)
  <2>1. BlockAt(lines, in1, i) # {} => BlockAt(lines, in2, i) # {}
    BY <1>4, NoBlockAlone
  <2>2. BlockAt(lines, in2, i) # {} => BlockAt(lines, in1, i) # {}
    BY <1>2, <1>4, NoBlockAlone
  <2>3. BlockAt(lines, in1, i) # {} => in1[lines[i][2]] = in2[lines[i][2]]
    BY <1>4, <2>1, BlocksAgree
  <2> QED BY <2>1, <2>2, <2>3
<1> HIDE DEF R1, R2
<1>5. ASSUME NEW i \in 1 .. n, Same(i - 1) PROVE Same(i)
  <2>1. R1[i] = R2[i]
    <3>1. Agree(i)
      BY <1>4, <1>5
    <3>2. CASE BlockAt(lines, in1, i) = {}
      <4>1. R1[i] = <<lines[i]>> /\ R2[i] = <<lines[i]>>
        BY Zenon, <1>3, <3>1, <3>2 DEF Renders
      <4> QED BY <4>1
    <3>3. CASE BlockAt(lines, in1, i) # {}
      <4>1. /\ R1[i] = <<lines[i]>> \o Boxed(in1[lines[i][2]])
            /\ R2[i] = <<lines[i]>> \o Boxed(in2[lines[i][2]])
        BY Zenon, <1>3, <3>1, <3>3 DEF Renders
      <4> QED BY Zenon, <3>1, <3>3, <4>1
    <3> QED BY <3>2, <3>3
  <2>2. /\ Lists(R1, LinesIn(L, A)) /\ Len(R1) = n
        /\ Lists(R2, LinesIn(L, A)) /\ Len(R2) = n
    BY <1>3 DEF Renders, Lists
  <2>3. /\ Joined(R1, i) = Joined(R1, i - 1) \o R1[i]
        /\ Joined(R2, i) = Joined(R2, i - 1) \o R2[i]
    BY <2>2, JoinedSteps
  <2> QED BY Zenon, <1>5, <2>1, <2>3
<1>6. 0 \in K
  BY DEF Joined
<1>7. ASSUME NEW k \in Nat, k \in K PROVE k + 1 \in K
  <2> HIDE DEF Same
  <2> SUFFICES ASSUME k + 1 <= n PROVE Same(k + 1)
    OBVIOUS
  <2>1. k <= n /\ k + 1 \in 1 .. n /\ (k + 1) - 1 = k
    BY <1>1
  <2> QED BY <1>5, <1>7, <2>1
<1>8. Nat \subseteq K
  <2> HIDE DEF K
  <2> QED BY <1>6, <1>7, Counting
<1>9. ASSUME NEW i \in 1 .. n PROVE Agree(i)
  <2> HIDE DEF Same, Agree
  <2>1. i - 1 \in Nat /\ i - 1 <= n
    BY <1>1
  <2>2. Same(i - 1)
    BY <1>8, <2>1
  <2> QED BY <1>4, <2>2
<1> QED BY <1>9

-----------------------------------------------------------------------------
(* Edges from sections to records, and the blocks they make *)

EdgeSet(E) ==
  IsFiniteSet(E) /\ \A e \in E : e = <<e[1], e[2]>> /\ e[2] = <<"amended", e[2][2]>>
LinesFor(E, s) == {e[2] : e \in {f \in E : f[1] = s}}
GraphOf(E) == [s \in {e[1] : e \in E} |-> SetToSeq(LinesFor(E, s))]

LEMMA LinesForIsFinite ==
  ASSUME NEW E, EdgeSet(E), NEW s
  PROVE  IsFiniteSet(LinesFor(E, s))
<1> DEFINE F == {f \in E : f[1] = s}
           g == [f \in F |-> f[2]]
<1>1. IsFiniteSet(F)
  BY FS_Subset DEF EdgeSet
<1> HIDE DEF F
<1>2. DOMAIN g = F /\ {g[f] : f \in F} = {f[2] : f \in F}
  OBVIOUS
<1> HIDE DEF g
<1>3. IsFiniteSet({g[f] : f \in F})
  BY <1>1, <1>2, FiniteImage
<1> QED BY <1>2, <1>3 DEF LinesFor, F

\* What is due in a section's block is all its edges say.
Collects(G, E) ==
  /\ DOMAIN G = {e[1] : e \in E}
  /\ \A s \in DOMAIN G : LinesFor(E, s) = {G[s][i] : i \in DOMAIN G[s]}

LEMMA GraphIsDue ==
  ASSUME NEW E, EdgeSet(E), NEW A, \A e \in E : e[2] \in A
  PROVE  Due(GraphOf(E), A) /\ Collects(GraphOf(E), E)
<1>1. DOMAIN GraphOf(E) = {e[1] : e \in E}
        /\ \A s \in DOMAIN GraphOf(E) : GraphOf(E)[s] = SetToSeq(LinesFor(E, s))
  BY DEF GraphOf
<1>2. ASSUME NEW s \in DOMAIN GraphOf(E)
      PROVE  /\ GraphOf(E)[s] \in Seq(A)
             /\ LinesFor(E, s) = {GraphOf(E)[s][i] : i \in DOMAIN GraphOf(E)[s]}
  <2> DEFINE S == LinesFor(E, s)
             q == SetToSeq(S)
  <2>1. IsFiniteSet(S)
    BY LinesForIsFinite
  <2>2. S \subseteq A
    BY DEF LinesFor
  <2> HIDE DEF S
  <2>3. q \in Seq(S) /\ S = {q[i] : i \in DOMAIN q}
    BY <2>1, ListOfSet
  <2> HIDE DEF q
  <2>4. q \in Seq(A)
    BY <2>2, <2>3
  <2>5. GraphOf(E)[s] = q
    BY <1>1 DEF q, S
  <2> QED BY <2>3, <2>4, <2>5 DEF S
<1> QED BY Zenon, <1>1, <1>2 DEF Due, Collects

\* A heading of the rendering is one of the lines that were rendered.
LEMMA HeadingsAreKept ==
  ASSUME NEW L, NEW A, Fits(L, A), NEW lines \in Seq(L), NEW incoming, Due(incoming, A),
         NEW s, NEW p \in 1 .. Len(FlattenSeq(Rendering(lines, incoming))),
         FlattenSeq(Rendering(lines, incoming))[p] = <<"heading", s>>
  PROVE  s \in DOMAIN specSections(lines)
<1> DEFINE R == Rendering(lines, incoming)
           h == <<"heading", s>>
<1>1. Renders(R, L, A, lines, incoming)
  BY RenderingLines
<1>2. Lists(R, LinesIn(L, A)) /\ Len(R) = Len(lines)
  BY <1>1 DEF Renders, Lists
<1>3. PICK i \in 1 .. Len(R) : \E q \in 1 .. Len(R[i]) : FlattenSeq(R)[p] = R[i][q]
  <2> DEFINE all == FlattenSeq(R)
  <2>1. MadeOf(all, R)
    BY <1>2, JoinedElements
  <2>2. p \in 1 .. Len(all)
    OBVIOUS
  <2> HIDE DEF R, all
  <2>3. \E i \in 1 .. Len(R) : \E q \in 1 .. Len(R[i]) : all[p] = R[i][q]
    BY Zenon, <2>1, <2>2 DEF MadeOf
  <2> QED BY Zenon, <2>3 DEF all
<1>4. PICK q \in 1 .. Len(R[i]) : R[i][q] = h
  BY Zenon, <1>3
<1>5. i \in 1 .. Len(lines) /\ R[i] \in Seq(LinesIn(L, A))
  BY <1>1, <1>2 DEF Renders
<1> HIDE DEF R
<1>6. h \in L
  <2>1. h \in LinesIn(L, A)
    BY Zenon, <1>4, <1>5, InSeq
  <2>2. h \notin A \cup {Blank, SPEC_OPEN, SPEC_CLOSE}
    BY LineKinds
  <2> QED BY <2>1, <2>2 DEF LinesIn
<1>7. lines[i] = h
  <2>1. CASE BlockAt(lines, incoming, i) = {}
    <3>1. R[i] = <<lines[i]>>
      BY <1>1, <1>5, <2>1 DEF Renders
    <3> QED BY <1>4, <3>1
  <2>2. CASE BlockAt(lines, incoming, i) # {}
    <3> DEFINE es == incoming[lines[i][2]]
    <3>1. lines[i][2] \in DOMAIN incoming /\ R[i] = <<lines[i]>> \o Boxed(es)
      BY <1>1, <1>5, <2>2 DEF Renders
    <3>2. es \in Seq(A)
      BY <3>1 DEF Due
    <3> HIDE DEF es
    <3> DEFINE X == A \cup {lines[i], Blank, SPEC_OPEN, SPEC_CLOSE}
    <3>3. R[i] \in Seq(X)
      <4>1. IsBlock(R[i], A, es, lines[i])
        BY <3>1, <3>2, BlockLines
      <4> QED BY <4>1 DEF IsBlock
    <3>4. h \in X
      <4> HIDE DEF X
      <4> QED BY <1>4, <3>3, InSeq
    <3>5. h \notin A \cup {Blank, SPEC_OPEN, SPEC_CLOSE}
      BY LineKinds
    <3> QED BY <3>4, <3>5
  <2> QED BY <2>1, <2>2
<1> QED BY <1>5, <1>7, SectionPlace DEF Fits

\* Whoever reads the blocks of a specification that is in form knows the edges.
LEMMA EdgesFromBlocks ==
  ASSUME NEW E1, EdgeSet(E1), NEW E2, EdgeSet(E2),
         NEW S, NEW spec \in Seq(S), \A l \in S : l = <<l[1], l[2]>>,
         spec = renderSpec(spec, GraphOf(E1)), spec = renderSpec(spec, GraphOf(E2)),
         \A e \in E1 \cup E2 : e[1] \in DOMAIN specSections(spec)
  PROVE  E1 = E2
<1> DEFINE lines == stripSpecBlocks(spec)
           L == S \ {SPEC_OPEN}
           A == {e[2] : e \in E1 \cup E2}
           G1 == GraphOf(E1)
           G2 == GraphOf(E2)
<1>1. lines \in Seq(L)
  BY StripLeavesNoBlock
<1>2. Fits(L, A)
  BY DEF Fits, EdgeSet
<1>3. Due(G1, A) /\ Collects(G1, E1) /\ Due(G2, A) /\ Collects(G2, E2)
  <2>1. \A e \in E1 \cup E2 : e[2] \in A
    OBVIOUS
  <2> HIDE DEF A
  <2> QED BY <2>1, GraphIsDue
<1>5. spec = FlattenSeq(Rendering(lines, G1)) /\ spec = FlattenSeq(Rendering(lines, G2))
  BY RenderIsRendering
<1> HIDE DEF lines, L, A, G1, G2
<1>6. Alike(L, A, lines, G1, G2) /\ Alike(L, A, lines, G2, G1)
  BY <1>1, <1>2, <1>3, <1>5 DEF Alike
<1>7. ASSUME NEW e \in E1 \cup E2 PROVE e[1] \in DOMAIN specSections(lines)
  <2> DEFINE s == e[1]
             p == specSections(spec)[s]
  <2>1. p \in 1 .. Len(spec) /\ spec[p] = <<"heading", s>>
    BY SectionPlace
  <2> HIDE DEF p, s
  <2>2. s \in DOMAIN specSections(lines)
    BY <1>1, <1>2, <1>3, <1>5, <2>1, HeadingsAreKept
  <2> QED BY <2>2 DEF s
<1>8. ASSUME NEW F1, EdgeSet(F1), NEW F2, EdgeSet(F2), NEW H1, NEW H2,
             Alike(L, A, lines, H1, H2), Collects(H1, F1), Collects(H2, F2),
             NEW e \in F1, e[1] \in DOMAIN specSections(lines)
      PROVE  e \in F2
  <2> DEFINE s == e[1]
             i == specSections(lines)[s]
  <2>1. i \in 1 .. Len(lines) /\ lines[i] = <<"heading", s>>
    BY <1>1, <1>2, <1>8, SectionPlace DEF Fits
  <2>2. lines[i][2] = s
    BY <2>1
  <2>3. s \in DOMAIN H1
    BY <1>8 DEF Collects
  <2>4. s \in BlockAt(lines, H1, i)
    BY <1>8, <2>3 DEF BlockAt
  <2> HIDE DEF i
  <2>5. BlockAt(lines, H2, i) # {} /\ H1[s] = H2[s]
    BY <1>8, <2>1, <2>2, <2>4, RenderingsAgree
  <2>6. s \in DOMAIN H2
    BY <1>1, <1>2, <2>1, <2>2, <2>5, BlockIsUnder DEF Fits
  <2>7. LinesFor(F1, s) = LinesFor(F2, s)
    <3>1. LinesFor(F1, s) = {H1[s][k] : k \in DOMAIN H1[s]}
      BY Zenon, <1>8, <2>3 DEF Collects
    <3>2. LinesFor(F2, s) = {H2[s][k] : k \in DOMAIN H2[s]}
      BY Zenon, <1>8, <2>6 DEF Collects
    <3> QED BY Zenon, <2>5, <3>1, <3>2
  <2>8. e[2] \in LinesFor(F1, s)
    BY DEF LinesFor
  <2>9. PICK f \in F2 : f[1] = s /\ f[2] = e[2]
    <3>1. e[2] \in LinesFor(F2, s)
      BY Zenon, <2>7, <2>8
    <3> QED BY Zenon, <3>1 DEF LinesFor
  <2> QED BY <1>8, <2>9 DEF EdgeSet
<1>9. E1 \subseteq E2
  BY <1>3, <1>6, <1>7, <1>8
<1>10. E2 \subseteq E1
  BY <1>3, <1>6, <1>7, <1>8
<1> QED BY <1>9, <1>10

-----------------------------------------------------------------------------
(* What is read of a text *)

Kinds == {"top", "item", "nested", "bare"}
IsLine(l) == l.kind \in Kinds /\ IsList(l.flow)
AreLines(ls) == \E S : ls \in Seq(S) /\ \A l \in S : IsLine(l)

\* A reader's accounts: its lists are lists.
IsAccount(acc) ==
  /\ DOMAIN acc = {"scalars", "lists", "open", "entry", "ok"}
  /\ \A k \in DOMAIN acc.lists : IsList(acc.lists[k])

LEMMA ListGrows ==
  ASSUME NEW s, IsList(s), NEW e
  PROVE  IsList(Append(s, e)) /\ IsList([s EXCEPT ![Len(s)] = e])
<1>1. PICK S : s \in Seq(S)
  BY DEF IsList
<1> DEFINE T == S \cup {e}
           t == [s EXCEPT ![Len(s)] = e]
<1>2. s \in Seq(T) /\ e \in T
  BY <1>1
<1> HIDE DEF T
<1>3. Append(s, e) \in Seq(T)
  BY <1>2
<1>4. Len(s) \in Nat /\ DOMAIN s = 1 .. Len(s) /\ \A i \in 1 .. Len(s) : s[i] \in T
  BY <1>2
<1>5. t \in [1 .. Len(s) -> T]
  BY <1>2, <1>4
<1>6. t \in Seq(T)
  BY <1>4, <1>5
<1> QED BY <1>3, <1>6 DEF IsList

LEMMA ItemIsAccount ==
  ASSUME NEW acc, IsAccount(acc), NEW e, NEW entry
  PROVE  IsAccount(Item(acc, e, entry))
<1>1. \/ Item(acc, e, entry) = [acc EXCEPT !.ok = FALSE]
      \/ Item(acc, e, entry) = [acc EXCEPT !.lists = Pushed(acc.lists, acc.open, e), !.entry = entry]
  BY Zenon DEF Item
<1>2. \A k \in DOMAIN acc.lists : IsList(Append(acc.lists[k], e))
  BY ListGrows DEF IsAccount
<1>3. LET f == Pushed(acc.lists, acc.open, e) IN \A k \in DOMAIN f : IsList(f[k])
  BY <1>2 DEF Pushed, IsAccount
<1> QED BY <1>1, <1>3 DEF IsAccount

LEMMA NestedIsAccount ==
  ASSUME NEW acc, IsAccount(acc), NEW key, NEW v
  PROVE  IsAccount(Nested(acc, key, v))
<1> DEFINE old == acc.lists[acc.entry]
           new == [old EXCEPT ![Len(old)] = SetKey(old[Len(old)], key, v)]
           lists == [acc.lists EXCEPT ![acc.entry] = new]
<1>1. \/ Nested(acc, key, v) = [acc EXCEPT !.ok = FALSE]
      \/ Nested(acc, key, v) = [acc EXCEPT !.lists = lists]
  BY Zenon DEF Nested
<1>2. acc.entry \in DOMAIN acc.lists => IsList(new)
  BY ListGrows DEF IsAccount
<1> HIDE DEF new
<1>3. \A k \in DOMAIN lists : IsList(lists[k])
  BY <1>2 DEF IsAccount
<1> QED BY <1>1, <1>3 DEF IsAccount

LEMMA EmptyIsList == IsList(<<>>)
BY EmptyIsSeq DEF IsList

LEMMA GenLineIsAccount ==
  ASSUME NEW acc, IsAccount(acc), NEW l, IsLine(l)
  PROVE  IsAccount(GenLine(acc, l))
<1>1. CASE l.kind = "item"
  <2>1. GenLine(acc, l) = Item(acc, SetKey(Nothing, l.key, GenReads(l.val)), acc.open)
    BY Zenon, <1>1 DEF GenLine
  <2> QED BY <2>1, ItemIsAccount
<1>2. CASE l.kind = "nested"
  <2>1. GenLine(acc, l) = Nested(acc, l.key, GenReads(l.val))
    BY Zenon, <1>2 DEF GenLine
  <2> QED BY <2>1, NestedIsAccount
<1>3. CASE l.kind = "bare"
  <2>1. \E e, entry : GenLine(acc, l) = Item(acc, e, entry)
    BY Zenon, <1>3 DEF GenLine
  <2> QED BY <2>1, ItemIsAccount
<1>4. CASE l.kind = "top" /\ l.key \in LISTS
  <2>1. \E open, entry :
          GenLine(acc, l) = [acc EXCEPT !.open = open, !.lists = OpenedIn(acc.lists, l.key),
                                        !.entry = entry]
    BY Zenon, <1>4 DEF GenLine
  <2>2. LET f == OpenedIn(acc.lists, l.key) IN \A k \in DOMAIN f : IsList(f[k])
    BY EmptyIsList DEF OpenedIn, SetKey, IsAccount
  <2> QED BY <2>1, <2>2 DEF IsAccount
<1>5. CASE l.kind = "top" /\ l.key \notin LISTS
  <2>1. \E open, scalars : GenLine(acc, l) = [acc EXCEPT !.open = open, !.scalars = scalars]
    BY Zenon, <1>5 DEF GenLine
  <2> QED BY <2>1 DEF IsAccount
<1> QED BY <1>1, <1>2, <1>3, <1>4, <1>5 DEF IsLine, Kinds

LEMMA YamlLineIsAccount ==
  ASSUME NEW acc, IsAccount(acc), NEW l, IsLine(l)
  PROVE  IsAccount(YamlLine(acc, l))
<1>1. CASE l.kind = "item"
  <2>1. YamlLine(acc, l) = Item(acc, SetKey(Nothing, l.key, YamlReads(l.val)), acc.open)
    BY Zenon, <1>1 DEF YamlLine
  <2> QED BY <2>1, ItemIsAccount
<1>2. CASE l.kind = "nested"
  <2>1. YamlLine(acc, l) = Nested(acc, l.key, YamlReads(l.val))
    BY Zenon, <1>2 DEF YamlLine
  <2> QED BY <2>1, NestedIsAccount
<1>3. CASE l.kind = "bare"
  <2>1. \E e, entry : YamlLine(acc, l) = Item(acc, e, entry)
    BY Zenon, <1>3 DEF YamlLine
  <2> QED BY <2>1, ItemIsAccount
<1>4. CASE l.kind = "top"
  <2> DEFINE flow == [n \in DOMAIN l.flow |-> BareEntry(l.flow[n])]
             lists == IF ~(l.val = NoVal) THEN acc.lists ELSE SetKey(acc.lists, l.key, flow)
  <2>1. \E ok, open, entry, scalars :
          YamlLine(acc, l) = [acc EXCEPT !.ok = ok, !.open = open, !.entry = entry,
                                         !.lists = lists, !.scalars = scalars]
    BY ZenonT(60), <1>4 DEF YamlLine
  <2>2. IsList(flow)
    <3> HIDE DEF flow
    <3>1. Len(l.flow) \in Nat /\ DOMAIN l.flow = 1 .. Len(l.flow)
      BY ListDomain DEF IsLine
    <3>2. DOMAIN flow = 1 .. Len(l.flow) /\ flow = [n \in 1 .. Len(l.flow) |-> flow[n]]
      BY <3>1 DEF flow
    <3> QED BY <3>1, <3>2, ListOfFunction DEF IsList
  <2> HIDE DEF flow
  <2>3. \A k \in DOMAIN lists : IsList(lists[k])
    BY <2>2 DEF SetKey, IsAccount
  <2> HIDE DEF lists
  <2> QED BY <2>1, <2>3 DEF IsAccount
<1> QED BY <1>1, <1>2, <1>3, <1>4 DEF IsLine, Kinds

LEMMA UnreadIsAccount == IsAccount(Unread)
<1>1. \E open, entry, ok :
        Unread = [scalars |-> Nothing, lists |-> Nothing, open |-> open, entry |-> entry, ok |-> ok]
  BY Zenon DEF Unread
<1>2. DOMAIN Nothing = {}
  BY DEF Nothing
<1> QED BY <1>1, <1>2 DEF IsAccount

\* What the generator knows after each line.
GenReading(ls, n) ==
  CHOOSE f : f = [i \in 0 .. n |-> IF i = 0 THEN Unread ELSE GenLine(f[i - 1], ls[i])]

LEMMA GenReadingExists ==
  ASSUME NEW ls, NEW n \in Nat
  PROVE  GenReading(ls, n)
           = [i \in 0 .. n |-> IF i = 0 THEN Unread ELSE GenLine(GenReading(ls, n)[i - 1], ls[i])]
<1> DEFINE Is(f, k) == f = [i \in 0 .. k |-> IF i = 0 THEN Unread ELSE GenLine(f[i - 1], ls[i])]
           T == {k \in Nat : \E f : Is(f, k)}
<1>1. 0 \in T
  <2> DEFINE f == [i \in 0 .. 0 |-> Unread]
  <2>1. Is(f, 0)
    OBVIOUS
  <2> HIDE DEF f, Is
  <2> QED BY <2>1
<1>2. ASSUME NEW k \in Nat, k \in T PROVE k + 1 \in T
  <2>1. PICK f : Is(f, k)
    BY <1>2
  <2> DEFINE h == GenLine(f[k], ls[k + 1])
             g == [i \in 0 .. (k + 1) |-> IF i = k + 1 THEN h ELSE f[i]]
  <2> HIDE DEF h
  <2>2. /\ \A i \in 0 .. k : g[i] = f[i]
        /\ g[k + 1] = h
        /\ DOMAIN g = 0 .. (k + 1) /\ g = [i \in 0 .. (k + 1) |-> g[i]]
    OBVIOUS
  <2>3. \A i \in 0 .. k : f[i] = IF i = 0 THEN Unread ELSE GenLine(f[i - 1], ls[i])
    BY <2>1
  <2> HIDE DEF g
  <2>4. ASSUME NEW i \in 0 .. (k + 1)
        PROVE  g[i] = IF i = 0 THEN Unread ELSE GenLine(g[i - 1], ls[i])
    <3>1. CASE i = k + 1
      <4>1. i # 0 /\ i - 1 \in 0 .. k /\ i - 1 = k
        BY <3>1
      <4> QED BY <3>1, <4>1, <2>2 DEF h
    <3>2. CASE i # k + 1
      <4>1. i \in 0 .. k
        BY <3>2
      <4>2. i # 0 => i - 1 \in 0 .. k
        BY <4>1
      <4> QED BY <4>1, <4>2, <2>2, <2>3
    <3> QED BY <3>1, <3>2
  <2>5. Is(g, k + 1)
    BY <2>2, <2>4
  <2> HIDE DEF Is
  <2> QED BY <2>5
<1> HIDE DEF T
<1>3. n \in T
  BY <1>1, <1>2, Counting
<1> QED BY <1>3 DEF T, GenReading

LEMMA ParseFrontmatterIsAccount ==
  ASSUME NEW ls, AreLines(ls)
  PROVE  IsAccount(parseFrontmatter(ls))
<1> DEFINE n == Len(ls)
           f == GenReading(ls, n)
           K == {k \in Nat : k <= n => IsAccount(f[k])}
<1>0. parseFrontmatter(ls) = f[n]
  BY Zenon DEF parseFrontmatter, ReadLines, GenReading
<1>1. n \in Nat /\ \A i \in 1 .. n : IsLine(ls[i])
  BY DEF AreLines
<1>2. \A i \in 0 .. n : f[i] = IF i = 0 THEN Unread ELSE GenLine(f[i - 1], ls[i])
  <2>1. f = [i \in 0 .. n |-> IF i = 0 THEN Unread ELSE GenLine(f[i - 1], ls[i])]
    BY <1>1, GenReadingExists
  <2> HIDE DEF f
  <2> QED BY <2>1
<1> HIDE DEF f
<1>3. 0 \in K
  <2>1. 0 \in 0 .. n
    BY <1>1
  <2>2. f[0] = Unread
    BY <1>2, <2>1
  <2> QED BY <2>2, UnreadIsAccount
<1>4. ASSUME NEW k \in Nat, k \in K PROVE k + 1 \in K
  <2> SUFFICES ASSUME k + 1 <= n PROVE IsAccount(f[k + 1])
    OBVIOUS
  <2>1. k <= n /\ k + 1 \in 0 .. n /\ k + 1 # 0 /\ (k + 1) - 1 = k /\ k + 1 \in 1 .. n
    BY <1>1
  <2>2. f[k + 1] = GenLine(f[k], ls[k + 1])
    BY <1>2, <2>1
  <2>3. IsAccount(f[k]) /\ IsLine(ls[k + 1])
    BY <1>1, <1>4, <2>1
  <2> QED BY <2>2, <2>3, GenLineIsAccount
<1>5. Nat \subseteq K
  <2> HIDE DEF K
  <2> QED BY <1>3, <1>4, Counting
<1>6. IsAccount(f[n])
  BY <1>1, <1>5
<1> QED BY <1>0, <1>6

\* What the gate knows after each line.
YamlReading(ls, n) ==
  CHOOSE f : f = [i \in 0 .. n |-> IF i = 0 THEN Unread ELSE YamlLine(f[i - 1], ls[i])]

LEMMA YamlReadingExists ==
  ASSUME NEW ls, NEW n \in Nat
  PROVE  YamlReading(ls, n)
           = [i \in 0 .. n |-> IF i = 0 THEN Unread ELSE YamlLine(YamlReading(ls, n)[i - 1], ls[i])]
<1> DEFINE Is(f, k) == f = [i \in 0 .. k |-> IF i = 0 THEN Unread ELSE YamlLine(f[i - 1], ls[i])]
           T == {k \in Nat : \E f : Is(f, k)}
<1>1. 0 \in T
  <2> DEFINE f == [i \in 0 .. 0 |-> Unread]
  <2>1. Is(f, 0)
    OBVIOUS
  <2> HIDE DEF f, Is
  <2> QED BY <2>1
<1>2. ASSUME NEW k \in Nat, k \in T PROVE k + 1 \in T
  <2>1. PICK f : Is(f, k)
    BY <1>2
  <2> DEFINE h == YamlLine(f[k], ls[k + 1])
             g == [i \in 0 .. (k + 1) |-> IF i = k + 1 THEN h ELSE f[i]]
  <2> HIDE DEF h
  <2>2. /\ \A i \in 0 .. k : g[i] = f[i]
        /\ g[k + 1] = h
        /\ DOMAIN g = 0 .. (k + 1) /\ g = [i \in 0 .. (k + 1) |-> g[i]]
    OBVIOUS
  <2>3. \A i \in 0 .. k : f[i] = IF i = 0 THEN Unread ELSE YamlLine(f[i - 1], ls[i])
    BY <2>1
  <2> HIDE DEF g
  <2>4. ASSUME NEW i \in 0 .. (k + 1)
        PROVE  g[i] = IF i = 0 THEN Unread ELSE YamlLine(g[i - 1], ls[i])
    <3>1. CASE i = k + 1
      <4>1. i # 0 /\ i - 1 \in 0 .. k /\ i - 1 = k
        BY <3>1
      <4> QED BY <3>1, <4>1, <2>2 DEF h
    <3>2. CASE i # k + 1
      <4>1. i \in 0 .. k
        BY <3>2
      <4>2. i # 0 => i - 1 \in 0 .. k
        BY <4>1
      <4> QED BY <4>1, <4>2, <2>2, <2>3
    <3> QED BY <3>1, <3>2
  <2>5. Is(g, k + 1)
    BY <2>2, <2>4
  <2> HIDE DEF Is
  <2> QED BY <2>5
<1> HIDE DEF T
<1>3. n \in T
  BY <1>1, <1>2, Counting
<1> QED BY <1>3 DEF T, YamlReading

LEMMA ParseYamlIsAccount ==
  ASSUME NEW ls, AreLines(ls)
  PROVE  IsAccount(parseYaml(ls))
<1> DEFINE n == Len(ls)
           f == YamlReading(ls, n)
           K == {k \in Nat : k <= n => IsAccount(f[k])}
<1>0. parseYaml(ls) = f[n]
  BY Zenon DEF parseYaml, ReadLines, YamlReading
<1>1. n \in Nat /\ \A i \in 1 .. n : IsLine(ls[i])
  BY DEF AreLines
<1>2. \A i \in 0 .. n : f[i] = IF i = 0 THEN Unread ELSE YamlLine(f[i - 1], ls[i])
  <2>1. f = [i \in 0 .. n |-> IF i = 0 THEN Unread ELSE YamlLine(f[i - 1], ls[i])]
    BY <1>1, YamlReadingExists
  <2> HIDE DEF f
  <2> QED BY <2>1
<1> HIDE DEF f
<1>3. 0 \in K
  <2>1. 0 \in 0 .. n
    BY <1>1
  <2>2. f[0] = Unread
    BY <1>2, <2>1
  <2> QED BY <2>2, UnreadIsAccount
<1>4. ASSUME NEW k \in Nat, k \in K PROVE k + 1 \in K
  <2> SUFFICES ASSUME k + 1 <= n PROVE IsAccount(f[k + 1])
    OBVIOUS
  <2>1. k <= n /\ k + 1 \in 0 .. n /\ k + 1 # 0 /\ (k + 1) - 1 = k /\ k + 1 \in 1 .. n
    BY <1>1
  <2>2. f[k + 1] = YamlLine(f[k], ls[k + 1])
    BY <1>2, <2>1
  <2>3. IsAccount(f[k]) /\ IsLine(ls[k + 1])
    BY <1>1, <1>4, <2>1
  <2> QED BY <2>2, <2>3, YamlLineIsAccount
<1>5. Nat \subseteq K
  <2> HIDE DEF K
  <2> QED BY <1>3, <1>4, Counting
<1>6. IsAccount(f[n])
  BY <1>1, <1>5
<1> QED BY <1>0, <1>6

\* Either way a text is read, what is read as a list is one.
LEMMA ListsAreRead ==
  ASSUME NEW ls, AreLines(ls), NEW key
  PROVE  IsList(ListOf(parseFrontmatter(ls), key)) /\ IsList(ListOf(parseYaml(ls), key))
BY ParseFrontmatterIsAccount, ParseYamlIsAccount, EmptyIsList DEF ListOf, IsAccount

-----------------------------------------------------------------------------
(* What is written in a text *)

\* A list is one of its own elements; a longer alphabet does no harm.
LEMMA ElementsOf ==
  ASSUME NEW s, IsList(s)
  PROVE  s \in Seq({s[q] : q \in DOMAIN s})
<1>1. PICK S : s \in Seq(S)
  BY DEF IsList
<1>2. Len(s) \in Nat /\ DOMAIN s = 1 .. Len(s) /\ s = [i \in 1 .. Len(s) |-> s[i]]
  BY <1>1
<1> QED BY <1>2, ListOfFunction

LEMMA LinesOf == \A S, ls : ls \in Seq(S) /\ (\A l \in S : IsLine(l)) => AreLines(ls)
BY Zenon DEF AreLines

LEMMA LinesAre ==
  ASSUME NEW ls
  PROVE  AreLines(ls) <=> IsList(ls) /\ \A q \in DOMAIN ls : IsLine(ls[q])
<1>1. AreLines(ls) => IsList(ls) /\ \A q \in DOMAIN ls : IsLine(ls[q])
  BY DEF AreLines, IsList
<1>2. ASSUME IsList(ls), \A q \in DOMAIN ls : IsLine(ls[q]) PROVE AreLines(ls)
  <2>1. \A l \in {ls[q] : q \in DOMAIN ls} : IsLine(l)
    BY <1>2
  <2> QED BY Zenon, <1>2, <2>1, ElementsOf, LinesOf
<1> QED BY <1>1, <1>2

LEMMA NoLines == AreLines(<<>>)
<1> DEFINE none == <<>>
           S == {}
<1>1. none \in Seq(S) /\ \A l \in S : IsLine(l)
  BY EmptyIsSeq
<1> HIDE DEF none, S
<1>2. AreLines(none)
  BY <1>1, LinesOf
<1> QED BY Zenon, <1>2 DEF none

LEMMA OneLine == \A l : IsLine(l) => AreLines(<<l>>)
<1> SUFFICES ASSUME NEW l, IsLine(l) PROVE AreLines(<<l>>)
  OBVIOUS
<1> DEFINE one == <<l>>
           S == {l}
<1>1. one \in Seq(S) /\ \A x \in S : IsLine(x)
  OBVIOUS
<1> HIDE DEF one, S
<1>2. AreLines(one)
  BY <1>1, LinesOf
<1> QED BY Zenon, <1>2 DEF one

LEMMA MoreLines == \A a, b : AreLines(a) /\ AreLines(b) => AreLines(a \o b)
<1> SUFFICES ASSUME NEW a, NEW b, AreLines(a), AreLines(b) PROVE AreLines(a \o b)
  OBVIOUS
<1>1. PICK S : a \in Seq(S) /\ \A l \in S : IsLine(l)
  BY DEF AreLines
<1>2. PICK T : b \in Seq(T) /\ \A l \in T : IsLine(l)
  BY DEF AreLines
<1>3. a \in Seq(S \cup T) /\ b \in Seq(S \cup T)
  BY <1>1, <1>2
<1>4. a \o b \in Seq(S \cup T)
  BY <1>3, ConcatIsSeq
<1> QED BY <1>1, <1>2, <1>4 DEF AreLines

LEMMA AddedLine == \A ls, l : AreLines(ls) /\ IsLine(l) => AreLines(Append(ls, l))
<1> SUFFICES ASSUME NEW ls, NEW l, AreLines(ls), IsLine(l) PROVE AreLines(Append(ls, l))
  OBVIOUS
<1>1. PICK S : ls \in Seq(S) /\ \A x \in S : IsLine(x)
  BY DEF AreLines
<1>2. Append(ls, l) \in Seq(S \cup {l})
  BY <1>1
<1> QED BY <1>1, <1>2 DEF AreLines

\* One list of lines after the other.
LEMMA FlatLines ==
  ASSUME NEW ss, IsList(ss), \A i \in DOMAIN ss : AreLines(ss[i])
  PROVE  AreLines(FlattenSeq(ss))
<1> DEFINE T == UNION {{ss[i][q] : q \in DOMAIN ss[i]} : i \in DOMAIN ss}
<1>1. ASSUME NEW i \in DOMAIN ss PROVE ss[i] \in Seq(T)
  <2> DEFINE U == {ss[i][q] : q \in DOMAIN ss[i]}
  <2>1. ss[i] \in Seq(U)
    BY LinesAre, ElementsOf
  <2>2. U \subseteq T
    OBVIOUS
  <2> HIDE DEF U, T
  <2> QED BY <2>1, <2>2
<1>2. \A l \in T : IsLine(l)
  BY LinesAre
<1> HIDE DEF T
<1>3. Lists(ss, T)
  BY <1>1 DEF Lists
<1> QED BY <1>2, <1>3, FlattenType DEF AreLines

\* What people and the generator type.
LEMMA TypedLines ==
  /\ \A kind \in Kinds : \A key, val : IsLine(Line(kind, key, val))
  /\ \A key, val : IsLine(Top(key, val))
  /\ \A key : IsLine(ListTop(key))
<1>1. ASSUME NEW kind \in Kinds, NEW key, NEW val PROVE IsLine(Line(kind, key, val))
  BY EmptyIsList DEF IsLine, Line
<1>2. "top" \in Kinds
  BY DEF Kinds
<1> QED BY Zenon, <1>1, <1>2 DEF Top, ListTop

\* A file that is there has lines.
HasLines(t) == "fm" \in DOMAIN t /\ AreLines(t.fm)
IsFile(t) == t = Absent \/ HasLines(t)

LEMMA SetLines == \A t, ls : HasLines(t) /\ AreLines(ls) => HasLines([t EXCEPT !.fm = ls])
BY DEF HasLines

\* A key whose value is a list is written as the lines of each entry.
LEMMA BlockOfLines ==
  ASSUME NEW key, NEW list, IsList(list), NEW each, DOMAIN each = DOMAIN list,
         each = [n \in DOMAIN list |-> each[n]], \A n \in DOMAIN list : AreLines(each[n])
  PROVE  AreLines(<<ListTop(key)>> \o FlattenSeq(each))
<1>1. IsList(each)
  BY ListDomain, ListOfFunction DEF IsList
<1>2. AreLines(FlattenSeq(each))
  BY <1>1, FlatLines
<1> QED BY <1>2, TypedLines, OneLine, MoreLines

LEMMA FewLines ==
  /\ \A a, b : IsLine(a) /\ IsLine(b) => AreLines(<<a, b>>)
  /\ \A a, b, c : IsLine(a) /\ IsLine(b) /\ IsLine(c) => AreLines(<<a, b, c>>)
<1>1. ASSUME NEW a, NEW b, IsLine(a), IsLine(b) PROVE AreLines(<<a, b>>)
  <2> DEFINE two == <<a, b>>
             S == {a, b}
  <2>1. two \in Seq(S) /\ \A l \in S : IsLine(l)
    BY <1>1
  <2> HIDE DEF two, S
  <2>2. AreLines(two)
    BY <2>1, LinesOf
  <2> QED BY Zenon, <2>2 DEF two
<1>2. ASSUME NEW a, NEW b, NEW c, IsLine(a), IsLine(b), IsLine(c)
      PROVE  AreLines(<<a, b, c>>)
  <2> DEFINE three == <<a, b, c>>
             S == {a, b, c}
  <2>1. three \in Seq(S) /\ \A l \in S : IsLine(l)
    BY <1>2
  <2> HIDE DEF three, S
  <2>2. AreLines(three)
    BY <2>1, LinesOf
  <2> QED BY Zenon, <2>2 DEF three
<1> QED BY <1>1, <1>2

LEMMA EntryLines ==
  \A e : AreLines(ClaimLines(e)) /\ AreLines(BareLines(e)) /\ AreLines(AmendLines(e))
<1>0. "item" \in Kinds /\ "nested" \in Kinds /\ "bare" \in Kinds
  BY DEF Kinds
<1> SUFFICES ASSUME NEW e
             PROVE AreLines(ClaimLines(e)) /\ AreLines(BareLines(e)) /\ AreLines(AmendLines(e))
  OBVIOUS
<1>2. AreLines(ClaimLines(e))
  BY Zenon, <1>0, FewLines, TypedLines DEF ClaimLines
<1>3. AreLines(BareLines(e))
  BY Zenon, <1>0, OneLine, TypedLines DEF BareLines
<1>4. AreLines(AmendLines(e))
  BY Zenon, <1>0, FewLines, TypedLines DEF AmendLines
<1> QED BY <1>2, <1>3, <1>4

\* What the generator writes back is lines again.
LEMMA RenderedHasLines ==
  ASSUME NEW t, HasLines(t)
  PROVE  HasLines(Rendered(t))
<1> DEFINE meta == parseFrontmatter(t.fm)
           v1 == IsV1(meta)
           when(b, lines) == IF b THEN lines ELSE <<>>
           schema == <<Top("schema", Plain("1"))>>
           first == Always(meta, "id", Bare) 
           title == Always(meta, "title", Quoted)
           topic == Always(meta, "topic", Quoted)
           status == Always(meta, "status", Quoted)
           ruling == Always(meta, "ruling", Quoted)
           claims == Block(meta, "claims", ClaimLines)
           supersedes == Block(meta, "supersedes", BareLines)
           by == IfSaid(meta, "superseded_by", Bare)
           revisit == IfSaid(meta, "revisit_if", Quoted)
           amends == Block(meta, "amends_spec", AmendLines)
           extra == status \o ruling \o claims \o supersedes \o by \o revisit
           fm == when(v1, schema) \o first \o title \o topic \o when(v1, extra) \o amends
<1>1. Rendered(t) = [t EXCEPT !.fm = fm]
  BY Zenon DEF Rendered, renderDecision
<1>2. \A b, lines : AreLines(lines) => AreLines(when(b, lines))
  BY NoLines
<1>3. /\ AreLines(schema) /\ AreLines(first) /\ AreLines(title) /\ AreLines(topic)
      /\ AreLines(status) /\ AreLines(ruling)
  BY Zenon, OneLine, TypedLines DEF Always
<1>4. AreLines(by) /\ AreLines(revisit)
  BY Zenon, OneLine, NoLines, TypedLines DEF IfSaid
<1>5. \A key : IsList(ListOf(meta, key))
  BY ListsAreRead DEF HasLines
<1>6. AreLines(claims)
  <2> DEFINE list == ListOf(meta, "claims")
             each == [n \in DOMAIN list |-> ClaimLines(list[n])]
  <2>1. claims = <<>> \/ claims = <<ListTop("claims")>> \o FlattenSeq(each)
    BY Zenon DEF Block
  <2>2. AreLines(<<ListTop("claims")>> \o FlattenSeq(each))
    BY <1>5, EntryLines, BlockOfLines
  <2> QED BY Zenon, <2>1, <2>2, NoLines
<1>7. AreLines(supersedes)
  <2> DEFINE list == ListOf(meta, "supersedes")
             each == [n \in DOMAIN list |-> BareLines(list[n])]
  <2>1. supersedes = <<>> \/ supersedes = <<ListTop("supersedes")>> \o FlattenSeq(each)
    BY Zenon DEF Block
  <2>2. AreLines(<<ListTop("supersedes")>> \o FlattenSeq(each))
    BY <1>5, EntryLines, BlockOfLines
  <2> QED BY Zenon, <2>1, <2>2, NoLines
<1>8. AreLines(amends)
  <2> DEFINE list == ListOf(meta, "amends_spec")
             each == [n \in DOMAIN list |-> AmendLines(list[n])]
  <2>1. amends = <<>> \/ amends = <<ListTop("amends_spec")>> \o FlattenSeq(each)
    BY Zenon DEF Block
  <2>2. AreLines(<<ListTop("amends_spec")>> \o FlattenSeq(each))
    BY <1>5, EntryLines, BlockOfLines
  <2> QED BY Zenon, <2>1, <2>2, NoLines
<1> HIDE DEF meta, v1, when, schema, first, title, topic, status, ruling, claims, supersedes,
             by, revisit, amends
<1>9. AreLines(extra)
  BY <1>3, <1>4, <1>6, <1>7, MoreLines
<1> HIDE DEF extra
<1>10. AreLines(fm)
  BY <1>2, <1>3, <1>8, <1>9, MoreLines
<1> HIDE DEF fm
<1> QED BY <1>1, <1>10, SetLines

LEMMA LegacyHasLines == \A d : HasLines(LegacyText(d))
<1> SUFFICES ASSUME NEW d PROVE HasLines(LegacyText(d))
  OBVIOUS
<1>1. PICK a, b, c : IsLine(a) /\ IsLine(b) /\ IsLine(c) /\ LegacyText(d).fm = <<a, b, c>>
  BY Zenon, TypedLines DEF LegacyText
<1>2. "fm" \in DOMAIN LegacyText(d)
  BY DEF LegacyText
<1> QED BY <1>1, <1>2, FewLines DEF HasLines

LEMMA FunctionOfLines ==
  ASSUME NEW n \in Nat, NEW f, DOMAIN f = 1 .. n, f = [i \in 1 .. n |-> f[i]],
         \A i \in 1 .. n : IsLine(f[i])
  PROVE  AreLines(f)
<1>1. IsList(f)
  BY ListOfFunction DEF IsList
<1> QED BY <1>1, LinesAre

\* A record somebody types has lines, when the lists in it end.
LEMMA TypedHasLines ==
  ASSUME NEW d, IsFiniteSet(d.supersedes), IsFiniteSet(d.amends)
  PROVE  HasLines(Typed(d))
<1> DEFINE schema == Slipped(<<Top("schema", Plain("1"))>>, d.slip, "schemaless")
           first == <<Top("id", Plain(d.id))>>
           title == Slipped(<<Top("title", Plain("as decided"))>>, d.slip, "untitled")
           topic == <<Top("topic", Plain(d.topic)), Top("status", Plain("active")),
                      Top("ruling", [Plain("so") EXCEPT !.note = d.slip = "noted"])>>
           claims == <<ListTop("claims"), Line("item", "kind", Plain("file")),
                       Line("nested", "target", Plain("somewhere"))>>
           aside == IF d.slip = "miskeyed"
                    THEN <<ListTop("notes"), Line("bare", "", Plain("an aside"))>> ELSE <<>>
           ids == SetToSeq(d.supersedes)
           flowing == <<[ListTop("supersedes") EXCEPT !.flow = ids]>>
           dashless == <<Top("supersedes", Plain(ids[1]))>>
           below == [i \in DOMAIN ids |-> Line("bare", "", Plain(ids[i]))]
           supersedes == IF ids = <<>> THEN <<>>
                         ELSE IF d.slip = "flow" THEN flowing
                         ELSE IF d.slip = "dashless" THEN dashless
                         ELSE <<ListTop("supersedes")>> \o below
           revisit == <<Top("revisit_if", Plain("when"))>>
           each == [i \in 1 .. Cardinality(d.amends) |->
                      <<Line("item", "section", Plain(SetToSeq(d.amends)[i]))>>
                        \o Slipped(<<Line("nested", "scope", Plain("how"))>>, d.slip, "scopeless")]
           amends == IF d.amends = {} THEN <<>>
                     ELSE <<ListTop("amends_spec")>> \o FlattenSeq(each)
           fm == schema \o first \o title \o topic \o claims \o aside \o supersedes
                   \o revisit \o amends
<1>0. "item" \in Kinds /\ "nested" \in Kinds /\ "bare" \in Kinds
  BY DEF Kinds
<1>1. Typed(d).fm = fm /\ "fm" \in DOMAIN Typed(d)
  <2>1. \E a, b, c : Typed(d) = [fm |-> fm, crlf |-> a, cites |-> b, fits |-> c]
    BY ZenonT(60) DEF Typed
  <2> HIDE DEF fm
  <2> QED BY <2>1
<1>2. AreLines(schema) /\ AreLines(title)
  BY Zenon, OneLine, NoLines, TypedLines DEF Slipped
<1>3. AreLines(first) /\ AreLines(topic) /\ AreLines(revisit)
  BY Zenon, OneLine, FewLines, TypedLines
<1>4. AreLines(claims)
  BY Zenon, <1>0, FewLines, TypedLines
<1>5. AreLines(aside)
  BY Zenon, <1>0, FewLines, NoLines, TypedLines
<1>6. AreLines(supersedes)
  <2>1. IsList(ids)
    BY ListOfSet DEF IsList
  <2>2. AreLines(flowing)
    <3> DEFINE l == ListTop("supersedes")
    <3>1. IsLine(l) /\ "flow" \in DOMAIN l /\ "kind" \in DOMAIN l
      BY TypedLines DEF ListTop, Top, Line
    <3> HIDE DEF l, ids
    <3>2. IsLine([l EXCEPT !.flow = ids])
      BY <2>1, <3>1 DEF IsLine
    <3> QED BY Zenon, <3>2, OneLine DEF l
  <2>3. AreLines(<<ListTop("supersedes")>> \o below)
    <3>1. Len(ids) \in Nat /\ DOMAIN ids = 1 .. Len(ids)
      BY <2>1, ListDomain
    <3> HIDE DEF ids
    <3>2. \A i \in DOMAIN ids : IsLine(below[i])
      BY Zenon, <1>0, TypedLines
    <3>3. AreLines(below)
      BY <3>1, <3>2, FunctionOfLines
    <3> QED BY Zenon, <3>3, OneLine, TypedLines, MoreLines
  <2>4. AreLines(dashless)
    BY Zenon, OneLine, TypedLines
  <2> QED BY Zenon, <2>2, <2>3, <2>4, NoLines
<1>7. AreLines(amends)
  <2>1. Cardinality(d.amends) \in Nat
    BY FS_CardinalityType
  <2>2. \A i \in 1 .. Cardinality(d.amends) : AreLines(each[i])
    BY Zenon, <1>0, OneLine, NoLines, TypedLines, MoreLines DEF Slipped
  <2>3. DOMAIN each = 1 .. Cardinality(d.amends) /\ IsList(each)
    <3>1. DOMAIN each = 1 .. Cardinality(d.amends)
             /\ each = [i \in 1 .. Cardinality(d.amends) |-> each[i]]
      OBVIOUS
    <3> HIDE DEF each
    <3> QED BY <2>1, <3>1, ListOfFunction DEF IsList
  <2> HIDE DEF each
  <2>4. AreLines(FlattenSeq(each))
    BY <2>2, <2>3, FlatLines
  <2> QED BY Zenon, <2>4, NoLines, OneLine, TypedLines, MoreLines
<1> HIDE DEF schema, first, title, topic, claims, aside, supersedes, revisit, amends
<1>8. AreLines(fm)
  BY <1>2, <1>3, <1>4, <1>5, <1>6, <1>7, MoreLines
<1> HIDE DEF fm
<1> QED BY <1>1, <1>8 DEF HasLines

\* Setting a key keeps the lines lines.
LEMMA WithHasLines ==
  ASSUME NEW t, HasLines(t), NEW key, NEW val
  PROVE  HasLines(With(t, key, val))
<1> DEFINE place == Min(TopLines(t.fm, key))
           set == [t.fm EXCEPT ![place] = [@ EXCEPT !.val = val]]
<1>1. CASE TopLines(t.fm, key) = {}
  <2> DEFINE more == Append(t.fm, Top(key, val))
  <2>1. With(t, key, val) = [t EXCEPT !.fm = more]
    BY Zenon, <1>1 DEF With
  <2>2. AreLines(more)
    BY AddedLine, TypedLines DEF HasLines
  <2> HIDE DEF more
  <2> QED BY <2>1, <2>2, SetLines
<1>2. CASE TopLines(t.fm, key) # {}
  <2>1. With(t, key, val) = [t EXCEPT !.fm = set]
    BY Zenon, <1>2 DEF With
  <2>2. IsList(t.fm) /\ \A q \in DOMAIN t.fm : IsLine(t.fm[q])
    BY LinesAre DEF HasLines
  <2>3. \A l : IsLine(l) => l.kind \in Kinds /\ IsList(l.flow)
    BY DEF IsLine
  <2> DEFINE old == t.fm
             n == Len(old)
  <2>4. n \in Nat /\ DOMAIN old = 1 .. n
    BY <2>2, ListDomain
  <2>5. DOMAIN set = 1 .. n /\ set = [q \in 1 .. n |-> set[q]]
    BY <2>4
  <2>6. ASSUME NEW q \in 1 .. n PROVE IsLine(set[q])
    <3>1. set[q] = IF q = place THEN [old[q] EXCEPT !.val = val] ELSE old[q]
      BY <2>4
    <3> HIDE DEF set
    <3>2. [old[q] EXCEPT !.val = val].kind = old[q].kind
            /\ [old[q] EXCEPT !.val = val].flow = old[q].flow
      OBVIOUS
    <3> QED BY <2>2, <2>4, <3>1, <3>2 DEF IsLine
  <2> HIDE DEF set
  <2>7. AreLines(set)
    BY <2>4, <2>5, <2>6, FunctionOfLines
  <2> QED BY <2>1, <2>7, SetLines
<1> QED BY <1>1, <1>2

\* A corpus whose files have lines, and whose specification is lines.
IsProse(spec) == \E S : spec \in Seq(S) /\ \A l \in S : l = <<l[1], l[2]>>

IsCorpus(c) ==
  /\ {"dir", "arch", "spec", "index"} \subseteq DOMAIN c
  /\ DOMAIN c.dir = Names /\ DOMAIN c.arch = Names
  /\ \A n \in Names : IsFile(c.dir[n]) /\ IsFile(c.arch[n])
  /\ IsProse(c.spec)

LEMMA TypedIsFile == \A d : IsFiniteSet(d.supersedes) /\ IsFiniteSet(d.amends) => IsFile(Typed(d))
BY Zenon, TypedHasLines DEF IsFile

\* Whatever is saved under one name, the rest stays.
LEMMA SavedIsCorpus ==
  ASSUME NEW c, IsCorpus(c), NEW n, NEW t, IsFile(t)
  PROVE  IsCorpus([c EXCEPT !.dir[n] = t])
<1> DEFINE dir == [c.dir EXCEPT ![n] = t]
<1>1. DOMAIN dir = Names /\ \A k \in Names : IsFile(dir[k])
  BY DEF IsCorpus
<1> HIDE DEF dir
<1>2. IsCorpus([c EXCEPT !.dir = dir])
  BY <1>1 DEF IsCorpus
<1> QED BY <1>2 DEF dir

LEMMA ArchivedIsCorpus ==
  ASSUME NEW c, IsCorpus(c), NEW n \in Names
  PROVE  IsCorpus(ArchiveOf(c, n))
<1> DEFINE dir == [c.dir EXCEPT ![n] = Absent]
           arch == [c.arch EXCEPT ![n] = c.dir[n]]
<1>1. /\ DOMAIN dir = Names /\ DOMAIN arch = Names
      /\ \A k \in Names : IsFile(dir[k]) /\ IsFile(arch[k])
  BY DEF IsCorpus, IsFile
<1>2. ArchiveOf(c, n) = [c EXCEPT !.dir = dir, !.arch = arch]
  BY DEF ArchiveOf
<1> HIDE DEF dir, arch
<1> QED BY <1>1, <1>2 DEF IsCorpus

\* A line taken out of the specification.
LEMMA CutIsProse ==
  ASSUME NEW spec, IsProse(spec), NEW i \in DOMAIN spec
  PROVE  IsProse(RemoveAt(spec, i))
<1>1. PICK S : spec \in Seq(S) /\ \A l \in S : l = <<l[1], l[2]>>
  BY DEF IsProse
<1> DEFINE n == Len(spec)
           a == SubSeq(spec, 1, i - 1)
           b == SubSeq(spec, i + 1, Len(spec))
<1>2. RemoveAt(spec, i) = a \o b
  BY DEF RemoveAt
<1>3. n \in Nat /\ i \in 1 .. n /\ \A q \in 1 .. n : spec[q] \in S
  BY <1>1
<1>4. \A p, q \in Int : (\A k \in p .. q : k \in 1 .. n) => SubSeq(spec, p, q) \in Seq(S)
  BY <1>1, <1>3
<1>5. a \in Seq(S) /\ b \in Seq(S)
  <2>1. \A k \in 1 .. (i - 1) : k \in 1 .. n
    BY <1>3
  <2>2. \A k \in (i + 1) .. n : k \in 1 .. n
    BY <1>3
  <2> QED BY <1>3, <1>4, <2>1, <2>2
<1> HIDE DEF a, b
<1>6. a \o b \in Seq(S)
  BY <1>5, ConcatIsSeq
<1> QED BY <1>1, <1>2, <1>6 DEF IsProse

LEMMA SpecIsCorpus ==
  ASSUME NEW c, IsCorpus(c), NEW spec, IsProse(spec)
  PROVE  IsCorpus([c EXCEPT !.spec = spec])
BY DEF IsCorpus

\* A record retired: what it and its heirs say is set, line by line.
LEMMA TakenOutHasLines ==
  ASSUME NEW t, HasLines(t)
  PROVE  LET kept(l) == IF l.key = "supersedes" \/ l.kind = "bare" THEN <<>> ELSE <<l>>
         IN  HasLines([t EXCEPT !.fm = FlattenSeq([i \in DOMAIN t.fm |-> kept(t.fm[i])])])
<1> DEFINE kept(l) == IF l.key = "supersedes" \/ l.kind = "bare" THEN <<>> ELSE <<l>>
           each == [i \in DOMAIN t.fm |-> kept(t.fm[i])]
<1>1. IsList(t.fm) /\ \A q \in DOMAIN t.fm : IsLine(t.fm[q])
  BY LinesAre DEF HasLines
<1>2. \A q \in DOMAIN each : AreLines(each[q])
  BY Zenon, <1>1, NoLines, OneLine
<1>3. IsList(each)
  <2>1. Len(t.fm) \in Nat /\ DOMAIN t.fm = 1 .. Len(t.fm)
    BY <1>1, ListDomain
  <2>2. DOMAIN each = 1 .. Len(t.fm) /\ each = [i \in 1 .. Len(t.fm) |-> each[i]]
    BY <2>1
  <2> HIDE DEF each
  <2> QED BY <2>1, <2>2, ListOfFunction DEF IsList
<1> HIDE DEF each
<1>4. AreLines(FlattenSeq(each))
  BY <1>2, <1>3, FlatLines
<1>5. HasLines([t EXCEPT !.fm = FlattenSeq(each)])
  BY <1>4, SetLines
<1> QED BY <1>5 DEF each

LEMMA FilesHaveLines ==
  ASSUME NEW c, IsCorpus(c), NEW f \in Files(c)
  PROVE  HasLines(TextAt(c, f))
<1>1. f \in RECORD_DIRS \X Names /\ c[f[1]][f[2]] # Absent
  BY DEF Files
<1>2. f[1] \in {"dir", "arch"} /\ f[2] \in Names
  BY <1>1 DEF RECORD_DIRS
<1>3. CASE f[1] = "dir"
  BY <1>1, <1>2, <1>3 DEF TextAt, IsCorpus, IsFile
<1>4. CASE f[1] = "arch"
  BY <1>1, <1>2, <1>4 DEF TextAt, IsCorpus, IsFile
<1> QED BY <1>2, <1>3, <1>4

\* A list read of a text has so many entries, and says so many things.
LEMMA TextsAreFinite ==
  ASSUME NEW ls, AreLines(ls), NEW key
  PROVE  IsFiniteSet(Texts(parseYaml(ls), key))
<1> DEFINE list == ListOf(parseYaml(ls), key)
           D == DOMAIN list
           said == [n \in D |-> list[n][""].text]
<1>1. Texts(parseYaml(ls), key) = {said[n] : n \in D}
  <2>1. \A n \in D : said[n] = list[n][""].text
    BY Zenon
  <2> HIDE DEF said
  <2>2. Texts(parseYaml(ls), key) = {list[n][""].text : n \in D}
    BY Zenon DEF Texts
  <2> QED BY Zenon, <2>1, <2>2
<1>2. Len(list) \in Nat /\ D = 1 .. Len(list)
  BY ListsAreRead, ListDomain
<1>3. IsFiniteSet(D)
  BY <1>2, FS_Interval
<1>4. DOMAIN said = D
  BY Zenon
<1> HIDE DEF said, D
<1>5. IsFiniteSet({said[n] : n \in D})
  BY <1>3, <1>4, FiniteImage
<1> QED BY <1>1, <1>5

LEMMA SupersededAreFinite ==
  ASSUME NEW c, IsCorpus(c), NEW i \in DOMAIN rewritten(c)
  PROVE  IsFiniteSet(rewritten(c)[i].supersedes)
<1>1. /\ DOMAIN rewritten(c) = {s.id : s \in standings(c)}
      /\ rewritten(c)[i] = CHOOSE s \in standings(c) : s.id = i
  BY Zenon DEF rewritten
<1>2. rewritten(c)[i] \in standings(c)
  BY <1>1
<1>3. PICK f \in Files(c) : rewritten(c)[i] = Standing(parseYaml(TextAt(c, f).fm))
  BY Zenon, <1>2 DEF standings
<1>4. Standing(parseYaml(TextAt(c, f).fm)).supersedes
        = Texts(parseYaml(TextAt(c, f).fm), "supersedes")
  BY DEF Standing
<1>5. AreLines(TextAt(c, f).fm)
  BY FilesHaveLines DEF HasLines
<1> QED BY <1>3, <1>4, <1>5, TextsAreFinite

\* Both files of a retirement, and what the old one had replaced, have lines.
LEMMA RetiredIsCorpus ==
  ASSUME NEW c, IsCorpus(c), NEW n, NEW m
  PROVE  IsCorpus(RetiredBy(c, rewritten(c), n, m))
<1> DEFINE rw == rewritten(c)
           id == idOf(c.dir[n])
           heirs == {id} \cup (IF id \in DOMAIN rw THEN rw[id].supersedes ELSE {})
           d == [name |-> m, id |-> NameId[m], topic |-> CHOOSE t \in Topics : TRUE,
                 supersedes |-> heirs, amends |-> {}, cites |-> {}, fits |-> TRUE,
                 slip |-> "none"]
           new == Typed(d)
           kept(l) == IF l.key = "supersedes" \/ l.kind = "bare" THEN <<>> ELSE <<l>>
           without(t) == [t EXCEPT !.fm = FlattenSeq([i \in DOMAIN t.fm |-> kept(t.fm[i])])]
           marked(t) == With(With(t, "status", Plain("superseded")),
                             "superseded_by", Plain(NameId[m]))
           after(t) == IF ~hasSchemaKey(t) \/ idOf(t) \notin heirs THEN t
                       ELSE IF idOf(t) = id THEN without(marked(t)) ELSE marked(t)
           dir == [k \in Names |-> IF k = m THEN new
                                   ELSE IF c.dir[k] = Absent THEN Absent
                                   ELSE after(c.dir[k])]
           arch == [k \in Names |-> IF c.arch[k] = Absent THEN Absent ELSE after(c.arch[k])]
<1>1. RetiredBy(c, rewritten(c), n, m) = [c EXCEPT !.dir = dir, !.arch = arch]
  BY Zenon DEF RetiredBy
<1>2. IsFiniteSet(heirs)
  <2>1. id \in DOMAIN rw => IsFiniteSet(rw[id].supersedes)
    BY SupersededAreFinite
  <2>2. IsFiniteSet({id}) /\ IsFiniteSet({})
    BY FS_Singleton, FS_EmptySet
  <2> HIDE DEF rw, id
  <2> QED BY <2>1, <2>2, FS_Union
<1>3. IsFile(new)
  <2>1. d.supersedes = heirs /\ d.amends = {}
    OBVIOUS
  <2> HIDE DEF d, heirs
  <2> QED BY <1>2, <2>1, FS_EmptySet, TypedIsFile
<1>4. ASSUME NEW t, HasLines(t) PROVE HasLines(after(t))
  <2>1. HasLines(marked(t))
    BY <1>4, WithHasLines
  <2>2. \A u : HasLines(u) => HasLines(without(u))
    BY TakenOutHasLines
  <2> HIDE DEF without, marked
  <2> QED BY <1>4, <2>1, <2>2
<1> HIDE DEF new, after
<1>5. /\ \A k \in Names : IsFile(dir[k]) /\ IsFile(arch[k])
      /\ DOMAIN dir = Names /\ DOMAIN arch = Names
  BY <1>3, <1>4 DEF IsCorpus, IsFile
<1> HIDE DEF dir, arch
<1> QED BY <1>1, <1>5 DEF IsCorpus

-----------------------------------------------------------------------------
(* The edges of a corpus, and what the generator makes of them *)

\* What one record amends, as edges, and what they all do.
EdgesOf(t) ==
  LET meta == parseFrontmatter(t.fm)
      list == ListOf(meta, "amends_spec")
  IN  {<<ValueOf(list[i], "section").text,
         <<"amended", <<ValueOf(meta.scalars, "id").text, ScopeOf(list[i]).text>>>>>> :
           i \in DOMAIN list}
Edges(c) == UNION {EdgesOf(c.dir[n]) : n \in Live(c)}

\* The graph the generator draws is that of the edges.
LEMMA GraphOfEdges == \A c : specGraph(load(c)) = GraphOf(Edges(c))
<1> SUFFICES ASSUME NEW c PROVE specGraph(load(c)) = GraphOf(Edges(c))
  OBVIOUS
<1> DEFINE ds == load(c)
           rec(n) == [name |-> n, text |-> c.dir[n], meta |-> parseFrontmatter(c.dir[n].fm)]
           of(d) == {<<ValueOf(Amendments(d)[i], "section").text,
                       <<"amended", <<IdIn(d), ScopeOf(Amendments(d)[i]).text>>>>>> :
                         i \in DOMAIN Amendments(d)}
           all == UNION {of(d) : d \in ds}
<1>1. specGraph(ds) = GraphOf(all)
  BY Zenon DEF specGraph, GraphOf, LinesFor
<1>2. ASSUME NEW n PROVE of(rec(n)) = EdgesOf(c.dir[n])
  <2>1. rec(n).meta = parseFrontmatter(c.dir[n].fm)
    OBVIOUS
  <2> HIDE DEF rec
  <2>2. /\ Amendments(rec(n)) = ListOf(parseFrontmatter(c.dir[n].fm), "amends_spec")
        /\ IdIn(rec(n)) = ValueOf(parseFrontmatter(c.dir[n].fm).scalars, "id").text
    BY Zenon, <2>1 DEF Amendments, IdIn
  <2> QED BY Zenon, <2>2 DEF EdgesOf
<1>3. ds = {rec(n) : n \in Live(c)}
  BY DEF load
<1>4. all = Edges(c)
  <2> HIDE DEF ds, rec, of
  <2>1. all = UNION {of(rec(n)) : n \in Live(c)}
    BY <1>3
  <2> QED BY <1>2, <2>1 DEF Edges
<1> QED BY <1>1, <1>4

LEMMA EdgesOfRecord ==
  ASSUME NEW t, HasLines(t)
  PROVE  EdgeSet(EdgesOf(t))
<1> DEFINE meta == parseFrontmatter(t.fm)
           list == ListOf(meta, "amends_spec")
           D == DOMAIN list
           edge(i) == <<ValueOf(list[i], "section").text,
                        <<"amended", <<ValueOf(meta.scalars, "id").text,
                                       ScopeOf(list[i]).text>>>>>>
           f == [i \in D |-> edge(i)]
<1>1. EdgesOf(t) = {f[i] : i \in D}
  <2>1. \A i \in D : f[i] = edge(i)
    BY Zenon
  <2>2. EdgesOf(t) = {edge(i) : i \in D}
    BY Zenon DEF EdgesOf
  <2> HIDE DEF f, edge
  <2> QED BY Zenon, <2>1, <2>2
<1>2. \A i \in D : f[i] = <<f[i][1], f[i][2]>> /\ f[i][2] = <<"amended", f[i][2][2]>>
  <2>1. \A x, y : LET e == <<x, <<"amended", y>>>>
                  IN  e = <<e[1], e[2]>> /\ e[2] = <<"amended", e[2][2]>>
    OBVIOUS
  <2>2. \A i \in D : \E x, y : f[i] = <<x, <<"amended", y>>>>
    BY Zenon
  <2> HIDE DEF f
  <2> QED BY <2>1, <2>2
<1>3. Len(list) \in Nat /\ D = 1 .. Len(list)
  BY ListsAreRead, ListDomain DEF HasLines
<1>4. IsFiniteSet(D)
  BY <1>3, FS_Interval
<1>5. DOMAIN f = D
  BY Zenon
<1> HIDE DEF f, D
<1>6. IsFiniteSet({f[i] : i \in D})
  BY <1>4, <1>5, FiniteImage
<1> QED BY <1>1, <1>2, <1>6 DEF EdgeSet

\* There are finitely many records.
LEMMA EdgesAreEdgeSet ==
  ASSUME NEW c, IsCorpus(c)
  PROVE  EdgeSet(Edges(c))
<1> DEFINE D == Live(c)
           f == [n \in D |-> EdgesOf(c.dir[n])]
           all == {f[n] : n \in D}
<1>1. \A n \in D : HasLines(c.dir[n])
  BY DEF IsCorpus, IsFile, Live
<1>2. \A n \in D : EdgeSet(f[n])
  BY <1>1, EdgesOfRecord
<1>3. IsFiniteSet(D)
  BY NamesAssumption, FS_Subset DEF Live
<1>4. Edges(c) = UNION all
  BY DEF Edges
<1>5. DOMAIN f = D
  OBVIOUS
<1> HIDE DEF f, D
<1>6. IsFiniteSet(all)
  BY <1>3, <1>5, FiniteImage
<1>7. \A U \in all : IsFiniteSet(U)
  BY <1>2 DEF EdgeSet
<1>8. IsFiniteSet(UNION all)
  <2> HIDE DEF all
  <2> QED BY <1>6, <1>7, FS_UNION
<1>9. \A e \in UNION all : e = <<e[1], e[2]>> /\ e[2] = <<"amended", e[2][2]>>
  BY <1>2 DEF EdgeSet
<1> QED BY <1>4, <1>8, <1>9 DEF EdgeSet

\* A specification rendered is lines again.
LEMMA RenderedIsProse ==
  ASSUME NEW spec, IsProse(spec), NEW E, EdgeSet(E)
  PROVE  IsProse(renderSpec(spec, GraphOf(E)))
<1>1. PICK S : spec \in Seq(S) /\ \A l \in S : l = <<l[1], l[2]>>
  BY DEF IsProse
<1> DEFINE L == S \ {SPEC_OPEN}
           A == {e[2] : e \in E}
           lines == stripSpecBlocks(spec)
           R == Rendering(lines, GraphOf(E))
<1>2. lines \in Seq(L)
  BY <1>1, StripLeavesNoBlock
<1>3. Fits(L, A)
  BY <1>1 DEF Fits, EdgeSet
<1>4. Due(GraphOf(E), A)
  BY GraphIsDue
<1>5. Renders(R, L, A, lines, GraphOf(E))
  BY <1>2, <1>3, <1>4, RenderingLines
<1>6. Lists(R, LinesIn(L, A))
  BY <1>5 DEF Renders, Lists
<1>7. FlattenSeq(R) \in Seq(LinesIn(L, A))
  BY <1>6, FlattenType
<1>8. \A l \in LinesIn(L, A) : l = <<l[1], l[2]>>
  <2>1. Blank = <<Blank[1], Blank[2]>> /\ SPEC_OPEN = <<SPEC_OPEN[1], SPEC_OPEN[2]>>
          /\ SPEC_CLOSE = <<SPEC_CLOSE[1], SPEC_CLOSE[2]>>
    BY Zenon DEF Blank, SPEC_OPEN, SPEC_CLOSE
  <2>2. \A a \in A : a = <<a[1], a[2]>>
    BY <1>3 DEF Fits
  <2>3. \A l \in L : l = <<l[1], l[2]>>
    BY <1>1
  <2> HIDE DEF L, A
  <2> QED BY <2>1, <2>2, <2>3 DEF LinesIn
<1>9. renderSpec(spec, GraphOf(E)) = FlattenSeq(R)
  BY RenderIsRendering
<1> QED BY <1>7, <1>8, <1>9 DEF IsProse

LEMMA GeneratedSpec ==
  ASSUME NEW c, "spec" \in DOMAIN c
  PROVE  generate(c).spec = renderSpec(c.spec, GraphOf(Edges(c)))
<1>1. \E dir, index : generate(c) = [c EXCEPT !.dir = dir, !.index = index,
                                              !.spec = renderSpec(c.spec, specGraph(load(c)))]
  BY Zenon DEF generate
<1>2. specGraph(load(c)) = GraphOf(Edges(c))
  BY GraphOfEdges
<1> QED BY <1>1, <1>2

LEMMA GeneratedIsCorpus ==
  ASSUME NEW c, IsCorpus(c)
  PROVE  IsCorpus(generate(c))
<1> DEFINE dir == generate(c).dir
           new == [n \in Names |-> IF n \in Live(c)
                                   THEN renderDecision(c.dir[n],
                                          (CHOOSE d \in load(c) : d.name = n).meta)
                                   ELSE c.dir[n]]
           spec == renderSpec(c.spec, specGraph(load(c)))
<1>1. /\ \A n \in Live(c) : dir[n] = Rendered(c.dir[n])
  BY GeneratedParts DEF IsCorpus, Shape
<1>2. generate(c) = [c EXCEPT !.dir = new, !.index = renderIndex(load(c), c.intro),
                              !.spec = spec]
  BY Zenon DEF generate
<1>3. DOMAIN new = Names /\ \A n \in Names \ Live(c) : new[n] = c.dir[n]
  OBVIOUS
<1> HIDE DEF new
<1>4. \A n \in Live(c) : HasLines(c.dir[n])
  BY DEF IsCorpus, IsFile, Live
<1>5. \A n \in Names : IsFile(dir[n])
  BY <1>1, <1>2, <1>3, <1>4, RenderedHasLines DEF IsCorpus, IsFile
<1>6. IsProse(spec)
  BY GraphOfEdges, EdgesAreEdgeSet, RenderedIsProse DEF IsCorpus
<1>7. DOMAIN dir = Names
  BY <1>2, <1>3 DEF IsCorpus
<1>8. \E index : generate(c) = [c EXCEPT !.dir = dir, !.index = index, !.spec = spec]
  BY <1>2 DEF IsCorpus
<1> HIDE DEF dir, spec
<1> QED BY <1>5, <1>6, <1>7, <1>8 DEF IsCorpus

LEMMA UnsplitIsCorpus == IsCorpus(Unsplit)
<1>1. PICK a, b, d : Unsplit = [dir |-> [n \in Names |-> Absent], arch |-> [n \in Names |-> Absent],
                           baseline |-> a, intro |-> b, index |-> d, spec |-> Prose]
  BY Zenon DEF Unsplit
<1>2. IsProse(Prose)
  <2>1. Prose \in Seq(STRING \X STRING)
    BY TextAssumption
  <2>2. \A l \in STRING \X STRING : l = <<l[1], l[2]>>
    OBVIOUS
  <2> QED BY <2>1, <2>2 DEF IsProse
<1> QED BY <1>1, <1>2 DEF IsCorpus, IsFile

LEMMA SplitIsCorpus == \A c : IsCorpus(c) => IsCorpus(IsSplit(c))
<1> SUFFICES ASSUME NEW c, IsCorpus(c) PROVE IsCorpus(IsSplit(c))
  OBVIOUS
<1> DEFINE dir == [n \in Names |-> IF \E d \in Monolith : d.name = n
                                   THEN LegacyText(CHOOSE d \in Monolith : d.name = n)
                                   ELSE c.dir[n]]
<1>1. \E intro : IsSplit(c) = [c EXCEPT !.dir = dir, !.intro = intro]
  BY Zenon DEF IsSplit
<1>2. \A n \in Names : IsFile(dir[n])
  BY LegacyHasLines DEF IsFile, IsCorpus
<1>3. DOMAIN dir = Names
  OBVIOUS
<1> HIDE DEF dir
<1> QED BY <1>1, <1>2, <1>3 DEF IsCorpus

LEMMA GrownIsCorpus == IsCorpus(Grown)
<1> DEFINE split == generate(IsSplit(Unsplit))
           chosen(n) == CHOOSE d \in Earlier : d.name = n
           dir == [n \in Names |-> IF \E d \in Earlier : d.name = n
                                   THEN Typed(chosen(n)) ELSE split.dir[n]]
           written == [split EXCEPT !.baseline = BaselineOf(split), !.dir = dir]
<1>1. IsCorpus(split)
  BY UnsplitIsCorpus, SplitIsCorpus, GeneratedIsCorpus
<1>2. Grown = generate(written)
  BY Zenon DEF Grown
<1> HIDE DEF split
<1>3. \A d \in Earlier : IsFile(Typed(d))
  BY TextAssumption, TypedIsFile
<1>4. \A n \in Names : IsFile(dir[n])
  BY <1>1, <1>3 DEF IsCorpus
<1>5. DOMAIN dir = Names
  OBVIOUS
<1> HIDE DEF dir
<1>6. IsCorpus(written)
  BY <1>1, <1>4, <1>5 DEF IsCorpus
<1> HIDE DEF written
<1> QED BY <1>2, <1>6, GeneratedIsCorpus

\* All there is on disk and in git, and what a running tool will leave.
CorporaInv ==
  /\ IsCorpus(work) /\ IsCorpus(base) /\ IsCorpus(plan)
  /\ side # NoSide => IsCorpus(side)

LEMMA DraftsAreFiles ==
  \A d \in Drafts : \A id : IsFile(Typed(d)) /\ IsFile(Typed([d EXCEPT !.id = id]))
<1> SUFFICES ASSUME NEW d \in Drafts, NEW id
             PROVE  IsFile(Typed(d)) /\ IsFile(Typed([d EXCEPT !.id = id]))
  OBVIOUS
<1>1. /\ {"supersedes", "amends"} \subseteq DOMAIN d
      /\ IsFiniteSet(d.supersedes) /\ IsFiniteSet(d.amends)
  BY TextAssumption
<1> DEFINE e == [d EXCEPT !.id = id]
<1>2. e.supersedes = d.supersedes /\ e.amends = d.amends
  BY <1>1
<1> HIDE DEF e
<1>3. IsFile(Typed(d)) /\ IsFile(Typed(e))
  BY <1>1, <1>2, TypedIsFile
<1> QED BY <1>3 DEF e

\* A key set in a file that is there.
LEMMA SetIsFile == \A n \in Names : \A key, val :
  IsCorpus(work) /\ Kept(n) => IsFile(With(work.dir[n], key, val))
BY WithHasLines DEF IsCorpus, IsFile, Kept

LEMMA EditsAreCorpora ==
  ASSUME IsCorpus(work),
         \/ NewRecord \/ Mark \/ Retire \/ Reword \/ Withdraw
         \/ Convert \/ Archive \/ Delete \/ CutSection
  PROVE  IsCorpus(work') /\ UNCHANGED <<base, side, plan>>
<1>0. UNCHANGED <<base, side, plan>>
  BY Zenon DEF NewRecord, Mark, Retire, Reword, Withdraw, Convert, Archive, Delete, CutSection,
     Save, Edit
<1>1. ASSUME NEW n \in Names, NEW t, IsFile(t), Save(n, t) PROVE IsCorpus(work')
  BY <1>1, SavedIsCorpus DEF Save, Edit
<1>2. ASSUME NewRecord PROVE IsCorpus(work')
  <2>1. PICK d \in Drafts : Save(d.name, Typed(d))
    BY <1>2 DEF NewRecord
  <2> QED BY <2>1, DraftsAreFiles, SavedIsCorpus DEF Save, Edit
<1>3. ASSUME Mark PROVE IsCorpus(work')
  <2>1. PICK n \in Names : \E v, w : /\ Kept(n)
                                     /\ Save(n, With(With(work.dir[n], "status", v),
                                                     "superseded_by", w))
    BY Zenon, <1>3 DEF Mark
  <2>2. \A v, w : IsFile(With(With(work.dir[n], "status", v), "superseded_by", w))
    BY <2>1, WithHasLines DEF IsCorpus, IsFile, Kept
  <2> QED BY <1>1, <2>1, <2>2
<1>4. ASSUME Retire PROVE IsCorpus(work')
  <2>1. PICK n, m : work' = RetiredBy(work, rewritten(work), n, m)
    BY Zenon, <1>4 DEF Retire, Edit
  <2> QED BY <2>1, RetiredIsCorpus
<1>5. ASSUME Reword PROVE IsCorpus(work')
  <2>1. PICK n \in Names : Kept(n) /\ Save(n, With(work.dir[n], "title", Plain("reworded")))
    BY <1>5 DEF Reword
  <2> QED BY <1>1, <2>1, SetIsFile
<1>6. ASSUME Withdraw PROVE IsCorpus(work')
  <2>1. PICK n \in Names : Kept(n) /\ Save(n, With(work.dir[n], "status", Plain("withdrawn")))
    BY <1>6 DEF Withdraw
  <2> QED BY <1>1, <2>1, SetIsFile
<1>7. ASSUME Convert PROVE IsCorpus(work')
  <2>1. PICK n \in Names : \E d \in Drafts :
          Edit([work EXCEPT !.dir[n] = Typed([d EXCEPT !.id = idOf(work.dir[n])]),
                            !.baseline = {l \in work.baseline : l[1] # idOf(work.dir[n])}])
    BY Zenon, <1>7 DEF Convert
  <2>2. PICK d \in Drafts :
          Edit([work EXCEPT !.dir[n] = Typed([d EXCEPT !.id = idOf(work.dir[n])]),
                            !.baseline = {l \in work.baseline : l[1] # idOf(work.dir[n])}])
    BY <2>1
  <2> DEFINE t == Typed([d EXCEPT !.id = idOf(work.dir[n])])
             lines == {l \in work.baseline : l[1] # idOf(work.dir[n])}
             saved == [work EXCEPT !.dir[n] = t]
  <2>3. IsCorpus(saved)
    BY DraftsAreFiles, SavedIsCorpus
  <2>4. work' = [saved EXCEPT !.baseline = lines]
    BY Zenon, <2>2 DEF Edit
  <2> HIDE DEF saved, lines
  <2> QED BY <2>3, <2>4 DEF IsCorpus
<1>8. ASSUME Archive PROVE IsCorpus(work')
  BY <1>8, ArchivedIsCorpus DEF Archive, Edit
<1>9. ASSUME Delete PROVE IsCorpus(work')
  <2>1. PICK n \in Names : work' = [work EXCEPT !.dir[n] = Absent]
    BY <1>9 DEF Delete, Edit
  <2>2. IsFile(Absent)
    BY DEF IsFile
  <2> QED BY <2>1, <2>2, SavedIsCorpus
<1>10. ASSUME CutSection PROVE IsCorpus(work')
  <2>1. PICK i \in DOMAIN work.spec : work' = [work EXCEPT !.spec = RemoveAt(work.spec, i)]
    BY <1>10 DEF CutSection, Edit
  <2>2. IsProse(RemoveAt(work.spec, i))
    BY CutIsProse DEF IsCorpus
  <2> QED BY <2>1, <2>2, SpecIsCorpus
<1> QED BY <1>0, <1>2, <1>3, <1>4, <1>5, <1>6, <1>7, <1>8, <1>9, <1>10

LEMMA WritesAreCorpora ==
  ASSUME IsCorpus(work), IsCorpus(plan), Write \/ GenBaseline
  PROVE  IsCorpus(work') /\ UNCHANGED <<base, side, plan>>
<1>0. UNCHANGED <<base, side, plan>>
  BY Zenon DEF Write, GenBaseline
<1>1. ASSUME NEW n \in PendingFiles, work' = [work EXCEPT !.dir[n] = plan.dir[n]]
      PROVE  IsCorpus(work')
  <2>1. IsFile(plan.dir[n])
    BY DEF PendingFiles, IsCorpus
  <2> QED BY <1>1, <2>1, SavedIsCorpus
<1>2. ASSUME NEW i \in DOMAIN Rest, work' = [work EXCEPT ![Rest[i]] = plan[Rest[i]]]
      PROVE  IsCorpus(work')
  <2>1. Rest[i] \in {"intro", "index", "spec"}
    BY DEF Rest
  <2>2. CASE Rest[i] = "spec"
    BY <1>2, <2>2, SpecIsCorpus DEF IsCorpus
  <2>3. CASE Rest[i] # "spec"
    BY <1>2, <2>1, <2>3 DEF IsCorpus
  <2> QED BY <2>2, <2>3
<1>3. ASSUME work' = [work EXCEPT !.baseline = BaselineOf(work)]
      PROVE  IsCorpus(work')
  BY <1>3 DEF IsCorpus
<1>4. \/ \E n \in PendingFiles : work' = [work EXCEPT !.dir[n] = plan.dir[n]]
      \/ \E i \in DOMAIN Rest : work' = [work EXCEPT ![Rest[i]] = plan[Rest[i]]]
      \/ work' = [work EXCEPT !.baseline = BaselineOf(work)]
  BY Zenon DEF Write, GenBaseline
<1> QED BY <1>0, <1>1, <1>2, <1>3, <1>4

\* Each file of a merge is one of the two sides'.
LEMMA MergedIsCorpus ==
  ASSUME NEW b, NEW x, IsCorpus(x), NEW y, IsCorpus(y), NEW take
  PROVE  IsCorpus(MergeOf(b, x, y, take))
<1> DEFINE of(u, v, w) == Merged(u, v, w, IF take = "ours" THEN w ELSE v)
           files(k) == [n \in Names |-> of(b[k][n], x[k][n], y[k][n])]
<1>1. \A u, v, w : of(u, v, w) \in {v, w}
  BY DEF Merged
<1>2. \E baseline, intro, index :
        MergeOf(b, x, y, take) = [dir |-> files("dir"), arch |-> files("arch"),
                                  baseline |-> baseline, intro |-> intro, index |-> index,
                                  spec |-> of(b.spec, x.spec, y.spec)]
  BY Zenon DEF MergeOf
<1> HIDE DEF of
<1>3. \A n \in Names : IsFile(files("dir")[n]) /\ IsFile(files("arch")[n])
  <2>1. ASSUME NEW n \in Names PROVE IsFile(files("dir")[n]) /\ IsFile(files("arch")[n])
    <3>1. /\ files("dir")[n] \in {x.dir[n], y.dir[n]}
          /\ files("arch")[n] \in {x.arch[n], y.arch[n]}
      BY <1>1
    <3> HIDE DEF files
    <3> QED BY <3>1 DEF IsCorpus
  <2> QED BY <2>1
<1>4. DOMAIN files("dir") = Names /\ DOMAIN files("arch") = Names
  OBVIOUS
<1>5. IsProse(of(b.spec, x.spec, y.spec))
  BY <1>1 DEF IsCorpus
<1> HIDE DEF files
<1> QED BY <1>2, <1>3, <1>4, <1>5 DEF IsCorpus

LEMMA CorporaStart == Init => CorporaInv
BY UnsplitIsCorpus, GrownIsCorpus DEF Init, CorporaInv

LEMMA CorporaStep == CorporaInv /\ [Next]_vars => CorporaInv'
<1> SUFFICES ASSUME CorporaInv, [Next]_vars PROVE CorporaInv'
  OBVIOUS
<1>1. CASE UNCHANGED vars
  BY <1>1 DEF vars, CorporaInv
<1>2. CASE Split \/ Gen
  BY <1>2, SplitIsCorpus, GeneratedIsCorpus DEF Split, Gen, Run, CorporaInv
<1>3. CASE Finish \/ Killed
  BY <1>3, UnsplitIsCorpus DEF Finish, Killed, CorporaInv
<1>4. CASE Write \/ GenBaseline
  BY <1>4, WritesAreCorpora DEF CorporaInv
<1>5. CASE \/ NewRecord \/ Mark \/ Retire \/ Reword \/ Withdraw
           \/ Convert \/ Archive \/ Delete \/ CutSection
  BY <1>5, EditsAreCorpora DEF CorporaInv
<1>6. CASE Commit \/ Park \/ Discard
  BY <1>6 DEF Commit, Park, Discard, CorporaInv
<1>7. CASE Merge
  <2>1. /\ side # NoSide /\ side' = NoSide /\ base' = base /\ plan' = plan
        /\ \E take : work' = MergeOf(base, side, work, take)
    BY Zenon, <1>7 DEF Merge
  <2> QED BY <2>1, MergedIsCorpus DEF CorporaInv
<1> QED BY <1>1, <1>2, <1>3, <1>4, <1>5, <1>6, <1>7 DEF Next

-----------------------------------------------------------------------------
(* The specification after a merge *)

\* Every section has the block it is due, and every edge leads to a section.
Landed(c) == c.spec = renderSpec(c.spec, GraphOf(Edges(c)))
Placed(c) == \A e \in Edges(c) : e[1] \in DOMAIN specSections(c.spec)

LEMMA GreenHasLanded ==
  ASSUME NEW c, Green(c), IsCorpus(c)
  PROVE  Landed(c) /\ Placed(c)
<1>1. ContentProblems(c) = {} /\ Stale(c) = {}
  BY Zenon DEF Green, check
<1>2. RecordProblems(c, load(c)) = {}
  BY Zenon, <1>1 DEF ContentProblems
<1>3. c.spec = generate(c).spec
  <2>1. When(c.spec # generate(c).spec, <<"amendments have not landed", "">>) = {}
    BY Zenon, <1>1 DEF Stale
  <2> QED BY Zenon, <2>1 DEF When
<1>4. Landed(c)
  BY <1>3, GeneratedSpec DEF Landed, IsCorpus
<1>5. \A d \in load(c) : \A i \in DOMAIN Amendments(d) :
        ValueOf(Amendments(d)[i], "section").text \in DOMAIN specSections(c.spec)
  <2>1. {<<"amends_spec", d.name>> :
             d \in {r \in load(c) :
                      \E i \in DOMAIN Amendments(r) :
                        LET a == Amendments(r)[i]
                        IN  \/ ValueOf(a, "section").text \notin DOMAIN specSections(c.spec)
                            \/ ScopeOf(a).text = ""}} = {}
    BY Zenon, <1>2 DEF RecordProblems
  <2> QED BY Zenon, <2>1
<1>6. Placed(c)
  <2> SUFFICES ASSUME NEW n \in Live(c), NEW e \in EdgesOf(c.dir[n])
               PROVE  e[1] \in DOMAIN specSections(c.spec)
    BY DEF Placed, Edges
  <2> DEFINE d == [name |-> n, text |-> c.dir[n], meta |-> parseFrontmatter(c.dir[n].fm)]
             list == ListOf(parseFrontmatter(c.dir[n].fm), "amends_spec")
  <2>1. d \in load(c)
    BY DEF load
  <2>2. Amendments(d) = list
    <3>1. d.meta = parseFrontmatter(c.dir[n].fm)
      OBVIOUS
    <3> HIDE DEF d
    <3> QED BY Zenon, <3>1 DEF Amendments
  <2>3. PICK i \in DOMAIN list : \E y : e = <<ValueOf(list[i], "section").text, y>>
    BY Zenon DEF EdgesOf
  <2>4. e[1] = ValueOf(list[i], "section").text
    BY <2>3
  <2> HIDE DEF d, list
  <2> QED BY <1>5, <2>1, <2>2, <2>4
<1> QED BY <1>4, <1>6

\* The edges of a file, if it is there.  They all name the record they are of.
EdgesIn(t) == IF t = Absent THEN {} ELSE EdgesOf(t)

LEMMA EdgesNameTheirRecord == \A t : \A e \in EdgesOf(t) : e[2][2][1] = RowOf(t)[2]
<1> SUFFICES ASSUME NEW t, NEW e \in EdgesOf(t) PROVE e[2][2][1] = RowOf(t)[2]
  OBVIOUS
<1> DEFINE id == ValueOf(parseFrontmatter(t.fm).scalars, "id").text
<1>1. PICK x, y : e = <<x, <<"amended", <<id, y>>>>>>
  BY Zenon DEF EdgesOf
<1>2. RowOf(t)[2] = id
  BY DEF RowOf
<1> HIDE DEF id
<1> QED BY <1>1, <1>2

\* So the edges of all the files say which edges each of them has.
LEMMA EdgesById ==
  ASSUME OneNamePerId, NEW c, Named(c), NEW n \in Names \ Strays
  PROVE  EdgesIn(c.dir[n]) = {e \in Edges(c) : e[2][2][1] = NameId[n]}
<1>1. ASSUME NEW e \in EdgesIn(c.dir[n]) PROVE e \in Edges(c) /\ e[2][2][1] = NameId[n]
  <2>1. n \in Live(c) /\ e \in EdgesOf(c.dir[n])
    BY <1>1 DEF EdgesIn, Live
  <2> QED BY <2>1, EdgesNameTheirRecord DEF Edges, Named
<1>2. ASSUME NEW e \in Edges(c), e[2][2][1] = NameId[n] PROVE e \in EdgesIn(c.dir[n])
  <2>1. PICK k \in Live(c) : e \in EdgesOf(c.dir[k])
    BY DEF Edges
  <2>2. NameId[k] = NameId[n]
    BY <1>2, <2>1, EdgesNameTheirRecord DEF Named
  <2>3. k = n
    BY <2>2 DEF OneNamePerId, Live
  <2> QED BY <2>1, <2>3 DEF EdgesIn, Live
<1> QED BY <1>1, <1>2

LEMMA EdgesOfFiles ==
  \A c : Edges(c) = UNION {EdgesIn(c.dir[n]) : n \in Names \ Strays}
BY DEF Edges, EdgesIn, Live

\* What only one side changed is that side's, edges too.
LEMMA MergedEdges ==
  ASSUME OneNamePerId, NEW b, NEW x, NEW y, NEW m, Named(b), Named(x), Named(y),
         \A n \in Names :
           /\ m.dir[n] \in {x.dir[n], y.dir[n]}
           /\ x.dir[n] = b.dir[n] => m.dir[n] = y.dir[n]
           /\ x.dir[n] # b.dir[n] =>
                (y.dir[n] = b.dir[n] \/ x.dir[n] = y.dir[n]) /\ m.dir[n] = x.dir[n]
  PROVE  /\ Edges(x) = Edges(b) => Edges(m) = Edges(y)
         /\ Edges(y) = Edges(b) => Edges(m) = Edges(x)
         /\ Edges(x) = Edges(y) => Edges(m) = Edges(y)
<1>1. ASSUME NEW c, \A n \in Names \ Strays : EdgesIn(m.dir[n]) = EdgesIn(c.dir[n])
      PROVE  Edges(m) = Edges(c)
  BY <1>1, EdgesOfFiles
<1>2. ASSUME NEW c \in {b, x, y}, NEW d \in {b, x, y}, Edges(c) = Edges(d),
             NEW n \in Names \ Strays
      PROVE  EdgesIn(c.dir[n]) = EdgesIn(d.dir[n])
  <2>1. Named(c) /\ Named(d)
    OBVIOUS
  <2>2. EdgesIn(c.dir[n]) = {e \in Edges(c) : e[2][2][1] = NameId[n]}
    BY <2>1, EdgesById
  <2>3. EdgesIn(d.dir[n]) = {e \in Edges(d) : e[2][2][1] = NameId[n]}
    BY <2>1, EdgesById
  <2> QED BY Zenon, <1>2, <2>2, <2>3
<1>3. ASSUME Edges(x) = Edges(b) PROVE Edges(m) = Edges(y)
  <2>1. ASSUME NEW n \in Names \ Strays PROVE EdgesIn(m.dir[n]) = EdgesIn(y.dir[n])
    <3>1. EdgesIn(x.dir[n]) = EdgesIn(b.dir[n])
      BY <1>2, <1>3
    <3> QED BY <3>1
  <2> QED BY <1>1, <2>1
<1>4. ASSUME Edges(y) = Edges(b) PROVE Edges(m) = Edges(x)
  <2>1. ASSUME NEW n \in Names \ Strays PROVE EdgesIn(m.dir[n]) = EdgesIn(x.dir[n])
    <3>1. EdgesIn(y.dir[n]) = EdgesIn(b.dir[n])
      BY <1>2, <1>4
    <3> QED BY <3>1
  <2> QED BY <1>1, <2>1
<1>5. ASSUME Edges(x) = Edges(y) PROVE Edges(m) = Edges(y)
  <2>1. ASSUME NEW n \in Names \ Strays PROVE EdgesIn(m.dir[n]) = EdgesIn(y.dir[n])
    <3>1. EdgesIn(x.dir[n]) = EdgesIn(y.dir[n])
      BY <1>2, <1>5
    <3> QED BY <3>1
  <2> QED BY <1>1, <2>1
<1> QED BY <1>3, <1>4, <1>5

\* One specification is not due to two sets of edges.
LEMMA EdgesFromSpec ==
  ASSUME NEW c, IsCorpus(c), Landed(c), Placed(c),
         NEW d, IsCorpus(d), Landed(d), Placed(d), c.spec = d.spec
  PROVE  Edges(c) = Edges(d)
<1>1. PICK S : c.spec \in Seq(S) /\ \A l \in S : l = <<l[1], l[2]>>
  BY DEF IsCorpus, IsProse
<1>2. EdgeSet(Edges(c)) /\ EdgeSet(Edges(d))
  BY EdgesAreEdgeSet
<1>3. /\ c.spec = renderSpec(c.spec, GraphOf(Edges(c)))
      /\ c.spec = renderSpec(c.spec, GraphOf(Edges(d)))
  BY Zenon DEF Landed
<1>4. \A e \in Edges(c) \cup Edges(d) : e[1] \in DOMAIN specSections(c.spec)
  BY DEF Placed
<1> DEFINE E1 == Edges(c)
           E2 == Edges(d)
           spec == c.spec
<1> HIDE DEF E1, E2, spec
<1>5. E1 = E2
  BY <1>1, <1>2, <1>3, <1>4, EdgesFromBlocks DEF E1, E2, spec
<1> QED BY <1>5 DEF E1, E2

LEMMA MergeOfLanded ==
  ASSUME OneNamePerId, NEW b, NEW x, NEW y, NEW take \in {"ours", "theirs"},
         IsCorpus(b) /\ Landed(b) /\ Placed(b) /\ Named(b),
         IsCorpus(x) /\ Landed(x) /\ Placed(x) /\ Named(x),
         IsCorpus(y) /\ Landed(y) /\ Placed(y) /\ Named(y),
         MergeOf(b, x, y, "ours") = MergeOf(b, x, y, "theirs")
  PROVE  Landed(MergeOf(b, x, y, take))
<1> DEFINE m == MergeOf(b, x, y, take)
           ours == MergeOf(b, x, y, "ours")
           theirs == MergeOf(b, x, y, "theirs")
<1>0. m = ours /\ ours = theirs
  OBVIOUS
<1>1. \A n \in Names : /\ ours.dir[n] = Merged(b.dir[n], x.dir[n], y.dir[n], y.dir[n])
                       /\ theirs.dir[n] = Merged(b.dir[n], x.dir[n], y.dir[n], x.dir[n])
  BY DEF MergeOf
<1>2. /\ ours.spec = Merged(b.spec, x.spec, y.spec, y.spec)
      /\ theirs.spec = Merged(b.spec, x.spec, y.spec, x.spec)
  BY DEF MergeOf
<1> HIDE DEF m, ours, theirs
<1>3. \A n \in Names :
        /\ m.dir[n] \in {x.dir[n], y.dir[n]}
        /\ x.dir[n] = b.dir[n] => m.dir[n] = y.dir[n]
        /\ x.dir[n] # b.dir[n] =>
             (y.dir[n] = b.dir[n] \/ x.dir[n] = y.dir[n]) /\ m.dir[n] = x.dir[n]
  BY <1>0, <1>1, CleanFile
<1>4. /\ Edges(x) = Edges(b) => Edges(m) = Edges(y)
      /\ Edges(y) = Edges(b) => Edges(m) = Edges(x)
      /\ Edges(x) = Edges(y) => Edges(m) = Edges(y)
  BY <1>3, MergedEdges
<1>5. /\ x.spec = b.spec => m.spec = y.spec
      /\ x.spec # b.spec => (y.spec = b.spec \/ x.spec = y.spec) /\ m.spec = x.spec
  BY <1>0, <1>2, CleanFile
<1>6. \A c \in {b, x, y} : m.spec = c.spec /\ Edges(m) = Edges(c) => Landed(m)
  BY DEF Landed
<1>7. CASE x.spec = b.spec
  <2>1. Edges(x) = Edges(b)
    BY <1>7, EdgesFromSpec
  <2> QED BY <1>4, <1>5, <1>6, <1>7, <2>1 DEF m
<1>8. CASE x.spec # b.spec /\ y.spec = b.spec
  <2>1. Edges(y) = Edges(b)
    BY <1>8, EdgesFromSpec
  <2> QED BY <1>4, <1>5, <1>6, <1>8, <2>1 DEF m
<1>9. CASE x.spec # b.spec /\ x.spec = y.spec
  <2>1. Edges(x) = Edges(y)
    BY <1>9, EdgesFromSpec
  <2> QED BY <1>4, <1>5, <1>6, <1>9, <2>1 DEF m
<1> QED BY <1>5, <1>7, <1>8, <1>9

\* What a clean merge leaves has its blocks.
LandedInv == merged => Landed(work)

LEMMA OnlyAMergeMerges ==
  ASSUME MergeInv, [Next]_vars, merged'
  PROVE  Merge \/ (merged /\ work' = work)
<1>1. CASE UNCHANGED vars
  BY <1>1 DEF vars
<1>2. CASE Split \/ Gen \/ Finish \/ Killed
  BY <1>2 DEF Split, Gen, Run, Finish, Killed
<1>3. CASE Write \/ GenBaseline
  BY <1>3, WritesKeepShape DEF MergeInv
<1>4. CASE \/ NewRecord \/ Mark \/ Retire \/ Reword \/ Withdraw
           \/ Convert \/ Archive \/ Delete \/ CutSection
  BY <1>4, EditsKeepShape DEF MergeInv
<1>5. CASE Commit \/ Park \/ Discard
  BY <1>5 DEF Commit, Park, Discard
<1> QED BY <1>1, <1>2, <1>3, <1>4, <1>5 DEF Next

LEMMA LandedStep ==
  OneNamePerId /\ MergeInv /\ CorporaInv /\ LandedInv /\ [Next]_vars => LandedInv'
<1> SUFFICES ASSUME OneNamePerId, MergeInv, CorporaInv, LandedInv, [Next]_vars, merged'
             PROVE  Landed(work')
  BY DEF LandedInv, Landed, Edges, Live
<1>1. CASE merged /\ work' = work
  BY <1>1 DEF LandedInv
<1>2. CASE Merge
  <2>1. /\ side # NoSide /\ Green(work)
        /\ merged' = (MergeOf(base, side, work, "ours") = MergeOf(base, side, work, "theirs"))
    BY <1>2 DEF Merge
  <2>2. PICK take \in {"ours", "theirs"} : work' = MergeOf(base, side, work, take)
    BY <1>2 DEF Merge
  <2>3. MergeOf(base, side, work, "ours") = MergeOf(base, side, work, "theirs")
    BY Zenon, <2>1
  <2>4. /\ IsCorpus(base) /\ Landed(base) /\ Placed(base) /\ Named(base)
        /\ IsCorpus(side) /\ Landed(side) /\ Placed(side) /\ Named(side)
        /\ IsCorpus(work) /\ Landed(work) /\ Placed(work) /\ Named(work)
    BY <2>1, GreenIsFresh, GreenHasLanded DEF MergeInv, CorporaInv
  <2>5. Landed(MergeOf(base, side, work, take))
    BY <2>3, <2>4, MergeOfLanded
  <2> QED BY Zenon, <2>2, <2>5
<1> QED BY <1>1, <1>2, OnlyAMergeMerges

\* Nothing is stale when the records, the index and the blocks are as generated.
LEMMA FreshWhenGenerated ==
  ASSUME NEW c, IsCorpus(c), Indexed(c), Normal(c), Landed(c)
  PROVE  Stale(c) = {}
<1>1. c.index = generate(c).index /\ \A n \in Live(c) : c.dir[n] = generate(c).dir[n]
  BY GeneratedParts DEF IsCorpus, Shape, Indexed, Normal
<1>2. c.spec = generate(c).spec
  BY GeneratedSpec DEF IsCorpus, Landed
<1> QED BY Zenon, <1>1, <1>2 DEF Stale, When

\* Said of any clean merge, whatever else may be wrong with it.
MergedIsFresh == merged => Stale(work) = {}

\* A merge that git made without conflict never needs the generator, whichever
\* branches wrote what (gen-decisions-index.mjs:454-464): rows merge as lines, and
\* the edges a specification's blocks are of can be read from them.
THEOREM CleanMergeIsWritten ==
  ASSUME OneNamePerId
  PROVE  Spec => []MergedIsFresh /\ []CleanMergeIsFresh
<1>1. Init => MergeInv /\ CorporaInv /\ LandedInv
  BY MergeStart, CorporaStart DEF Init, LandedInv
<1>2. MergeInv /\ CorporaInv /\ LandedInv /\ [Next]_vars => (MergeInv /\ CorporaInv /\ LandedInv)'
  BY MergeStep, CorporaStep, LandedStep
<1>3. MergeInv /\ CorporaInv /\ LandedInv => MergedIsFresh
  BY FreshWhenGenerated DEF MergeInv, CorporaInv, LandedInv, MergedIsFresh
<1>4. MergedIsFresh => CleanMergeIsFresh
  BY Zenon DEF MergedIsFresh, CleanMergeIsFresh
<1> QED BY <1>1, <1>2, <1>3, <1>4, PTL DEF Spec
=============================================================================
