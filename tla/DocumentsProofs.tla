--------------------------- MODULE DocumentsProofs ---------------------------
(***************************************************************************)
(* What the gates of npm run verify guarantee of every commit, for any     *)
(* documents and any dictionary.                                           *)
(*                                                                         *)
(* A gate looks at one tree and at the dictionary's baseline; that nothing *)
(* new comes in holds of all commits because the baseline each is checked  *)
(* against is still the one adoption took.  The last theorems are about the *)
(* next edit instead: from a tree the gates pass, what may be archived, what *)
(* cannot be undone unseen, and that no finding is left nobody may fix.    *)
(***************************************************************************)
EXTENDS Documents, FiniteSetTheorems, WellFoundedInduction, NaturalsInduction, TLAPS

-----------------------------------------------------------------------------
(* The dictionary *)

\* What a repository says that a dictionary gate has nothing against, against the
\* baseline of prose p and entries es, is registered, exempt, or said in p.
LEMMA RegisteredOrOld ==
  ASSUME NEW now, NEW entries, NEW page, NEW p, NEW es,
         dictionaryProblems(now, entries, baselineOf(p, es), page) = {}
  PROVE  Said(now) \cap Acronyms \subseteq Terms(entries) \cup Exempt \cup Said(p)
<1> DEFINE b == baselineOf(p, es)
<1> SUFFICES ASSUME NEW q \in now, q[2].what \in Acronyms, q[2].what \notin Terms(entries),
                    q[2].what \notin Exempt
             PROVE  q[2].what \in Said(p)
  BY DEF Said
<1>1. b.terms \subseteq Said(p) /\ b.shouted \subseteq Said(p)
  BY DEF baselineOf
<1> HIDE DEF b
<1>2. {r \in now : /\ r[2].what \in Acronyms \ b.terms
                   /\ ~excluded(r[2].what, b, now) /\ r[2].what \notin Terms(entries)} = {}
  BY DEF dictionaryProblems, b
<1>3. q[2].what \in b.terms \/ excluded(q[2].what, b, now)
  BY <1>2
<1> QED BY <1>1, <1>3 DEF excluded

\* The inductive invariant: both trees carry the baseline of the first day, and
\* what is committed is that day's prose or has passed the gate.
Shaped(c) == DOMAIN c = RepoKeys
SameBaseline(c) == c.baseline = baselineOf(firstDay.prose, firstDay.entries)
VocabularyInv ==
  /\ Shaped(repo) /\ Shaped(head)
  /\ firstDay = NotYet => repo = head
  /\ firstDay # NotYet =>
       /\ SameBaseline(repo) /\ SameBaseline(head)
       /\ \/ prose(head) = firstDay.prose /\ head.entries = firstDay.entries
          \/ checkDictionary(head) = {}

\* What the prose of a repository depends on.
LEMMA ProseIsOfDocs ==
  ASSUME NEW c, NEW d, c.docs = d.docs, c.archived = d.archived, c.frozen = d.frozen
  PROVE  prose(c) = prose(d)
<1>1. Records(c) = Records(d) /\ gatedFiles(c) = gatedFiles(d)
  BY DEF Records, Have, gatedFiles, frozenRecords
<1>2. \A e : Text(c, e) = Text(d, e)
  BY <1>1 DEF Text, Quoted
<1> QED BY <1>1, <1>2 DEF prose, Of

\* A change by hand never touches the baseline.
LEMMA EditKeepsBaseline ==
  ASSUME Shaped(repo),
         \/ Write \/ AddDoc \/ RemoveDoc \/ Archive \/ Convert \/ MoveFile \/ ChangeScript
         \/ ChangePolicy \/ Register \/ DeclareRoster \/ DeclareRunbook \/ Declare \/ Undeclare
  PROVE  /\ firstDay # NotYet /\ UNCHANGED <<head, firstDay>>
         /\ Shaped(repo') /\ repo'.baseline = repo.baseline
<1> USE DEF Shaped, RepoKeys, Edit
<1>1. CASE Write
  BY <1>1 DEF Write
<1>2. CASE AddDoc
  BY <1>2 DEF AddDoc
<1>3. CASE RemoveDoc
  BY <1>3 DEF RemoveDoc, Removed
<1>4. CASE Archive
  BY <1>4 DEF Archive, Archived
<1>5. CASE Convert
  BY <1>5 DEF Convert
<1>6. CASE MoveFile
  BY <1>6 DEF MoveFile
<1>7. CASE ChangeScript
  BY <1>7 DEF ChangeScript
<1>8. CASE ChangePolicy
  BY <1>8 DEF ChangePolicy
<1>9. CASE Register
  BY <1>9 DEF Register
<1>10. CASE DeclareRoster
  BY <1>10 DEF DeclareRoster
<1>11. CASE DeclareRunbook
  BY <1>11 DEF DeclareRunbook
<1>12. CASE Declare
  BY <1>12 DEF Declare
<1>13. CASE Undeclare
  BY <1>13 DEF Undeclare
<1> QED BY <1>1, <1>2, <1>3, <1>4, <1>5, <1>6, <1>7, <1>8, <1>9, <1>10, <1>11, <1>12, <1>13

LEMMA AdoptionIsTheFirstDay ==
  ASSUME VocabularyInv, Adopt
  PROVE  VocabularyInv'
<1>1. Shaped(repo') /\ head' = repo'
  BY DEF VocabularyInv, Adopt, Shaped, RepoKeys
<1>2. repo'.baseline = baselineOf(prose(repo), repo.entries)
        /\ repo'.docs = repo.docs /\ repo'.archived = repo.archived
        /\ repo'.frozen = repo.frozen /\ repo'.entries = repo.entries
  BY DEF VocabularyInv, Adopt, Shaped, RepoKeys
<1>3. prose(head') = prose(repo)
  BY <1>1, <1>2, ProseIsOfDocs
<1>4. firstDay'.prose = prose(repo) /\ firstDay'.entries = repo.entries
  BY DEF Adopt
<1> QED BY <1>1, <1>2, <1>3, <1>4 DEF VocabularyInv, SameBaseline

LEMMA VocabularyStart == Init => VocabularyInv
BY BeginsAssumption DEF Init, VocabularyInv, Shaped

LEMMA VocabularyStep == VocabularyInv /\ [Next]_vars => VocabularyInv'
<1> SUFFICES ASSUME VocabularyInv, [Next]_vars PROVE VocabularyInv'
  OBVIOUS
<1>1. CASE UNCHANGED vars
  BY <1>1 DEF vars, VocabularyInv, SameBaseline
<1>2. CASE Adopt
  BY <1>2, AdoptionIsTheFirstDay
<1>3. CASE \/ Write \/ AddDoc \/ RemoveDoc \/ Archive \/ Convert \/ MoveFile \/ ChangeScript
           \/ ChangePolicy \/ Register \/ DeclareRoster \/ DeclareRunbook \/ Declare \/ Undeclare
  BY <1>3, EditKeepsBaseline DEF VocabularyInv, SameBaseline
<1>4. CASE GenDictionary
  BY <1>4 DEF GenDictionary, VocabularyInv, SameBaseline, Shaped, RepoKeys
<1>5. CASE Commit
  <2>1. checkDictionary(repo) = {}
    BY <1>5 DEF Commit, Green, Verify
  <2> QED BY <1>5, <2>1 DEF Commit, VocabularyInv, SameBaseline
<1>6. CASE Revert
  BY <1>6 DEF Revert, VocabularyInv, SameBaseline
<1>7. CASE Done
  BY <1>7 DEF Done, vars, VocabularyInv, SameBaseline
<1> QED BY <1>1, <1>2, <1>3, <1>4, <1>5, <1>6, <1>7 DEF Next

LEMMA NothingNewSlipsBy == VocabularyInv => NoNewJargon
<1> SUFFICES ASSUME VocabularyInv, firstDay # NotYet
             PROVE  Said(prose(head)) \cap Acronyms \subseteq
                      Terms(head.entries) \cup Exempt \cup Said(firstDay.prose)
  BY DEF NoNewJargon
<1>1. CASE prose(head) = firstDay.prose
  BY <1>1
<1>2. CASE checkDictionary(head) = {}
  BY <1>2, RegisteredOrOld DEF VocabularyInv, SameBaseline, checkDictionary
<1> QED BY <1>1, <1>2 DEF VocabularyInv

\* An acronym in a committed document is registered, or was in the prose on the
\* first day (gen-dictionary-baseline.mjs:58-60), however many commits ago that was.
THEOREM VocabularyIsKept == Spec => []NoNewJargon
BY VocabularyStart, VocabularyStep, NothingNewSlipsBy, PTL DEF Spec

-----------------------------------------------------------------------------
(* What a checkout may add to a verdict *)

LEMMA LeastOf ==
  ASSUME NEW S, S \subseteq Nat, S # {}
  PROVE  Min(S) \in S /\ \A x \in S : Min(S) =< x
<1>1. PICK m \in S : \A x \in S : ~(<<x, m>> \in OpToRel(<, Nat))
  BY NatLessThanWellFounded, WFMin
<1>2. \A x \in S : m =< x
  <2> TAKE x \in S
  <2>1. x \in Nat /\ m \in Nat
    OBVIOUS
  <2>2. x < m => <<x, m>> \in OpToRel(<, Nat)
    BY <2>1 DEF OpToRel
  <2>3. ~(x < m)
    BY <1>1, <2>2, Zenon
  <2> QED BY <2>1, <2>3
<1> QED BY <1>2 DEF Min

\* Where the tracked patterns decide, nobody's own patterns count.
LEMMA TrackedDecides ==
  ASSUME NEW tracked, NEW local, NEW p, NEW asDir
  PROVE  LET with == Deciding(tracked, local, p, asDir)
             alone == Deciding(tracked, <<>>, p, asDir)
         IN  /\ with.source = "tracked" => alone = with
             /\ alone.ignored => with = alone /\ alone.source = "tracked"
<1>1. LastCovering(<<>>, p, asDir) = 0
  BY DEF LastCovering
<1> QED BY <1>1 DEF Deciding

\* What a person, or his machine, tells git to ignore never makes git say that
\* the repository ignores a path: it can only keep it from being said.
LEMMA OwnPatternsOnlyHide ==
  ASSUME NEW tracked, NEW local, NEW path, Len(path) \in Nat,
         gitIgnores(tracked, local, path)
  PROVE  gitIgnores(tracked, <<>>, path)
<1>1. PICK asDir \in BOOLEAN : /\ checkIgnore(tracked, local, path, asDir).ignored
                              /\ checkIgnore(tracked, local, path, asDir).source = "tracked"
  BY DEF gitIgnores, committedIgnoreFile
<1> DEFINE with(k) == Deciding(tracked, local, SubSeq(path, 1, k), k < Len(path) \/ asDir)
           alone(k) == Deciding(tracked, <<>>, SubSeq(path, 1, k), k < Len(path) \/ asDir)
           W == {k \in 1 .. Len(path) - 1 : with(k).ignored}
           A == {k \in 1 .. Len(path) - 1 : alone(k).ignored}
<1>2. \A k : /\ with(k).source = "tracked" => alone(k) = with(k)
             /\ alone(k).ignored => with(k) = alone(k) /\ alone(k).source = "tracked"
  BY TrackedDecides
<1>3. checkIgnore(tracked, local, path, asDir)
        = IF W # {} THEN with(Min(W)) ELSE with(Len(path))
  BY DEF checkIgnore
<1>4. checkIgnore(tracked, <<>>, path, asDir)
        = IF A # {} THEN alone(Min(A)) ELSE alone(Len(path))
  BY DEF checkIgnore
<1> HIDE DEF with, alone
<1>5. A \subseteq W /\ W \subseteq Nat
  BY <1>2
<1>6. checkIgnore(tracked, <<>>, path, asDir).ignored
        /\ checkIgnore(tracked, <<>>, path, asDir).source = "tracked"
  <2>1. CASE A # {}
    <3>1. Min(A) \in A
      BY <1>5, <2>1, LeastOf
    <3> QED BY <1>2, <1>4, <2>1, <3>1
  <2>2. CASE A = {} /\ W = {}
    BY <1>1, <1>2, <1>3, <1>4, <2>2
  <2>3. CASE A = {} /\ W # {}
    <3>1. Min(W) \in W
      BY <1>5, <2>3, LeastOf
    <3>2. with(Min(W)).source = "tracked" /\ with(Min(W)).ignored
      BY <1>1, <1>3, <2>3
    <3>3. Min(W) \in A
      BY <1>2, <3>1, <3>2
    <3> QED BY <2>3, <3>3
  <2> QED BY <2>1, <2>2, <2>3
<1> QED BY <1>6 DEF gitIgnores, committedIgnoreFile

\* Nothing a document says is a pattern.
NoPatterns(c) ==
  \A d \in DOMAIN c.docs : /\ Of(c, d, "glob") = {}
                           /\ \A i \in Of(c, d, "path") : Len(i.path) \in Nat

\* A path that is dead in a fresh worktree is dead in every checkout with the same
\* directories at the top, whatever was built there and whatever its owner ignores.
LEMMA DeadEverywhere ==
  ASSUME NEW c, NEW k \in Checkouts, NEW d \in DOMAIN c.docs,
         NoPatterns(c), Roots(c, k) = Roots(c, Fresh), DeadPath(c, Fresh, d)
  PROVE  DeadPath(c, k, d)
<1>1. PICK i \in Of(c, d, "path") :
        isClaim(c, Fresh, i.path) /\ ~resolvesPath(Disk(c, Fresh), Tracked, <<>>, i.path)
  BY DEF DeadPath, NoPatterns, Fresh
<1>2. isClaim(c, k, i.path)
  BY <1>1 DEF isClaim
<1>3. i.path \notin c.files /\ ~gitIgnores(Tracked, <<>>, i.path)
  BY <1>1 DEF resolvesPath, Disk
<1>4. i.path \notin k.built
  BY <1>3, CheckoutsAssumption
<1>5. ~gitIgnores(Tracked, k.local, i.path)
  BY <1>1, <1>3, OwnPatternsOnlyHide DEF NoPatterns
<1>6. ~resolvesPath(Disk(c, k), Tracked, k.local, i.path)
  BY <1>3, <1>4, <1>5 DEF resolvesPath, Disk
<1> QED BY <1>1, <1>2, <1>6 DEF DeadPath

\* So every finding of a fresh worktree is a finding here.
LEMMA FindingsAreEverywhere ==
  ASSUME NEW c, NEW k \in Checkouts, NoPatterns(c), Roots(c, k) = Roots(c, Fresh)
  PROVE  /\ checkContext(c, Fresh) \subseteq checkContext(c, k)
         /\ checkDocs(c, Fresh) \subseteq checkDocs(c, k)
<1>1. \A d \in DOMAIN c.docs : DeadPath(c, Fresh, d) => DeadPath(c, k, d)
  BY DeadEverywhere
<1>2. ASSUME NEW ds, ds \subseteq DOMAIN c.docs
      PROVE  In(ds, "does not exist", LAMBDA d : DeadPath(c, Fresh, d))
               \subseteq In(ds, "does not exist", LAMBDA d : DeadPath(c, k, d))
  BY <1>1, <1>2 DEF In
<1>3. checkContext(c, Fresh) \subseteq checkContext(c, k)
  <2>1. contextDocs(c) \cap DOMAIN c.docs \subseteq DOMAIN c.docs
    OBVIOUS
  <2> QED BY <1>2, <2>1 DEF checkContext
<1>4. checkDocs(c, Fresh) \subseteq checkDocs(c, k)
  <2>1. gatedDocs(c) \ c.historical \subseteq DOMAIN c.docs
    BY DEF gatedDocs, Have
  <2> QED BY <1>2, <2>1 DEF checkDocs
<1> QED BY <1>3, <1>4

\* What the documents hold stays among the items there are.
HoldsItems(c) ==
  /\ Shaped(c) /\ DOMAIN c.docs \subseteq Docs
  /\ \A d \in DOMAIN c.docs : c.docs[d] \subseteq Items
ProseIsItems(p) == p \subseteq Docs \X AllItems
ItemsInv ==
  /\ HoldsItems(repo) /\ HoldsItems(head)
  /\ firstDay # NotYet => ProseIsItems(firstDay.prose)

LEMMA TextIsItems ==
  ASSUME NEW c, HoldsItems(c), NEW d \in DOMAIN c.docs
  PROVE  Text(c, d) \subseteq AllItems
<1> SUFFICES ASSUME NEW i \in Text(c, d) PROVE i \in AllItems
  OBVIOUS
<1>1. CASE i \in c.docs[d]
  BY <1>1 DEF HoldsItems, AllItems
<1>2. ASSUME NEW rs, rs \subseteq DOMAIN c.docs,
             NEW kinds, kinds \subseteq {"title", "scope"}, i \in Quoted(c, rs, kinds)
      PROVE  i \in AllItems
  <2>1. PICK r \in rs : \E j \in c.docs[r] : j.kind \in kinds /\ i = j.item
    BY <1>2 DEF Quoted
  <2> QED BY <1>2, <2>1 DEF HoldsItems, AllItems
<1>3. Records(c) \subseteq DOMAIN c.docs /\ {d} \subseteq DOMAIN c.docs
  BY DEF Records, Have
<1>4. i \in c.docs[d] \/ i \in Quoted(c, Records(c), {"scope"})
        \/ i \in Quoted(c, Records(c), {"title"}) \/ i \in Quoted(c, {d}, {"title", "scope"})
  BY DEF Text
<1> QED BY <1>1, <1>2, <1>3, <1>4

LEMMA ItemsAreNoPatterns ==
  ASSUME NEW c, HoldsItems(c)
  PROVE  NoPatterns(c)
BY TextIsItems, ItemsAssumption DEF NoPatterns, NoPattern, Of

LEMMA ProseOfItems ==
  ASSUME NEW c, HoldsItems(c)
  PROVE  ProseIsItems(prose(c))
<1>1. gatedFiles(c) \subseteq DOMAIN c.docs
  BY DEF gatedFiles, Have, Records
<1> QED BY <1>1, TextIsItems DEF HoldsItems, ProseIsItems, prose, Of

LEMMA ItemsStep == ItemsInv /\ [Next]_vars => ItemsInv'
<1> SUFFICES ASSUME ItemsInv, [Next]_vars PROVE ItemsInv'
  OBVIOUS
<1>0. CASE Adopt
  <2>1. HoldsItems(repo') /\ head' = repo'
    BY <1>0 DEF Adopt, ItemsInv, HoldsItems, Shaped, RepoKeys
  <2>2. ProseIsItems(firstDay'.prose)
    BY <1>0, ProseOfItems DEF Adopt, ItemsInv
  <2> QED BY <2>1, <2>2 DEF ItemsInv
<1> USE FinitenessAssumption DEF ItemsInv, HoldsItems, Shaped, RepoKeys
<1>1. CASE Write
  <2>1. PICK m \in Menu : m[1] \in DOMAIN repo.docs
                          /\ repo' = [repo EXCEPT !.docs[m[1]] = Either(@, m[2])]
                          /\ UNCHANGED <<head, firstDay>>
    BY <1>1 DEF Write, Edit, Editable
  <2>2. m[2] \in Items
    BY DEF Items
  <2>3. Either(repo.docs[m[1]], m[2]) \subseteq Items
    BY <2>1, <2>2 DEF Either
  <2> QED BY <2>1, <2>3
<1>2. CASE AddDoc
  BY <1>2 DEF AddDoc, Edit, WithIt
<1>3. CASE RemoveDoc
  BY <1>3 DEF RemoveDoc, Edit, Removed, Without
<1>4. CASE Archive \/ Convert
  BY <1>4 DEF Archive, Convert, Archived, Edit
<1>5. CASE MoveFile \/ ChangeScript \/ ChangePolicy \/ Register
  BY <1>5 DEF MoveFile, ChangeScript, ChangePolicy, Register, Edit
<1>6. CASE DeclareRoster \/ DeclareRunbook \/ Declare \/ Undeclare
  BY <1>6 DEF DeclareRoster, DeclareRunbook, Declare, Undeclare, Edit
<1>7. CASE GenDictionary
  BY <1>7 DEF GenDictionary
<1>8. CASE Commit \/ Revert \/ Done \/ UNCHANGED vars
  BY <1>8 DEF Commit, Revert, Done, vars
<1> QED BY <1>0, <1>1, <1>2, <1>3, <1>4, <1>5, <1>6, <1>7, <1>8 DEF Next

LEMMA ItemsStart == Init => ItemsInv
BY BeginsAssumption, FinitenessAssumption DEF Init, ItemsInv, HoldsItems, Shaped, Items

\* Nothing passes in somebody's checkout that a fresh worktree refuses
\* (check-context.mjs:207-236), whatever git is told there to ignore.
THEOREM FreshIsStrictest == Spec => []NothingPassesOnlyHere
<1>1. ItemsInv => NothingPassesOnlyHere
  BY ItemsAreNoPatterns, FindingsAreEverywhere DEF ItemsInv, NothingPassesOnlyHere
<1> QED BY <1>1, ItemsStart, ItemsStep, PTL DEF Spec

-----------------------------------------------------------------------------
(* The alternates *)

LEMMA CountsAreNumbers ==
  ASSUME NEW p, ProseIsItems(p), NEW d, NEW a
  PROVE  /\ Count(p, d, a) \in Nat
         /\ d \notin FilesOf(p) => Count(p, d, a) = 0
<1> DEFINE said == {q \in p : q[1] = d /\ q[2].what = a}
<1>1. IsFiniteSet(Docs \X AllItems)
  BY FinitenessAssumption, FS_Product
<1>2. IsFiniteSet(said)
  BY <1>1, FS_Subset DEF ProseIsItems
<1>3. d \notin FilesOf(p) => said = {}
  BY DEF FilesOf
<1> QED BY <1>2, <1>3, FS_CardinalityType, FS_EmptySet DEF Count

\* What the baseline allows: as often as the first day's prose said it, where it was
\* forbidden then, and otherwise not at all.
LEMMA AllowedIsFirstCount ==
  ASSUME NEW p, ProseIsItems(p), NEW es, NEW d, NEW a
  PROVE  Allowed(baselineOf(p, es), a, d)
           = IF a \in UNION {e.not : e \in es} THEN Count(p, d, a) ELSE 0
<1> DEFINE alts == UNION {e.not : e \in es}
           lines == {l \in baselineOf(p, es).alts : l.alt = a /\ l.file = d}
<1>1. baselineOf(p, es).alts = {[alt |-> x, file |-> f, n |-> Count(p, f, x)] :
                                  x \in alts, f \in FilesOf(p)}
  BY DEF baselineOf
<1> HIDE DEF alts
<1>2. CASE a \in alts /\ d \in FilesOf(p)
  <2>1. [alt |-> a, file |-> d, n |-> Count(p, d, a)] \in lines
    BY <1>1, <1>2
  <2>2. \A l \in lines : l.n = Count(p, d, a)
    BY <1>1
  <2>3. Allowed(baselineOf(p, es), a, d) = (CHOOSE l \in lines : TRUE).n
    BY <2>1 DEF Allowed
  <2>4. (CHOOSE l \in lines : TRUE) \in lines
    BY <2>1
  <2> QED BY <1>2, <2>2, <2>3, <2>4 DEF alts
<1>3. CASE ~(a \in alts /\ d \in FilesOf(p))
  <2>1. lines = {}
    BY <1>1, <1>3
  <2>2. Allowed(baselineOf(p, es), a, d) = 0
    BY <2>1 DEF Allowed
  <2> QED BY <1>3, <2>2, CountsAreNumbers DEF alts
<1> QED BY <1>2, <1>3

LEMMA NoLooser == VocabularyInv /\ ItemsInv => Ratchet
<1> SUFFICES ASSUME VocabularyInv, ItemsInv, firstDay # NotYet,
                    NEW e \in head.entries, NEW a \in e.not, NEW d \in gatedFiles(head)
             PROVE  Count(prose(head), d, a) <=
                      IF a \in UNION {b.not : b \in firstDay.entries}
                      THEN Count(firstDay.prose, d, a) ELSE 0
  BY DEF Ratchet
<1> DEFINE allowed == IF a \in UNION {b.not : b \in firstDay.entries}
                      THEN Count(firstDay.prose, d, a) ELSE 0
<1>1. ProseIsItems(prose(head)) /\ ProseIsItems(firstDay.prose)
  BY ProseOfItems DEF ItemsInv
<1>2. Count(prose(head), d, a) \in Nat /\ allowed \in Nat
  BY <1>1, CountsAreNumbers
<1>3. CASE prose(head) = firstDay.prose /\ head.entries = firstDay.entries
  <2>1. allowed = Count(prose(head), d, a)
    BY <1>3
  <2> QED BY <1>2, <2>1
<1>4. CASE checkDictionary(head) = {} /\ d \in FilesOf(prose(head))
  <2>1. {f \in FilesOf(prose(head)) : \E x \in head.entries : \E y \in x.not :
           Count(prose(head), f, y) > Allowed(head.baseline, y, f)} = {}
    BY <1>4 DEF checkDictionary, dictionaryProblems
  <2>2. ~(Count(prose(head), d, a) > Allowed(head.baseline, a, d))
    BY <1>4, <2>1
  <2>3. Allowed(head.baseline, a, d) = allowed
    BY <1>1, AllowedIsFirstCount DEF VocabularyInv, SameBaseline
  <2> HIDE DEF allowed
  <2>4. Count(prose(head), d, a) <= allowed
    BY <1>2, <2>2, <2>3
  <2> QED BY <2>4 DEF allowed
<1>5. CASE d \notin FilesOf(prose(head))
  <2>1. Count(prose(head), d, a) = 0
    BY <1>1, <1>5, CountsAreNumbers
  <2> HIDE DEF allowed
  <2>2. Count(prose(head), d, a) <= allowed
    BY <1>2, <2>1
  <2> QED BY <2>2 DEF allowed
<1> QED BY <1>3, <1>4, <1>5 DEF VocabularyInv

\* No committed document says what the dictionary forbids more often than on the
\* first day (check-dictionary.mjs:252-254), however many commits ago that was.
THEOREM NoAmnesty == Spec => []Ratchet
BY VocabularyStart, VocabularyStep, ItemsStart, ItemsStep, NoLooser, PTL DEF Spec
-----------------------------------------------------------------------------
(* A green gate, clause by clause *)

LEMMA DocsClean ==
  ASSUME NEW c, NEW k
  PROVE  checkDocs(c, k) = {} <=>
           /\ c.historical \cup c.foreignDecs \subseteq DOMAIN c.docs
           /\ DOMAIN c.rosters \subseteq gatedDocs(c)
           /\ \A d \in gatedDocs(c) :
                /\ d \notin c.foreignDecs => ~checkDecRefs(c, d)
                /\ ~checkNpmScripts(c, d) /\ ~checkIssueLinks(c, d)
                /\ d \in DOMAIN c.rosters => ~checkRosters(c, d)
                /\ d \notin c.historical => ~DeadPath(c, k, d) /\ ~DeadSection(c, d)
<1> DEFINE all == gatedDocs(c)
           refs == In(all \ c.foreignDecs, "has no decision file", LAMBDA d : checkDecRefs(c, d))
           npm == In(all, "is not a script", LAMBDA d : checkNpmScripts(c, d))
           links == In(all, "links elsewhere", LAMBDA d : checkIssueLinks(c, d))
           lists == In(all \cap DOMAIN c.rosters, "roster", LAMBDA d : checkRosters(c, d))
           paths == In(all \ c.historical, "does not exist", LAMBDA d : DeadPath(c, k, d))
           secs == checkSections(c, all \ c.historical)
<1>1. checkDocs(c, k) = checkExemptions(c) \cup checkRosterDocsExist(c) \cup refs \cup npm
                          \cup links \cup lists \cup paths \cup secs
  BY DEF checkDocs
<1>2. checkExemptions(c) = {} <=> c.historical \cup c.foreignDecs \subseteq DOMAIN c.docs
  BY DEF checkExemptions
<1>3. checkRosterDocsExist(c) = {} <=> DOMAIN c.rosters \subseteq gatedDocs(c)
  BY DEF checkRosterDocsExist
<1>4. refs = {} <=> \A d \in all \ c.foreignDecs : ~checkDecRefs(c, d)
  BY DEF In
<1>5. npm = {} <=> \A d \in all : ~checkNpmScripts(c, d)
  BY DEF In
<1>6. links = {} <=> \A d \in all : ~checkIssueLinks(c, d)
  BY DEF In
<1>7. lists = {} <=> \A d \in all \cap DOMAIN c.rosters : ~checkRosters(c, d)
  BY DEF In
<1>8. paths = {} <=> \A d \in all \ c.historical : ~DeadPath(c, k, d)
  BY DEF In
<1>9. secs = {} <=> \A d \in all \ c.historical : ~DeadSection(c, d)
  BY DEF In, checkSections
<1> HIDE DEF all, refs, npm, links, lists, paths, secs
<1>10. checkDocs(c, k) = {} <=>
         /\ checkExemptions(c) = {} /\ checkRosterDocsExist(c) = {} /\ refs = {} /\ npm = {}
         /\ links = {} /\ lists = {} /\ paths = {} /\ secs = {}
  BY <1>1
<1> QED BY <1>2, <1>3, <1>4, <1>5, <1>6, <1>7, <1>8, <1>9, <1>10 DEF all

LEMMA ContextClean ==
  ASSUME NEW c, NEW k
  PROVE  checkContext(c, k) = {} <=>
           /\ contextDocs(c) \subseteq DOMAIN c.docs
           /\ \A d \in contextDocs(c) \cap DOMAIN c.docs :
                ~DeadPath(c, k, d) /\ ~DeadSection(c, d)
<1> DEFINE present == contextDocs(c) \cap DOMAIN c.docs
           missing == {<<"listed but does not exist", d>> : d \in contextDocs(c) \ DOMAIN c.docs}
           paths == In(present, "does not exist", LAMBDA d : DeadPath(c, k, d))
           secs == checkSections(c, present)
<1>1. checkContext(c, k) = missing \cup paths \cup secs
  BY DEF checkContext
<1>2. missing = {} <=> contextDocs(c) \subseteq DOMAIN c.docs
  OBVIOUS
<1>3. paths = {} <=> \A d \in present : ~DeadPath(c, k, d)
  BY DEF In
<1>4. secs = {} <=> \A d \in present : ~DeadSection(c, d)
  BY DEF In, checkSections
<1> HIDE DEF missing, paths, secs, present
<1>5. checkContext(c, k) = {} <=> missing = {} /\ paths = {} /\ secs = {}
  BY <1>1
<1> QED BY <1>2, <1>3, <1>4, <1>5 DEF present

LEMMA DeniedClean ==
  ASSUME NEW c
  PROVE  checkDenied(c) = {} <=>
           /\ deniedCommands(c) # {}
           /\ \A d \in deniedScope(c) \ DOMAIN c.runbooks : ~Spells(c, d)
           /\ \A d \in DOMAIN c.runbooks : d \in deniedScope(c) /\ c.runbooks[d] /\ Spells(c, d)
<1> DEFINE spelled == In(deniedScope(c) \ DOMAIN c.runbooks, "spells a denied command",
                         LAMBDA d : Spells(c, d))
           nothing == IF deniedCommands(c) = {}
                      THEN {<<"nothing to check against", "settings.json">>} ELSE {}
<1>1. checkDenied(c) = spelled \cup runbookProblems(c) \cup nothing
  BY DEF checkDenied
<1>2. spelled = {} <=> \A d \in deniedScope(c) \ DOMAIN c.runbooks : ~Spells(c, d)
  BY DEF In
<1>3. runbookProblems(c) = {} <=>
        \A d \in DOMAIN c.runbooks : d \in deniedScope(c) /\ c.runbooks[d] /\ Spells(c, d)
  BY DEF runbookProblems
<1>4. nothing = {} <=> deniedCommands(c) # {}
  OBVIOUS
<1> HIDE DEF spelled, nothing
<1>5. checkDenied(c) = {} <=> spelled = {} /\ runbookProblems(c) = {} /\ nothing = {}
  BY <1>1
<1> QED BY <1>2, <1>3, <1>4, <1>5

-----------------------------------------------------------------------------
(* Archiving *)

\* What gen:decisions writes under a heading of the specification, or in the index's
\* rows, is no heading (gen-decisions-index.mjs:310-313, :446).
QuotesAreNoHeadings ==
  \A i \in Items : i.kind \in {"title", "scope"} => i.item.kind # "heading"

\* No document that gen:decisions writes in is declared a roster.
RostersWritten(c) == \A d \in DOMAIN c.rosters : Place[d] # "spec"
RostersAreWritten ==
  /\ \A c \in Begins : RostersWritten(c)
  /\ \A m \in RosterMenu : Place[m[1]] # "spec"
RostersInv == RostersWritten(repo) /\ RostersWritten(head)

\* An archived record is no longer quoted, and nothing else is said differently.
LEMMA ArchivedText ==
  ASSUME NEW c, Shaped(c), NEW r, NEW d
  PROVE  /\ Text(Archived(c, r), d) \subseteq Text(c, d)
         /\ Place[d] \notin {"spec", "index"} => Text(Archived(c, r), d) = Text(c, d)
<1> DEFINE a == Archived(c, r)
<1>1. a.docs = c.docs /\ a.archived = c.archived \cup {r}
  BY DEF Archived, Shaped, RepoKeys
<1>2. Records(a) \subseteq Records(c)
  BY <1>1 DEF Records, Have
<1>3. ASSUME NEW rs, NEW kinds PROVE Quoted(a, rs, kinds) = Quoted(c, rs, kinds)
  BY <1>1 DEF Quoted
<1>4. ASSUME NEW kinds PROVE Quoted(c, Records(a), kinds) \subseteq Quoted(c, Records(c), kinds)
  BY <1>2 DEF Quoted
<1> HIDE DEF a
<1> QED BY <1>1, <1>3, <1>4 DEF Text, a

LEMMA ArchivedHeadings ==
  ASSUME NEW c, HoldsItems(c), QuotesAreNoHeadings, NEW r, NEW d \in DOMAIN c.docs
  PROVE  headings(Archived(c, r), d) = headings(c, d)
<1> DEFINE a == Archived(c, r)
<1>1. Shaped(c) /\ a.docs = c.docs
  BY DEF HoldsItems, Archived, Shaped, RepoKeys
<1>2. \A i \in Text(c, d) : i.kind = "heading" => i \in c.docs[d]
  <2> SUFFICES ASSUME NEW i \in Text(c, d), i.kind = "heading", i \notin c.docs[d]
               PROVE  FALSE
    OBVIOUS
  <2>1. PICK rs \in SUBSET DOMAIN c.docs, kinds \in SUBSET {"title", "scope"} :
          i \in Quoted(c, rs, kinds)
    <3>1. Records(c) \subseteq DOMAIN c.docs BY DEF Records, Have
    <3> QED BY <3>1 DEF Text
  <2>2. PICK q \in rs : \E j \in c.docs[q] : j.kind \in kinds /\ i = j.item
    BY <2>1 DEF Quoted
  <2> QED BY <2>2 DEF HoldsItems, QuotesAreNoHeadings
<1>3. c.docs[d] \subseteq Text(a, d)
  BY <1>1 DEF Text
<1>4. Text(a, d) \subseteq Text(c, d)
  BY <1>1, ArchivedText
<1> QED BY <1>2, <1>3, <1>4 DEF headings, Of

LEMMA ArchivingBreaksNothing ==
  ASSUME NEW c, HoldsItems(c), RostersWritten(c), QuotesAreNoHeadings,
         NEW r, checkDocs(c, Fresh) = {}
  PROVE  checkDocs(Archived(c, r), Fresh) = {}
<1> DEFINE a == Archived(c, r)
<1>1. /\ a.docs = c.docs /\ a.files = c.files /\ a.scripts = c.scripts
      /\ a.rosters = c.rosters /\ a.historical = c.historical
      /\ a.foreignDecs = c.foreignDecs
  BY DEF HoldsItems, Archived, Shaped, RepoKeys
<1>2. \A places : Have(a, places) = Have(c, places)
  BY <1>1 DEF Have
<1>3. /\ gatedDocs(a) = gatedDocs(c) /\ knownIds(a) = knownIds(c)
      /\ skillsOf(a) = skillsOf(c) /\ agentsOf(a) = agentsOf(c)
  BY <1>2 DEF gatedDocs, knownIds, skillsOf, agentsOf
<1>4. \A d : /\ Text(a, d) \subseteq Text(c, d)
             /\ Place[d] \notin {"spec", "index"} => Text(a, d) = Text(c, d)
  BY ArchivedText DEF HoldsItems
<1>5. \A d, kind : Of(a, d, kind) \subseteq Of(c, d, kind)
  BY <1>4 DEF Of
<1>6. \A d \in DOMAIN c.docs : headings(a, d) = headings(c, d)
  BY ArchivedHeadings
<1>7. Disk(a, Fresh) = Disk(c, Fresh) /\ Roots(a, Fresh) = Roots(c, Fresh)
  BY <1>1 DEF Disk, Roots
<1> HIDE DEF a
<1>8. ASSUME NEW d \in gatedDocs(c)
      PROVE  /\ checkDecRefs(a, d) => checkDecRefs(c, d)
             /\ checkNpmScripts(a, d) => checkNpmScripts(c, d)
             /\ checkIssueLinks(a, d) => checkIssueLinks(c, d)
             /\ d \in DOMAIN c.rosters => (checkRosters(a, d) => checkRosters(c, d))
             /\ DeadPath(a, Fresh, d) => DeadPath(c, Fresh, d)
             /\ DeadSection(a, d) => DeadSection(c, d)
  <2>1. checkDecRefs(a, d) => checkDecRefs(c, d)
    BY <1>3, <1>5 DEF checkDecRefs
  <2>2. checkNpmScripts(a, d) => checkNpmScripts(c, d)
    BY <1>1, <1>5 DEF checkNpmScripts
  <2>3. checkIssueLinks(a, d) => checkIssueLinks(c, d)
    BY <1>5 DEF checkIssueLinks
  <2>4. d \in DOMAIN c.rosters => (checkRosters(a, d) => checkRosters(c, d))
    <3> SUFFICES ASSUME d \in DOMAIN c.rosters PROVE checkRosters(a, d) <=> checkRosters(c, d)
      OBVIOUS
    <3>1. Place[d] \notin {"spec", "index"}
      BY <1>8 DEF RostersWritten, gatedDocs, Have
    <3>2. \A kind : Named(a, d, kind) = Named(c, d, kind)
      BY <1>4, <3>1 DEF Named, Of
    <3> QED BY <1>1, <1>3, <3>2 DEF checkRosters
  <2>5. DeadPath(a, Fresh, d) => DeadPath(c, Fresh, d)
    BY <1>5, <1>7 DEF DeadPath, isClaim
  <2>6. DeadSection(a, d) => DeadSection(c, d)
    BY <1>1, <1>5, <1>6 DEF DeadSection
  <2> QED BY <2>1, <2>2, <2>3, <2>4, <2>5, <2>6
<1>9. checkDocs(a, Fresh) = {}
  BY <1>1, <1>3, <1>8, DocsClean
<1> QED BY <1>9 DEF a

LEMMA RostersStart == RostersAreWritten /\ Init => RostersInv
BY DEF Init, RostersInv, RostersAreWritten

LEMMA RostersStep == RostersAreWritten /\ ItemsInv /\ RostersInv /\ [Next]_vars => RostersInv'
<1> SUFFICES ASSUME RostersAreWritten, ItemsInv, RostersInv, [Next]_vars PROVE RostersInv'
  OBVIOUS
<1> USE DEF RostersInv, RostersWritten, ItemsInv, HoldsItems, Shaped, RepoKeys
<1>1. CASE Adopt
  BY <1>1 DEF Adopt
<1>2. CASE Write \/ AddDoc
  BY <1>2 DEF Write, AddDoc, Edit
<1>3. CASE RemoveDoc \/ Archive \/ Convert
  BY <1>3 DEF RemoveDoc, Removed, Archive, Archived, Convert, Edit
<1>4. CASE MoveFile \/ ChangeScript \/ ChangePolicy \/ Register \/ GenDictionary
  BY <1>4 DEF MoveFile, ChangeScript, ChangePolicy, Register, GenDictionary, Edit
<1>5. CASE DeclareRoster
  <2>1. PICK m \in RosterMenu : Edit([repo EXCEPT !.rosters = WithIt(@, m[1], m[2])])
    BY <1>5 DEF DeclareRoster
  <2> QED BY <2>1 DEF RostersAreWritten, WithIt, Edit
<1>6. CASE DeclareRunbook \/ Declare
  BY <1>6 DEF DeclareRunbook, Declare, Edit
<1>7. CASE Undeclare
  <2>1. ASSUME NEW f, NEW x PROVE DOMAIN Without(f, x) \subseteq DOMAIN f
    BY DEF Without
  <2>2. UNCHANGED head /\ DOMAIN repo'.rosters \subseteq DOMAIN repo.rosters
    <3>1. CASE \E d \in DOMAIN repo.rosters : Edit([repo EXCEPT !.rosters = Without(@, d)])
      BY <2>1, <3>1 DEF Edit
    <3>2. CASE \E d \in DOMAIN repo.runbooks : Edit([repo EXCEPT !.runbooks = Without(@, d)])
      BY <3>2 DEF Edit
    <3> QED BY <1>7, <3>1, <3>2 DEF Undeclare
  <2> QED BY <2>2
<1>8. CASE Commit \/ Revert \/ Done \/ UNCHANGED vars
  BY <1>8 DEF Commit, Revert, Done, vars
<1> QED BY <1>1, <1>2, <1>3, <1>4, <1>5, <1>6, <1>7, <1>8 DEF Next

\* To archive a record never makes a document's citation of it a dead one
\* (lib/records.mjs:86-102), in any repository that was clean before, as long as no
\* roster is read off what the record had put in the specification.
THEOREM ArchivedStaysCitable ==
  ASSUME QuotesAreNoHeadings, RostersAreWritten
  PROVE  Spec => []ArchivingIsFree
<1>1. ItemsInv /\ RostersInv => ArchivingIsFree
  BY ArchivingBreaksNothing DEF ItemsInv, RostersInv, ArchivingIsFree
<1>2. Init => RostersInv BY RostersStart
<1>3. ItemsInv /\ RostersInv /\ [Next]_vars => RostersInv' BY RostersStep
<1> QED BY <1>1, <1>2, <1>3, ItemsStart, ItemsStep, PTL DEF Spec
-----------------------------------------------------------------------------
(* Declarations *)

\* A name that no document's skill or agent has, and no other project's.
RetiredIsGone ==
  "retired" \notin {Called[d] : d \in Docs} \cup KNOWN_FOREIGN \cup KNOWN_FOREIGN_AGENTS

LEMMA GreenParts ==
  ASSUME NEW c
  PROVE  Green(c) <=> /\ checkDictionary(c) = {} /\ checkDenied(c) = {}
                      /\ checkContext(c, Fresh) = {} /\ checkDocs(c, Fresh) = {}
BY DEF Green, Verify

\* A roster is asked for what it claims.
LEMMA RosterIsRed ==
  ASSUME NEW c, NEW d, d \in gatedDocs(c), d \in DOMAIN c.rosters, checkRosters(c, d)
  PROVE  <<"roster", d>> \in checkDocs(c, Fresh)
<1>1. <<"roster", d>> \in In(gatedDocs(c) \cap DOMAIN c.rosters, "roster",
                             LAMBDA e : checkRosters(c, e))
  BY DEF In
<1> QED BY <1>1 DEF checkDocs

LEMMA NothingNewGetsBy ==
  ASSUME NEW c, HoldsItems(c), NEW d \in DOMAIN c.rosters, d \in gatedDocs(c),
         NEW e \in Docs \ DOMAIN c.docs, Called[e] = NewName
  PROVE  LET a == [c EXCEPT !.docs = WithIt(@, e, {})]
         IN  /\ /\ Place[e] = "skill" /\ c.rosters[d].skills = "all"
                /\ NewName \notin Named(c, d, "skill")
                => <<"roster", d>> \in checkDocs(a, Fresh)
             /\ /\ Place[e] = "agent" /\ c.rosters[d].agents = "all"
                /\ NewName \notin Named(c, d, "agent")
                => <<"roster", d>> \in checkDocs(a, Fresh)
<1> DEFINE a == [c EXCEPT !.docs = WithIt(@, e, {})]
<1> SUFFICES ASSUME Place[e] \in {"skill", "agent"}
             PROVE  /\ /\ Place[e] = "skill" /\ c.rosters[d].skills = "all"
                       /\ NewName \notin Named(c, d, "skill")
                       => <<"roster", d>> \in checkDocs(a, Fresh)
                    /\ /\ Place[e] = "agent" /\ c.rosters[d].agents = "all"
                       /\ NewName \notin Named(c, d, "agent")
                       => <<"roster", d>> \in checkDocs(a, Fresh)
  OBVIOUS
<1>1. /\ DOMAIN a.docs = DOMAIN c.docs \cup {e} /\ \A x \in DOMAIN c.docs : a.docs[x] = c.docs[x]
      /\ a.archived = c.archived /\ a.rosters = c.rosters
  BY DEF HoldsItems, Shaped, RepoKeys, WithIt
<1> HIDE DEF a
<1>2. Records(a) = Records(c) /\ Records(c) \subseteq DOMAIN c.docs
  BY <1>1 DEF Records, Have
<1>3. d \in DOMAIN c.docs
  BY DEF gatedDocs, Have
<1>4. Text(a, d) = Text(c, d)
  <2>1. \A kinds : Quoted(a, Records(a), kinds) = Quoted(c, Records(c), kinds)
    BY <1>1, <1>2 DEF Quoted
  <2>2. Place[d] # "record"
    BY DEF gatedDocs, Have
  <2> QED BY <1>1, <1>3, <2>1, <2>2 DEF Text
<1>5. \A kind : Named(a, d, kind) = Named(c, d, kind)
  BY <1>4 DEF Named, Of
<1>6. d \in gatedDocs(a)
  BY <1>1, <1>3 DEF gatedDocs, Have
<1>7. /\ Place[e] = "skill" => NewName \in skillsOf(a)
      /\ Place[e] = "agent" => NewName \in agentsOf(a)
  BY <1>1 DEF skillsOf, agentsOf, Have
<1>8. CASE Place[e] = "skill" /\ c.rosters[d].skills = "all" /\ NewName \notin Named(c, d, "skill")
  <2>1. checkRosters(a, d) BY <1>1, <1>5, <1>7, <1>8 DEF checkRosters
  <2> QED BY <1>1, <1>6, <1>8, <2>1, RosterIsRed
<1>9. CASE Place[e] = "agent" /\ c.rosters[d].agents = "all" /\ NewName \notin Named(c, d, "agent")
  <2>1. checkRosters(a, d) BY <1>1, <1>5, <1>7, <1>9 DEF checkRosters
  <2> QED BY <1>1, <1>6, <1>9, <2>1, RosterIsRed
<1> QED BY <1>8, <1>9

LEMMA NothingDeadIsNamed ==
  ASSUME NEW c, HoldsItems(c), RetiredIsGone, NEW d \in DOMAIN c.rosters, d \in gatedDocs(c),
         NEW kind \in {"skill", "agent"},
         kind = "agent" => c.rosters[d].agents = "mentions"
  PROVE  <<"roster", d>> \in
           checkDocs([c EXCEPT !.docs[d] = @ \cup {[kind |-> kind, name |-> "retired"]}], Fresh)
<1> DEFINE i == [kind |-> kind, name |-> "retired"]
           a == [c EXCEPT !.docs[d] = @ \cup {i}]
<1>1. d \in DOMAIN c.docs /\ DOMAIN c.docs \subseteq Docs
  BY DEF gatedDocs, Have, HoldsItems
<1>2. /\ DOMAIN a.docs = DOMAIN c.docs /\ i \in a.docs[d] /\ a.rosters = c.rosters
  BY <1>1 DEF HoldsItems, Shaped, RepoKeys
<1>3. i.kind = kind /\ i.name = "retired"
  OBVIOUS
<1> HIDE DEF a, i
<1>4. "retired" \in Named(a, d, kind)
  BY <1>2, <1>3 DEF Named, Of, Text
<1>5. d \in gatedDocs(a)
  BY <1>2 DEF gatedDocs, Have
<1>6. "retired" \notin skillsOf(a) \cup KNOWN_FOREIGN
        /\ "retired" \notin agentsOf(a) \cup KNOWN_FOREIGN_AGENTS
  BY <1>1, <1>2 DEF skillsOf, agentsOf, Have, RetiredIsGone
<1>7. checkRosters(a, d)
  BY <1>2, <1>4, <1>6 DEF checkRosters
<1>8. <<"roster", d>> \in checkDocs(a, Fresh)
  BY <1>2, <1>5, <1>7, RosterIsRed
<1> QED BY <1>8 DEF a, i

\* What is declared cannot be withdrawn, or what it is about removed, unseen.
LEMMA NothingDeclaredVanishes ==
  ASSUME NEW c, HoldsItems(c), Green(c)
  PROVE  /\ \A d \in DOMAIN c.runbooks : ~Green([c EXCEPT !.runbooks = Without(@, d)])
         /\ \A d \in Required \cup DOMAIN c.rosters \cup DOMAIN c.runbooks
                  \cup c.historical \cup c.foreignDecs : ~Green(Removed(c, d))
<1>1. ASSUME NEW d \in DOMAIN c.runbooks
      PROVE  ~Green([c EXCEPT !.runbooks = Without(@, d)])
  <2> DEFINE a == [c EXCEPT !.runbooks = Without(@, d)]
  <2>1. /\ a.docs = c.docs /\ a.archived = c.archived /\ a.rules = c.rules
        /\ d \notin DOMAIN a.runbooks
    BY DEF HoldsItems, Shaped, RepoKeys, Without
  <2> HIDE DEF a
  <2>2. d \in deniedScope(c) /\ Spells(c, d)
    BY GreenParts, DeniedClean
  <2>3. /\ deniedScope(a) = deniedScope(c) /\ deniedCommands(a) = deniedCommands(c)
        /\ Records(a) = Records(c)
    BY <2>1 DEF deniedScope, deniedCommands, Have, Records
  <2>4. Text(a, d) = Text(c, d)
    BY <2>1, <2>3 DEF Text, Quoted
  <2>5. Spells(a, d)
    BY <2>2, <2>3, <2>4 DEF Spells, Of
  <2>6. ~Green(a)
    BY <2>1, <2>2, <2>3, <2>5, GreenParts, DeniedClean
  <2> QED BY <2>6 DEF a
<1>2. ASSUME NEW d \in Required \cup DOMAIN c.rosters \cup DOMAIN c.runbooks
                         \cup c.historical \cup c.foreignDecs
      PROVE  ~Green(Removed(c, d))
  <2> DEFINE a == Removed(c, d)
  <2>1. /\ d \notin DOMAIN a.docs /\ a.rosters = c.rosters /\ a.runbooks = c.runbooks
        /\ a.historical = c.historical /\ a.foreignDecs = c.foreignDecs
    BY DEF HoldsItems, Shaped, RepoKeys, Removed, Without
  <2> HIDE DEF a
  <2>2. d \notin gatedDocs(a) /\ d \notin deniedScope(a)
    BY <2>1 DEF gatedDocs, deniedScope, Have
  <2>3. CASE d \in Required
    BY <2>1, <2>3, GreenParts, ContextClean DEF contextDocs, a
  <2>4. CASE d \in DOMAIN c.rosters \cup c.historical \cup c.foreignDecs
    BY <2>1, <2>2, <2>4, GreenParts, DocsClean DEF a
  <2>5. CASE d \in DOMAIN c.runbooks
    BY <2>1, <2>2, <2>5, GreenParts, DeniedClean DEF a
  <2> QED BY <2>3, <2>4, <2>5
<1> QED BY <1>1, <1>2

\* A declaration is read by a gate or it is refused (check-docs.mjs:339-346, 358-380):
\* in any green repository, whatever was declared, in whatever order.
THEOREM DeclarationsHold ==
  ASSUME RetiredIsGone
  PROVE  Spec => []DeclaredIsEnforced
<1>1. ItemsInv => DeclaredIsEnforced
  <2> SUFFICES ASSUME HoldsItems(repo), Green(repo) PROVE DeclaredIsEnforced
    BY DEF ItemsInv, DeclaredIsEnforced
  <2>1. DOMAIN repo.rosters \subseteq gatedDocs(repo)
    BY GreenParts, DocsClean
  <2>2. ASSUME NEW d \in DOMAIN repo.rosters
        PROVE  LET red(c) == <<"roster", d>> \in checkDocs(c, Fresh)
                   letsBy(place, kind) ==
                     /\ NewName \notin Named(repo, d, kind)
                     /\ \E e \in Docs \ DOMAIN repo.docs :
                          /\ Place[e] = place /\ Called[e] = NewName
                          /\ ~red([repo EXCEPT !.docs = WithIt(@, e, {})])
                   mayName(kind) ==
                     ~red([repo EXCEPT !.docs[d] = @ \cup {[kind |-> kind, name |-> "retired"]}])
               IN  /\ repo.rosters[d].skills = "all" => ~letsBy("skill", "skill")
                   /\ repo.rosters[d].agents = "all" => ~letsBy("agent", "agent")
                   /\ repo.rosters[d].agents = "mentions" => ~mayName("agent")
                   /\ ~mayName("skill")
    BY <2>1, <2>2, NothingNewGetsBy, NothingDeadIsNamed
  <2>3. /\ \A d \in DOMAIN repo.runbooks : ~Green([repo EXCEPT !.runbooks = Without(@, d)])
        /\ \A d \in Required \cup DOMAIN repo.rosters \cup DOMAIN repo.runbooks
                 \cup repo.historical \cup repo.foreignDecs : ~Green(Removed(repo, d))
    BY NothingDeclaredVanishes
  <2> QED BY <2>2, <2>3 DEF DeclaredIsEnforced
<1> QED BY <1>1, ItemsStart, ItemsStep, PTL DEF Spec
-----------------------------------------------------------------------------
(* What a person can put right *)

\* What the gates read as somebody's to edit.
Read(a) == (DOMAIN a.docs \ Have(a, {"record"})) \cup (Records(a) \ frozenRecords(a))

\* A repository that declares nothing, with a dictionary that is as it should be.
Bare(a) ==
  /\ Required \subseteq DOMAIN a.docs
  /\ a.page = a.entries /\ loadErrors(a.entries) = {} /\ \A e \in a.entries : e.says = {}
  /\ DOMAIN a.rosters = {} /\ DOMAIN a.runbooks = {}
  /\ a.historical = {} /\ a.foreignDecs = {}
  /\ deniedCommands(a) # {}

LEMMA Second == \A x, y : <<x, y>>[2] = y
OBVIOUS

\* A finding names the document it was found in.
LEMMA FoundThere ==
  ASSUME NEW a, NEW ds
  PROVE  /\ \A e \in In(ds, "spells a denied command", LAMBDA d : Spells(a, d)) :
              e[2] \in ds /\ Spells(a, e[2])
         /\ \A e \in In(ds, "does not exist", LAMBDA d : DeadPath(a, Fresh, d)) :
              e[2] \in ds /\ DeadPath(a, Fresh, e[2])
         /\ \A e \in In(ds, "has no such section", LAMBDA d : DeadSection(a, d)) :
              e[2] \in ds /\ DeadSection(a, e[2])
         /\ \A e \in In(ds, "has no decision file", LAMBDA d : checkDecRefs(a, d)) :
              e[2] \in ds /\ checkDecRefs(a, e[2])
         /\ \A e \in In(ds, "is not a script", LAMBDA d : checkNpmScripts(a, d)) :
              e[2] \in ds /\ checkNpmScripts(a, e[2])
         /\ \A e \in In(ds, "links elsewhere", LAMBDA d : checkIssueLinks(a, d)) :
              e[2] \in ds /\ checkIssueLinks(a, e[2])
<1>1. \A e \in In(ds, "spells a denied command", LAMBDA d : Spells(a, d)) :
        e[2] \in ds /\ Spells(a, e[2])
  <2>1. \A e \in In(ds, "spells a denied command", LAMBDA d : Spells(a, d)) :
          \E d \in ds : e = <<"spells a denied command", d>> /\ Spells(a, d)
    BY Zenon DEF In
  <2> QED BY Zenon, <2>1, Second
<1>2. \A e \in In(ds, "does not exist", LAMBDA d : DeadPath(a, Fresh, d)) :
        e[2] \in ds /\ DeadPath(a, Fresh, e[2])
  <2>1. \A e \in In(ds, "does not exist", LAMBDA d : DeadPath(a, Fresh, d)) :
          \E d \in ds : e = <<"does not exist", d>> /\ DeadPath(a, Fresh, d)
    BY Zenon DEF In
  <2> QED BY Zenon, <2>1, Second
<1>3. \A e \in In(ds, "has no such section", LAMBDA d : DeadSection(a, d)) :
        e[2] \in ds /\ DeadSection(a, e[2])
  <2>1. \A e \in In(ds, "has no such section", LAMBDA d : DeadSection(a, d)) :
          \E d \in ds : e = <<"has no such section", d>> /\ DeadSection(a, d)
    BY Zenon DEF In
  <2> QED BY Zenon, <2>1, Second
<1>4. \A e \in In(ds, "has no decision file", LAMBDA d : checkDecRefs(a, d)) :
        e[2] \in ds /\ checkDecRefs(a, e[2])
  <2>1. \A e \in In(ds, "has no decision file", LAMBDA d : checkDecRefs(a, d)) :
          \E d \in ds : e = <<"has no decision file", d>> /\ checkDecRefs(a, d)
    BY Zenon DEF In
  <2> QED BY Zenon, <2>1, Second
<1>5. \A e \in In(ds, "is not a script", LAMBDA d : checkNpmScripts(a, d)) :
        e[2] \in ds /\ checkNpmScripts(a, e[2])
  <2>1. \A e \in In(ds, "is not a script", LAMBDA d : checkNpmScripts(a, d)) :
          \E d \in ds : e = <<"is not a script", d>> /\ checkNpmScripts(a, d)
    BY Zenon DEF In
  <2> QED BY Zenon, <2>1, Second
<1>6. \A e \in In(ds, "links elsewhere", LAMBDA d : checkIssueLinks(a, d)) :
        e[2] \in ds /\ checkIssueLinks(a, e[2])
  <2>1. \A e \in In(ds, "links elsewhere", LAMBDA d : checkIssueLinks(a, d)) :
          \E d \in ds : e = <<"links elsewhere", d>> /\ checkIssueLinks(a, d)
    BY Zenon DEF In
  <2> QED BY Zenon, <2>1, Second
<1> QED BY Zenon, <1>1, <1>2, <1>3, <1>4, <1>5, <1>6

\* What is wrong with such a repository is wrong with what some page says, one that is
\* somebody's to edit.
LEMMA FindingsHaveText ==
  ASSUME NEW a, Bare(a), NEW f \in Verify(a, Fresh)
  PROVE  f[2] \in Read(a) /\ Text(a, f[2]) # {}
<1>1. /\ gatedFiles(a) \subseteq Read(a) /\ deniedScope(a) \subseteq Read(a)
      /\ gatedDocs(a) \subseteq Read(a) /\ contextDocs(a) \subseteq Read(a)
  <2>1. \A d \in Required : Place[d] \in {"shell", "context"}
    BY DEF Required
  <2> QED BY <2>1 DEF Bare, Read, gatedFiles, deniedScope, gatedDocs, contextDocs, Have, Records
<1>2. \A d : Text(a, d) = {} => /\ ~DeadPath(a, Fresh, d) /\ ~DeadSection(a, d)
                                /\ ~checkDecRefs(a, d) /\ ~checkNpmScripts(a, d)
                                /\ ~checkIssueLinks(a, d) /\ ~Spells(a, d)
  BY DEF DeadPath, DeadSection, checkDecRefs, checkNpmScripts, checkIssueLinks, Spells, Of
<1>3. CASE f \in checkDictionary(a)
  <2> DEFINE leans == {e \in a.entries : \E t \in e.says \cap Acronyms :
                         ~excluded(t, a.baseline, prose(a)) /\ t \notin Terms(a.entries)}
  <2>1. leans = {}
    BY DEF Bare
  <2> HIDE DEF leans
  <2>2. {<<"leans on", e.term>> : e \in leans} = {}
    BY <2>1
  <2> DEFINE alts == {g \in FilesOf(prose(a)) : \E e \in a.entries : \E x \in e.not :
                        Count(prose(a), g, x) > Allowed(a.baseline, x, g)}
             terms == {p \in prose(a) : /\ p[2].what \in Acronyms \ a.baseline.terms
                                        /\ ~excluded(p[2].what, a.baseline, prose(a))
                                        /\ p[2].what \notin Terms(a.entries)}
  <2>3. checkDictionary(a) = {<<"leans on", e.term>> : e \in leans}
                               \cup {<<"is a forbidden alternate", g>> : g \in alts}
                               \cup {<<"is not registered", p[1]>> : p \in terms}
    BY DEF Bare, checkDictionary, dictionaryProblems, leans
  <2>4. PICK p \in prose(a) : f[2] = p[1]
    <3>1. alts \subseteq FilesOf(prose(a)) /\ terms \subseteq prose(a)
      OBVIOUS
    <3> HIDE DEF alts, terms
    <3>2. \/ \E g \in alts : f = <<"is a forbidden alternate", g>>
          \/ \E p \in terms : f = <<"is not registered", p[1]>>
      BY <1>3, <2>2, <2>3
    <3>3. f[2] \in alts \/ \E p \in terms : f[2] = p[1]
      BY Zenon, <3>2, Second
    <3> QED BY <3>1, <3>3 DEF FilesOf
  <2>5. f[2] \in gatedFiles(a) /\ Text(a, f[2]) # {}
    BY <2>4 DEF prose, Of
  <2> QED BY <1>1, <2>5
<1>4. CASE f \in checkDenied(a)
  <2> DEFINE spelled == In(deniedScope(a) \ DOMAIN a.runbooks, "spells a denied command",
                           LAMBDA d : Spells(a, d))
  <2>1. \A e \in spelled : e[2] \in deniedScope(a) /\ Spells(a, e[2])
    <3>1. \A e \in spelled : e[2] \in deniedScope(a) \ DOMAIN a.runbooks /\ Spells(a, e[2])
      BY Zenon, FoundThere
    <3> QED BY <3>1
  <2>2. runbookProblems(a) = {}
    BY DEF Bare, runbookProblems
  <2>3. checkDenied(a) = spelled
    BY <2>2 DEF Bare, checkDenied
  <2> HIDE DEF spelled
  <2>4. f[2] \in deniedScope(a) /\ Spells(a, f[2])
    BY <1>4, <2>1, <2>3
  <2> QED BY <1>1, <1>2, <2>4
<1>5. CASE f \in checkContext(a, Fresh)
  <2> DEFINE present == contextDocs(a) \cap DOMAIN a.docs
             missing == {<<"listed but does not exist", d>> : d \in contextDocs(a) \ DOMAIN a.docs}
             paths == In(present, "does not exist", LAMBDA d : DeadPath(a, Fresh, d))
             secs == checkSections(a, present)
  <2>1. checkContext(a, Fresh) = missing \cup paths \cup secs
    BY DEF checkContext
  <2>2. missing = {}
    BY DEF Bare, contextDocs, Have
  <2>3. /\ \A e \in paths : e[2] \in present /\ DeadPath(a, Fresh, e[2])
        /\ \A e \in secs : e[2] \in present /\ DeadSection(a, e[2])
    <3> HIDE DEF present
    <3> QED BY FoundThere DEF checkSections
  <2> HIDE DEF missing, paths, secs
  <2>4. f[2] \in contextDocs(a) /\ (DeadPath(a, Fresh, f[2]) \/ DeadSection(a, f[2]))
    BY <1>5, <2>1, <2>2, <2>3
  <2> QED BY <1>1, <1>2, <2>4
<1>6. CASE f \in checkDocs(a, Fresh)
  <2> DEFINE all == gatedDocs(a)
             refs == In(all \ a.foreignDecs, "has no decision file", LAMBDA d : checkDecRefs(a, d))
             npm == In(all, "is not a script", LAMBDA d : checkNpmScripts(a, d))
             links == In(all, "links elsewhere", LAMBDA d : checkIssueLinks(a, d))
             lists == In(all \cap DOMAIN a.rosters, "roster", LAMBDA d : checkRosters(a, d))
             paths == In(all \ a.historical, "does not exist", LAMBDA d : DeadPath(a, Fresh, d))
             secs == checkSections(a, all \ a.historical)
  <2>1. checkDocs(a, Fresh) = checkExemptions(a) \cup checkRosterDocsExist(a) \cup refs
                                \cup npm \cup links \cup lists \cup paths \cup secs
    BY DEF checkDocs
  <2>2. checkExemptions(a) = {} /\ checkRosterDocsExist(a) = {} /\ lists = {}
    BY DEF Bare, checkExemptions, checkRosterDocsExist, In
  <2>3. /\ \A e \in refs : e[2] \in all /\ checkDecRefs(a, e[2])
        /\ \A e \in npm : e[2] \in all /\ checkNpmScripts(a, e[2])
        /\ \A e \in links : e[2] \in all /\ checkIssueLinks(a, e[2])
        /\ \A e \in paths : e[2] \in all /\ DeadPath(a, Fresh, e[2])
        /\ \A e \in secs : e[2] \in all /\ DeadSection(a, e[2])
    <3> HIDE DEF all
    <3>1. \A e \in refs : e[2] \in all \ a.foreignDecs /\ checkDecRefs(a, e[2])
      BY Zenon, FoundThere
    <3>2. /\ \A e \in npm : e[2] \in all /\ checkNpmScripts(a, e[2])
          /\ \A e \in links : e[2] \in all /\ checkIssueLinks(a, e[2])
      BY Zenon, FoundThere
    <3>3. \A e \in paths : e[2] \in all \ a.historical /\ DeadPath(a, Fresh, e[2])
      BY Zenon, FoundThere
    <3>4. \A e \in secs : e[2] \in all \ a.historical /\ DeadSection(a, e[2])
      BY Zenon, FoundThere DEF checkSections
    <3> HIDE DEF refs, npm, links, paths, secs
    <3> QED BY <3>1, <3>2, <3>3, <3>4
  <2> HIDE DEF refs, npm, links, lists, paths, secs
  <2>4. /\ f[2] \in all
        /\ \/ checkDecRefs(a, f[2]) \/ checkNpmScripts(a, f[2]) \/ checkIssueLinks(a, f[2])
           \/ DeadPath(a, Fresh, f[2]) \/ DeadSection(a, f[2])
    BY <1>6, <2>1, <2>2, <2>3
  <2> QED BY <1>1, <1>2, <2>4
<1> QED BY <1>3, <1>4, <1>5, <1>6 DEF Verify

\* Of what is cleared, whatever else is archived, no page that is somebody's to edit says
\* anything, other than what the index and the specification quote of frozen records.
IndexIsGenerated(c) == \A d \in Have(c, {"index"}) : c.docs[d] = {}
LEMMA ClearedQuotes ==
  ASSUME NEW c, HoldsItems(c), IndexIsGenerated(c), NEW S, NEW d \in Read([Cleared(c) EXCEPT !.archived = @ \cup S])
  PROVE  LET a == [Cleared(c) EXCEPT !.archived = @ \cup S]
         IN  /\ Place[d] \notin {"spec", "index"} => Text(a, d) = {}
             /\ Text(a, d) \subseteq Quoted(a, Quoting(a), {"title", "scope"})
<1> DEFINE a == [Cleared(c) EXCEPT !.archived = @ \cup S]
<1>1. /\ a.archived = c.archived \cup S /\ a.frozen = c.frozen
      /\ a.docs = [e \in DOMAIN c.docs \cup Required |->
                     IF e \in DOMAIN c.docs \ Editable(c) THEN c.docs[e] ELSE {}]
  BY DEF HoldsItems, Shaped, RepoKeys, Cleared
<1>2. d \in Read(a)
  OBVIOUS
<1> HIDE DEF a
<1>3. /\ \A e \in Records(a) : Place[e] = "record" /\ e \in DOMAIN a.docs /\ e \notin a.archived
      /\ \A e \in Required : Place[e] \in {"shell", "context"}
      /\ frozenRecords(c) = Records(c) \cap c.frozen
      /\ frozenRecords(a) = Records(a) \cap c.frozen
  BY <1>1 DEF frozenRecords, Records, Have, Required
<1>4. \A e \in DOMAIN a.docs : e \notin frozenRecords(c) => a.docs[e] = {}
  <2> SUFFICES ASSUME NEW e \in DOMAIN a.docs, e \notin frozenRecords(c) PROVE a.docs[e] = {}
    OBVIOUS
  <2>1. CASE e \in Have(c, {"index"})
    BY <1>1, <2>1 DEF IndexIsGenerated, Have
  <2>2. CASE e \notin Have(c, {"index"})
    BY <1>1, <2>2 DEF Editable
  <2> QED BY <2>1, <2>2
<1>5. \A e \in frozenRecords(c) : Place[e] = "record" /\ e \in c.frozen
  BY <1>3 DEF Records, Have
<1>6. d \in DOMAIN a.docs /\ d \notin frozenRecords(c)
  <2>1. CASE d \in DOMAIN a.docs \ Have(a, {"record"})
    BY <1>5, <2>1 DEF Have
  <2>2. CASE d \in Records(a) \ frozenRecords(a)
    BY <1>3, <1>5, <2>2
  <2> QED BY <1>2, <2>1, <2>2 DEF Read
<1>7. a.docs[d] = {}
  BY <1>4, <1>6
<1>8. Quoted(a, {d}, {"title", "scope"}) = {}
  BY <1>7 DEF Quoted
<1>9. ASSUME NEW kinds, kinds \subseteq {"title", "scope"}
      PROVE  Quoted(a, Records(a), kinds) \subseteq Quoted(a, Quoting(a), {"title", "scope"})
  <2> SUFFICES ASSUME NEW r \in Records(a), NEW i \in a.docs[r], i.kind \in kinds
               PROVE  i.item \in Quoted(a, Quoting(a), {"title", "scope"})
    BY DEF Quoted
  <2>1. r \in frozenRecords(a)
    BY <1>3, <1>4, <1>5
  <2>2. r \in Quoting(a) /\ i.kind \in {"title", "scope"}
    BY <1>9, <2>1 DEF Quoting
  <2> QED BY <2>2 DEF Quoted
<1>10. /\ Place[d] \notin {"spec", "index"} => Text(a, d) = {}
       /\ Text(a, d) \subseteq Quoted(a, Quoting(a), {"title", "scope"})
  BY <1>7, <1>8, <1>9 DEF Text
<1> QED BY <1>10 DEF a

\* A dictionary put right has nothing to object to, and silence offends nobody.
LEMMA ClearedDictionary ==
  ASSUME NEW c, Shaped(c)
  PROVE  LET a == Cleared(c)
         IN  /\ a.page = a.entries /\ loadErrors(a.entries) = {}
             /\ \A e \in a.entries : e.says = {}
<1> DEFINE a == Cleared(c)
           Sound(t) == [term |-> t, says |-> {}, sound |-> TRUE,
                        not |-> UNION {e.not : e \in {d \in c.entries : d.term = t}}]
<1>1. a.entries = {Sound(t) : t \in Terms(c.entries)} /\ a.page = a.entries
  BY DEF Shaped, RepoKeys, Cleared
<1>2. \A t : Sound(t).term = t /\ Sound(t).says = {} /\ Sound(t).sound
  OBVIOUS
<1> HIDE DEF a, Sound
<1>3. loadErrors(a.entries) = {}
  <2>1. \A e \in a.entries : e.sound /\ e = Sound(e.term)
    BY <1>1, <1>2
  <2>2. {d \in a.entries : ~d.sound} = {}
    BY <2>1
  <2>3. {d \in a.entries : \E e \in a.entries \ {d} : e.term = d.term} = {}
    BY <2>1
  <2> QED BY <2>2, <2>3 DEF loadErrors
<1>4. \A e \in a.entries : e.says = {}
  BY <1>1, <1>2
<1> QED BY <1>1, <1>3, <1>4 DEF a

LEMMA ClearedIsBare ==
  ASSUME NEW c, HoldsItems(c), NEW S
  PROVE  Bare([Cleared(c) EXCEPT !.archived = @ \cup S])
<1> DEFINE a == [Cleared(c) EXCEPT !.archived = @ \cup S]
<1>1. a.page = a.entries /\ loadErrors(a.entries) = {} /\ \A e \in a.entries : e.says = {}
  <2>1. a.page = Cleared(c).page /\ a.entries = Cleared(c).entries
    OBVIOUS
  <2> QED BY <2>1, ClearedDictionary DEF HoldsItems
<1>2. /\ DOMAIN a.docs = DOMAIN c.docs \cup Required
      /\ DOMAIN a.rosters = {} /\ DOMAIN a.runbooks = {}
      /\ a.historical = {} /\ a.foreignDecs = {}
      /\ a.rules = IF deniedCommands(c) = {} THEN Rules ELSE c.rules
  BY DEF HoldsItems, Shaped, RepoKeys, Cleared
<1> HIDE DEF a
<1>3. deniedCommands(a) # {}
  BY <1>2, PolicyAssumption DEF deniedCommands
<1>4. Bare(a)
  BY <1>1, <1>2, <1>3 DEF Bare
<1> QED BY <1>4 DEF a

LEMMA ClearedIsActionable ==
  ASSUME ItemsInv, IndexIsGenerated(repo)
  PROVE  Actionable
<1> DEFINE left == Cleared(repo)
           after(S) == [left EXCEPT !.archived = @ \cup S]
<1>1. HoldsItems(repo)
  BY DEF ItemsInv
<1>2. left = after({})
  <2>1. left.archived = repo.archived
    BY <1>1 DEF HoldsItems, Shaped, RepoKeys, Cleared
  <2>2. "archived" \in DOMAIN left /\ left = [x \in DOMAIN left |-> left[x]]
    BY <1>1 DEF HoldsItems, Shaped, RepoKeys, Cleared
  <2> HIDE DEF left
  <2> QED BY <2>2
<1>3. \A S : Bare(after(S))
  BY <1>1, ClearedIsBare
<1>4. \A S : \A d \in Read(after(S)) :
        /\ Place[d] \notin {"spec", "index"} => Text(after(S), d) = {}
        /\ Text(after(S), d) \subseteq Quoted(after(S), Quoting(after(S)), {"title", "scope"})
  BY <1>1, ClearedQuotes
<1>5. /\ "archived" \in DOMAIN left /\ DOMAIN left = RepoKeys
      /\ \A S : /\ after(S).docs = left.docs /\ after(S).frozen = left.frozen
                /\ after(S).archived = left.archived \cup S
  BY <1>1 DEF HoldsItems, Shaped, RepoKeys, Cleared
<1> HIDE DEF left, after
<1>6. ASSUME NEW f \in Verify(left, Fresh)
      PROVE  /\ f[2] \in Have(left, {"spec", "index"})
             /\ Text(left, f[2]) \subseteq Quoted(left, Quoting(left), {"title", "scope"})
  <2>1. f[2] \in Read(left) /\ Text(left, f[2]) # {}
    BY <1>2, <1>3, FindingsHaveText
  <2>2. Place[f[2]] \in {"spec", "index"}
    BY <1>2, <1>4, <2>1
  <2>3. f[2] \in DOMAIN left.docs
    BY <2>1 DEF Read, Records, Have
  <2> QED BY <1>2, <1>4, <2>1, <2>2, <2>3 DEF Have
<1> DEFINE rest == after(Quoting(left))
<1>7. Quoting(rest) = {}
  <2>1. \A r \in Quoting(rest) : r \in frozenRecords(left) /\ r \notin Quoting(left)
    BY <1>5 DEF Quoting, frozenRecords, Records, Have
  <2>2. \A r \in Quoting(rest) : \E i \in left.docs[r] : i.kind \in {"title", "scope"}
    BY <1>5 DEF Quoting
  <2> QED BY <2>1, <2>2 DEF Quoting
<1>8. Quoted(rest, {}, {"title", "scope"}) = {}
  BY DEF Quoted
<1>9. Verify(rest, Fresh) = {}
  <2> HIDE DEF rest
  <2> SUFFICES ASSUME NEW f \in Verify(rest, Fresh) PROVE FALSE
    OBVIOUS
  <2>1. f[2] \in Read(rest) /\ Text(rest, f[2]) # {}
    BY <1>3, FindingsHaveText DEF rest
  <2>2. Text(rest, f[2]) \subseteq Quoted(rest, Quoting(rest), {"title", "scope"})
    BY <1>4, <2>1 DEF rest
  <2> QED BY <1>7, <1>8, <2>1, <2>2
<1> QED BY <1>6, <1>9 DEF Actionable, Green, left, after

\* Nobody writes in the index.
IndexInv == IndexIsGenerated(repo) /\ IndexIsGenerated(head)
LEMMA IndexStep == ItemsInv /\ IndexInv /\ [Next]_vars => IndexInv'
<1> SUFFICES ASSUME ItemsInv, IndexInv, [Next]_vars PROVE IndexInv'
  OBVIOUS
<1> USE DEF IndexInv, ItemsInv, HoldsItems, Shaped, RepoKeys
<1>1. ASSUME NEW c, NEW a, IndexIsGenerated(c),
             \A d \in DOMAIN a.docs : Place[d] = "index" =>
               a.docs[d] = {} \/ (d \in DOMAIN c.docs /\ a.docs[d] = c.docs[d])
      PROVE  IndexIsGenerated(a)
  BY <1>1 DEF IndexIsGenerated, Have
<1>2. CASE Write
  <2>1. PICK m \in Menu : /\ m[1] \in Editable(repo)
                          /\ repo' = [repo EXCEPT !.docs[m[1]] = Either(@, m[2])]
                          /\ UNCHANGED head
    BY <1>2 DEF Write, Edit
  <2>2. Place[m[1]] # "index" /\ m[1] \in DOMAIN repo.docs
    BY <2>1 DEF Editable, Have
  <2>3. /\ DOMAIN repo'.docs = DOMAIN repo.docs
        /\ \A d \in DOMAIN repo.docs : d # m[1] => repo'.docs[d] = repo.docs[d]
    BY <2>1
  <2>4. IndexIsGenerated(repo')
    BY <1>1, <2>2, <2>3
  <2> QED BY <2>1, <2>4
<1>3. CASE AddDoc
  <2>1. PICK e \in Unwritten \ DOMAIN repo.docs :
          repo' = [repo EXCEPT !.docs = WithIt(@, e, {})] /\ UNCHANGED head
    BY <1>3 DEF AddDoc, Edit
  <2>2. /\ DOMAIN repo'.docs = DOMAIN repo.docs \cup {e} /\ repo'.docs[e] = {}
        /\ \A d \in DOMAIN repo.docs : repo'.docs[d] = repo.docs[d]
    BY <2>1 DEF WithIt
  <2>3. IndexIsGenerated(repo')
    BY <1>1, <2>2
  <2> QED BY <2>1, <2>3
<1>4. CASE RemoveDoc
  <2>1. PICK e \in DOMAIN repo.docs : repo' = Removed(repo, e) /\ UNCHANGED head
    BY <1>4 DEF RemoveDoc, Edit
  <2>2. /\ DOMAIN repo'.docs = DOMAIN repo.docs \ {e}
        /\ \A d \in DOMAIN repo'.docs : repo'.docs[d] = repo.docs[d]
    BY <2>1 DEF Removed, Without
  <2>3. IndexIsGenerated(repo')
    BY <1>1, <2>2
  <2> QED BY <2>1, <2>3
<1>5. CASE Adopt
  <2>1. repo'.docs = repo.docs /\ head' = repo'
    BY <1>5 DEF Adopt
  <2> QED BY <1>1, <2>1
<1>6. CASE \/ Archive \/ Convert \/ MoveFile \/ ChangeScript \/ ChangePolicy \/ Register
           \/ GenDictionary \/ DeclareRoster \/ DeclareRunbook \/ Declare \/ Undeclare
  <2>1. repo'.docs = repo.docs /\ UNCHANGED head
    BY <1>6 DEF Archive, Archived, Convert, MoveFile, ChangeScript, ChangePolicy, Register,
                GenDictionary, DeclareRoster, DeclareRunbook, Declare, Undeclare, Edit
  <2> QED BY <1>1, <2>1
<1>7. CASE Commit \/ Revert \/ Done \/ UNCHANGED vars
  BY <1>7 DEF Commit, Revert, Done, vars
<1> QED BY <1>2, <1>3, <1>4, <1>5, <1>6, <1>7 DEF Next

\* Whatever is registered and denied, once all that may be edited is put right no finding
\* is left but in what is generated out of frozen records, and none once those are archived
\* (check-dictionary.mjs:139-140, gen-decisions-index.mjs:311-314, 448).
THEOREM FindingsCanBeCleared == Spec => []Actionable
<1>1. Init => IndexInv BY IndexAssumption DEF Init, IndexInv, IndexIsGenerated
<1>2. ItemsInv /\ IndexInv => Actionable
  BY ClearedIsActionable DEF IndexInv
<1> QED BY <1>1, <1>2, IndexStep, ItemsStart, ItemsStep, PTL DEF Spec
=============================================================================
