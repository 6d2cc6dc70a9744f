------------------------------ MODULE Documents ------------------------------
(***************************************************************************)
(* The life of the documents under the gates of DocGates: the day the      *)
(* dictionary is adopted (scripts/gen-dictionary-baseline.mjs), and then   *)
(* people who write and strike, add and remove documents, files, skills,   *)
(* scripts, dictionary entries, permission rules and declarations in       *)
(* .claude/doc-check.json, and who commit what npm run verify passes.  The *)
(* record itself is kept by DecisionRecord; here it is what its own gate   *)
(* lets through, with gen:decisions run.                                   *)
(***************************************************************************)
EXTENDS DocGates

CONSTANTS
  Begins,      \* the repositories the story may start from
  Menu,        \* what may be written where: <<document, item>>
  Unwritten,   \* documents that may be added
  Paths, Scripts, Rules, EntryMenu,  \* what else may come and go,
  RosterMenu,  \*   declarations included: <<document, claims>>,
  Declarable,  \*   documents that may be made a ledger, a runbook, ...
  Checkouts,   \* where the gates may be run
  NotYet,      \* the dictionary has not been adopted
  MaxEdits     \* bound: changes made by hand

VARIABLES
  repo,      \* the working tree
  head,      \* the last commit
  firstDay,  \* history: the gated prose, the dictionary, as they were at adoption
  edits

vars == <<repo, head, firstDay, edits>>

-----------------------------------------------------------------------------

\* What a repository is made of.
RepoKeys == {"docs", "archived", "frozen", "files", "scripts", "entries", "page", "baseline",
             "rules", "rosters", "runbooks", "historical", "foreignDecs"}
ASSUME BeginsAssumption == \A c \in Begins : DOMAIN c = RepoKeys

\* What documents may hold.  A pattern is looked for on the disk alone, so none is
\* written here that could match what git ignores.
Items == {m[2] : m \in Menu} \cup UNION {UNION {c.docs[d] : d \in DOMAIN c.docs} : c \in Begins}
AllItems == Items \cup {i.item : i \in {j \in Items : j.kind \in {"title", "scope"}}}
NoPattern(i) == i.kind # "glob" /\ (i.kind = "path" => Len(i.path) \in Nat)
ASSUME ItemsAssumption == \A i \in AllItems : NoPattern(i)
ASSUME FinitenessAssumption ==
  /\ IsFiniteSet(AllItems) /\ IsFiniteSet(Docs)
  /\ Unwritten \subseteq Docs /\ \A c \in Begins : DOMAIN c.docs \subseteq Docs
\* The index is generated, all of it, and the policy denies some prefix.
ASSUME IndexAssumption == \A c \in Begins : \A d \in Have(c, {"index"}) : c.docs[d] = {}
ASSUME PolicyAssumption == \E r \in Rules : r.shape = "prefix"
\* A checkout holds, beyond the repository, what the repository ignores.
ASSUME CheckoutsAssumption ==
  \A k \in Checkouts : \A p \in k.built : Len(p) \in Nat /\ gitIgnores(Tracked, <<>>, p)

Init ==
  /\ repo \in Begins /\ head = repo
  /\ firstDay = NotYet /\ edits = 0

\* The baseline is written once, over the dictionary's first entries.
Adopt ==
  /\ firstDay = NotYet
  /\ repo' = [repo EXCEPT !.baseline = baselineOf(prose(repo), repo.entries),
                          !.page = repo.entries]
  /\ head' = repo'
  /\ firstDay' = [prose |-> prose(repo), entries |-> repo.entries]
  /\ UNCHANGED edits

Edit(c) ==
  /\ firstDay # NotYet /\ edits < MaxEdits
  /\ c # repo
  /\ repo' = c
  /\ edits' = edits + 1
  /\ UNCHANGED <<head, firstDay>>

Either(S, x) == IF x \in S THEN S \ {x} ELSE S \cup {x}
Without(f, x) == [y \in DOMAIN f \ {x} |-> f[y]]
WithIt(f, x, v) == [y \in DOMAIN f \cup {x} |-> IF y = x THEN v ELSE f[y]]

\* Nobody writes in a frozen record, or in what is generated.
Editable(c) == DOMAIN c.docs \ (frozenRecords(c) \cup Have(c, {"index"}))

Write ==
  \E m \in Menu : m[1] \in Editable(repo) /\ Edit([repo EXCEPT !.docs[m[1]] = Either(@, m[2])])

AddDoc == \E d \in Unwritten \ DOMAIN repo.docs : Edit([repo EXCEPT !.docs = WithIt(@, d, {})])

\* A record that another one cites stays: check:decisions sees to that.
Removed(c, d) == [c EXCEPT !.docs = Without(@, d), !.archived = @ \ {d}]
Cited(c, d) == \E r \in Have(c, {"record"}) \ {d} : \E i \in Of(c, r, "id") : i.name = Called[d]
RemoveDoc ==
  \E d \in DOMAIN repo.docs \ Have(repo, {"index"}) :
    (Place[d] = "record" => ~Cited(repo, d)) /\ Edit(Removed(repo, d))

Archived(c, r) == [c EXCEPT !.archived = @ \cup {r}]
Archive == \E r \in Records(repo) : Edit(Archived(repo, r))

\* A frozen record is rewritten as schema v1.
Convert == \E r \in frozenRecords(repo) : Edit([repo EXCEPT !.frozen = @ \ {r}])

MoveFile == \E p \in Paths : Edit([repo EXCEPT !.files = Either(@, p)])
ChangeScript == \E s \in Scripts : Edit([repo EXCEPT !.scripts = Either(@, s)])
ChangePolicy == \E r \in Rules : Edit([repo EXCEPT !.rules = Either(@, r)])
Register == \E e \in EntryMenu : Edit([repo EXCEPT !.entries = Either(@, e)])

\* gen-dictionary.mjs, which refuses a dictionary with errors.
GenDictionary ==
  /\ firstDay # NotYet
  /\ loadErrors(repo.entries) = {} /\ repo.page # repo.entries
  /\ repo' = [repo EXCEPT !.page = repo.entries]
  /\ UNCHANGED <<head, firstDay, edits>>

DeclareRoster == \E m \in RosterMenu : Edit([repo EXCEPT !.rosters = WithIt(@, m[1], m[2])])
DeclareRunbook ==
  \E d \in Declarable, reason \in BOOLEAN : Edit([repo EXCEPT !.runbooks = WithIt(@, d, reason)])
Declare ==
  \E d \in Declarable : \/ Edit([repo EXCEPT !.historical = Either(@, d)])
                        \/ Edit([repo EXCEPT !.foreignDecs = Either(@, d)])
Undeclare ==
  \/ \E d \in DOMAIN repo.rosters : Edit([repo EXCEPT !.rosters = Without(@, d)])
  \/ \E d \in DOMAIN repo.runbooks : Edit([repo EXCEPT !.runbooks = Without(@, d)])

Commit ==
  /\ firstDay # NotYet
  /\ repo # head /\ Green(repo)
  /\ head' = repo
  /\ UNCHANGED <<repo, firstDay, edits>>

Revert ==
  /\ repo # head
  /\ repo' = head
  /\ UNCHANGED <<head, firstDay, edits>>

\* The bound is reached and nothing is left to commit.
Done ==
  /\ edits = MaxEdits /\ repo = head
  /\ UNCHANGED vars

Next ==
  \/ Adopt \/ Write \/ AddDoc \/ RemoveDoc \/ Archive \/ Convert \/ MoveFile \/ ChangeScript
  \/ ChangePolicy \/ Register \/ GenDictionary \/ DeclareRoster \/ DeclareRunbook \/ Declare
  \/ Undeclare \/ Commit \/ Revert \/ Done

Spec == Init /\ [][Next]_vars

-----------------------------------------------------------------------------
(* Properties *)

\* What is left once everything a person may change has been put right and every
\* declaration withdrawn, the dictionary's alternates and the policy as they are:
\* the frozen records, and the lists a roster needs.
Cleared(c) ==
  LET terms == Terms(c.entries)
      sound == {[term |-> t, says |-> {}, sound |-> TRUE,
                 not |-> UNION {e.not : e \in {d \in c.entries : d.term = t}}] : t \in terms}
  IN  [c EXCEPT !.docs = [d \in DOMAIN c.docs \cup Required |->
                            IF d \in DOMAIN c.docs \ Editable(c) THEN c.docs[d] ELSE {}],
                !.entries = sound, !.page = sound,
                !.rules = IF deniedCommands(c) = {} THEN Rules ELSE @,
                !.rosters = [d \in {} |-> 0], !.runbooks = [d \in {} |-> 0],
                !.historical = {}, !.foreignDecs = {}]

\* The frozen records a generated page quotes.
Quoting(c) == {r \in frozenRecords(c) : \E i \in c.docs[r] : i.kind \in {"title", "scope"}}

\* NEVER GATE A FILE THE PROJECT CANNOT EDIT (check-dictionary.mjs:139-140), as far as
\* the code keeps it.  Whatever is registered and denied, a frozen record is never gated
\* itself; what is left once all that may be edited is, is found in the pages a frozen
\* record's title or scope is generated into (gen-decisions-index.mjs:311-314, 448), and
\* is gone once the records so quoted are archived, frozen as they are.
Actionable ==
  LET left == Cleared(repo)
  IN  /\ \A f \in Verify(left, Fresh) :
           /\ f[2] \in Have(left, {"spec", "index"})
           /\ Text(left, f[2]) \subseteq Quoted(left, Quoting(left), {"title", "scope"})
      /\ Green([left EXCEPT !.archived = @ \cup Quoting(left)])

\* New vocabulary from this point forward is registered (gen-dictionary-baseline.mjs:
\* 58-60): an acronym in a committed document is in the dictionary, an id or a file
\* name, or the prose had it, somewhere, on the first day.
NoNewJargon ==
  firstDay # NotYet =>
    Said(prose(head)) \cap Acronyms \subseteq
      Terms(head.entries) \cup Exempt \cup Said(firstDay.prose)

\* A snapshot rather than an amnesty (check-dictionary.mjs:252-254): no committed
\* document says what the dictionary forbids more often than it did on the first day,
\* and what was forbidden later it does not say at all.
Ratchet ==
  firstDay # NotYet =>
    \A e \in head.entries : \A a \in e.not : \A d \in gatedFiles(head) :
      Count(prose(head), d, a) <=
        IF a \in UNION {b.not : b \in firstDay.entries} THEN Count(firstDay.prose, d, a) ELSE 0

\* An archived record still exists; it is only unindexed (lib/records.mjs:86-102): to
\* archive one never makes a citation of it, in any document, a dead one.
ArchivingIsFree ==
  checkDocs(repo, Fresh) = {} =>
    \A r \in Records(repo) : checkDocs(Archived(repo, r), Fresh) = {}

\* A declared rule nothing reads is the defect the gate exists to close (check-docs.mjs:
\* 339-346, 358-380): of a green repository, no roster of all skills or agents lets a
\* new one by, none that must name live agents lets a dead name by, and no runbook
\* could be struck off the list.  Nothing that is declared, nor what every session
\* loads, can vanish behind green gates (check-context.mjs:44-53).
NewName == "new"
DeclaredIsEnforced ==
  firstDay # NotYet /\ Green(repo) =>
    /\ \A d \in DOMAIN repo.rosters :
         LET red(c) == <<"roster", d>> \in checkDocs(c, Fresh)
             letsBy(place, kind) ==
               /\ NewName \notin Named(repo, d, kind)
               /\ \E e \in Docs \ DOMAIN repo.docs :
                    /\ Place[e] = place /\ Called[e] = NewName
                    /\ ~red([repo EXCEPT !.docs = WithIt(@, e, {})])
             mayName(kind) ==
               ~red([repo EXCEPT !.docs[d] = @ \cup {[kind |-> kind, name |-> "retired"]}])
         IN  /\ repo.rosters[d].skills = "all" => ~letsBy("skill", "skill")
             /\ repo.rosters[d].agents = "all" => ~letsBy("agent", "agent")
             /\ repo.rosters[d].agents = "mentions" => ~mayName("agent")
             /\ ~mayName("skill")
    /\ \A d \in DOMAIN repo.runbooks : ~Green([repo EXCEPT !.runbooks = Without(@, d)])
    /\ \A d \in Required \cup DOMAIN repo.rosters \cup DOMAIN repo.runbooks
             \cup repo.historical \cup repo.foreignDecs : ~Green(Removed(repo, d))

\* Nothing passes in somebody's checkout alone: what a fresh worktree finds wrong is
\* found there too, whatever was built in it and whatever its owner tells git to
\* ignore, as long as both have the same directories at the top
\* (check-context.mjs:207-236).
NothingPassesOnlyHere ==
  \A k \in Checkouts : Roots(repo, k) = Roots(repo, Fresh) =>
    /\ checkContext(repo, Fresh) \subseteq checkContext(repo, k)
    /\ checkDocs(repo, Fresh) \subseteq checkDocs(repo, k)
=============================================================================
