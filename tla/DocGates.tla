------------------------------ MODULE DocGates ------------------------------
(***************************************************************************)
(* What is left of npm run verify once check:decisions has passed: the     *)
(* gates check-dictionary, check-denied, check-context and check-docs over *)
(* one checkout of the repository.                                         *)
(*                                                                         *)
(* A document is the set of what a gate reads in it, each item a record    *)
(* with a kind: "path", "glob", "section" (a citation), "heading", "id",   *)
(* "script", "link", "skill", "agent", "spell" (a command), "word"; or, in *)
(* a record, a "title" or a "scope" (amends_spec) that holds such an item, *)
(* and that gen:decisions copies to the index or to the specification.     *)
(*                                                                         *)
(* c is the repository, k the checkout a gate runs in: what was built      *)
(* there that git ignores, and the ignore patterns that are its own.       *)
(***************************************************************************)
EXTENDS References, Vocabulary

CONSTANTS
  Place,     \* of each document: "shell" (CLAUDE.md), "context", "spec", "docs",
             \*   "index" (docs/DECISIONS.md), "scaffold/docs", "scaffold",
             \*   "skill", "agent" or "record"
  Called,    \* the skill a skill's document defines, the agent, the record's id
  Tracked,   \* the .gitignore files, a sequence of patterns
  REPO,      \* this repository, as an issue's URL has it
  KNOWN_FOREIGN, KNOWN_FOREIGN_AGENTS  \* names that are not this project's

Docs == DOMAIN Place
Required == {d \in Docs : Place[d] \in {"shell", "context"}}
Fresh == [built |-> {}, local |-> <<>>]

Have(c, places) == {d \in DOMAIN c.docs : Place[d] \in places}
Records(c) == {d \in Have(c, {"record"}) : d \notin c.archived}

Quoted(c, rs, kinds) == {i.item : i \in {j \in UNION {c.docs[r] : r \in rs} : j.kind \in kinds}}

\* A document with what is generated into it.
Text(c, d) ==
  c.docs[d] \cup
    CASE Place[d] = "spec" -> Quoted(c, Records(c), {"scope"})
      [] Place[d] = "index" -> Quoted(c, Records(c), {"title"})
      [] Place[d] = "record" -> Quoted(c, {d}, {"title", "scope"})
      [] OTHER -> {}

Of(c, d, kind) == {i \in Text(c, d) : i.kind = kind}
In(ds, what, Bad(_)) == {<<what, d>> : d \in {e \in ds : Bad(e)}}

-----------------------------------------------------------------------------
(* check-context.mjs *)

\* Mutant: what is not there is left out of the list.
DocsThatExist(c) == Have(c, {"shell", "context", "skill", "agent"})
contextDocs(c) == Required \cup Have(c, {"skill", "agent"})

\* Only a path that begins in a directory at the top of the checkout is a claim.
Disk(c, k) == c.files \cup k.built
Roots(c, k) == {p[1] : p \in Disk(c, k)}
isClaim(c, k, path) == path[1] \in Roots(c, k)

DeadPath(c, k, d) ==
  \/ \E i \in Of(c, d, "path") :
       isClaim(c, k, i.path) /\ ~resolvesPath(Disk(c, k), Tracked, k.local, i.path)
  \/ \E i \in Of(c, d, "glob") :
       isClaim(c, k, i.path) /\ ~resolvesGlob(Disk(c, k), i.matches)

headings(c, d) == {i.words : i \in Of(c, d, "heading")}
DeadSection(c, d) ==
  \E i \in Of(c, d, "section") :
    i.file \in DOMAIN c.docs /\ ~sectionMatches(i.words, headings(c, i.file))

checkSections(c, ds) == In(ds, "has no such section", LAMBDA d : DeadSection(c, d))

checkContext(c, k) ==
  LET present == contextDocs(c) \cap DOMAIN c.docs
  IN  {<<"listed but does not exist", d>> : d \in contextDocs(c) \ DOMAIN c.docs}
        \cup In(present, "does not exist", LAMBDA d : DeadPath(c, k, d))
        \cup checkSections(c, present)

-----------------------------------------------------------------------------
(* check-docs.mjs *)

gatedDocs(c) == Have(c, {"shell", "context", "spec", "docs", "scaffold/docs"})

\* Mutant: the ids of the index, as before archive/ was thought of.
IndexedIds(c) == {Called[r] : r \in Records(c)}
knownIds(c) == {Called[r] : r \in Have(c, {"record"})}

skillsOf(c) == {Called[d] : d \in Have(c, {"skill"})}
agentsOf(c) == {Called[d] : d \in Have(c, {"agent"})}
Named(c, d, kind) == {i.name : i \in Of(c, d, kind)}

checkDecRefs(c, d) == \E i \in Of(c, d, "id") : i.name \notin knownIds(c)
checkNpmScripts(c, d) ==
  Place[d] # "scaffold/docs" /\ \E i \in Of(c, d, "script") : i.name \notin c.scripts
checkIssueLinks(c, d) ==
  \E i \in Of(c, d, "link") : i.slug # REPO \/ i.shown # i.target

\* true claims that every skill, every agent is listed; "mentions", of agents,
\* that every one named exists, which of a skill is asked in any case.
checkRosters(c, d) ==
  LET claims == c.rosters[d]
      skills == Named(c, d, "skill")
      agents == Named(c, d, "agent")
  IN  \/ claims.skills = "all" /\ ~(skillsOf(c) \subseteq skills)
      \/ claims.agents = "all" /\ ~(agentsOf(c) \subseteq agents)
      \/ ~(skills \subseteq skillsOf(c) \cup KNOWN_FOREIGN)
      \/ claims.agents = "mentions" /\ ~(agents \subseteq agentsOf(c) \cup KNOWN_FOREIGN_AGENTS)

\* What is exempted, or claimed to be a roster, has to exist, and a roster to be
\* one of the documents read here.
checkExemptions(c) ==
  {<<"exempted but does not exist", d>> : d \in (c.historical \cup c.foreignDecs) \ DOMAIN c.docs}

checkRosterDocsExist(c) ==
  {<<"named as a roster", d>> : d \in DOMAIN c.rosters \ gatedDocs(c)}

checkDocs(c, k) ==
  LET all == gatedDocs(c)
  IN  checkExemptions(c) \cup checkRosterDocsExist(c)
        \cup In(all \ c.foreignDecs, "has no decision file", LAMBDA d : checkDecRefs(c, d))
        \cup In(all, "is not a script", LAMBDA d : checkNpmScripts(c, d))
        \cup In(all, "links elsewhere", LAMBDA d : checkIssueLinks(c, d))
        \cup In(all \cap DOMAIN c.rosters, "roster", LAMBDA d : checkRosters(c, d))
        \cup In(all \ c.historical, "does not exist", LAMBDA d : DeadPath(c, k, d))
        \cup checkSections(c, all \ c.historical)

-----------------------------------------------------------------------------
(* check-denied.mjs *)

\* Of the policy's rules [cmd, shape], those that deny a prefix; one that denies
\* an exact string, or begins with a wildcard, cannot be looked for.
deniedCommands(c) == {r.cmd : r \in {s \in c.rules : s.shape = "prefix"}}

\* A command is spelled where it is a line of a block, or a code span that gives
\* it arguments; not one that only names it ("bare"), that comes after "never run"
\* ("negated"), or that quotes the rule ("rule").
Spells(c, d) ==
  \E i \in Of(c, d, "spell") : i.name \in deniedCommands(c) /\ i.how \in {"block", "args"}

deniedScope(c) == DOMAIN c.docs \ Have(c, {"record"})

runbookProblems(c) ==
  {<<"runbook", d>> : d \in {e \in DOMAIN c.runbooks :
     e \notin deniedScope(c) \/ ~c.runbooks[e] \/ ~Spells(c, e)}}

checkDenied(c) ==
  In(deniedScope(c) \ DOMAIN c.runbooks, "spells a denied command", LAMBDA d : Spells(c, d))
    \cup runbookProblems(c)
    \cup (IF deniedCommands(c) = {} THEN {<<"nothing to check against", "settings.json">>} ELSE {})

-----------------------------------------------------------------------------
(* check-dictionary.mjs, over the files it reads *)

frozenRecords(c) == Records(c) \cap c.frozen

\* Mutant: the gate that did not know what frozen meant.
EveryRecord(c) == Have(c, {"spec", "context"}) \cup Records(c)
gatedFiles(c) == Have(c, {"spec", "context"}) \cup (Records(c) \ frozenRecords(c))

prose(c) == UNION {{<<d, i>> : i \in Of(c, d, "word")} : d \in gatedFiles(c)}
checkDictionary(c) == dictionaryProblems(prose(c), c.entries, c.baseline, c.page)

-----------------------------------------------------------------------------
\* npm run verify, in checkout k.
Verify(c, k) == checkDictionary(c) \cup checkDenied(c) \cup checkContext(c, k) \cup checkDocs(c, k)
Green(c) == Verify(c, Fresh) = {}
=============================================================================
