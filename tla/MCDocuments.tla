----------------------------- MODULE MCDocuments -----------------------------
(* The shell and the context file, a specification, two documents under docs/ *)
(* and two under scaffold/, of which one is out of check-docs's sight; a      *)
(* skill, an agent, one of each to come; a v1 record and a frozen one, whose  *)
(* title spells a command and whose amendment says a word that may both be    *)
(* forbidden later.                                                           *)
EXTENDS Documents

Word(w, n) == [kind |-> "word", what |-> w, n |-> n]
Path(p) == [kind |-> "path", path |-> p]
Named1(kind, n) == [kind |-> kind, name |-> n]
Spell(cmd, how) == [kind |-> "spell", name |-> cmd, how |-> how]
Heading(ws) == [kind |-> "heading", words |-> ws]
Section(f, ws) == [kind |-> "section", file |-> f, words |-> ws]
In1(kind, item) == [kind |-> kind, item |-> item]
Link(shown, slug, target) == [kind |-> "link", shown |-> shown, slug |-> slug, target |-> target]

MCPlace ==
  [d \in {"CLAUDE.md", "context", "SPEC.md", "CHEATSHEET.md", "DECISIONS.md", "plan", "starter",
          "kill-this", "new-skill", "ux", "new-agent", "D1.md", "D2.md"} |->
     CASE d = "CLAUDE.md" -> "shell" [] d = "context" -> "context" [] d = "SPEC.md" -> "spec"
       [] d = "CHEATSHEET.md" -> "docs" [] d = "DECISIONS.md" -> "index"
       [] d = "plan" -> "scaffold/docs" [] d = "starter" -> "scaffold"
       [] d \in {"kill-this", "new-skill"} -> "skill" [] d \in {"ux", "new-agent"} -> "agent"
       [] OTHER -> "record"]
MCCalled ==
  [d \in DOMAIN MCPlace |->
     CASE d \in {"new-skill", "new-agent"} -> "new" [] d = "D1.md" -> "D1"
       [] d = "D2.md" -> "D2" [] OTHER -> d]
MCWords == {"RF", "rf", "NOT", "not", "DEC", "sweeper"}
MCAcronyms == {"RF", "NOT", "DEC"}
MCLower == [w \in MCAcronyms |-> CASE w = "RF" -> "rf" [] w = "NOT" -> "not" [] OTHER -> "dec"]

MCTracked == <<[path |-> <<"gateway", ".venv">>, dirOnly |-> TRUE, negated |-> FALSE],
               [path |-> <<"out">>, dirOnly |-> FALSE, negated |-> FALSE]>>
MCLocal == <<[path |-> <<"gateway", "notes">>, dirOnly |-> FALSE, negated |-> FALSE]>>
MCHiding == <<[path |-> <<"gateway">>, dirOnly |-> TRUE, negated |-> FALSE]>>
Venv == <<"gateway", ".venv">>
Notes == <<"gateway", "notes">>
MCPaths == {<<"gateway", "main">>}
MCCheckouts == [built : SUBSET {Venv, <<"out", "a">>}, local : {<<>>, MCLocal, MCHiding}]

Reconciler == [term |-> "reconciler", says |-> {}, not |-> {"sweeper"}, sound |-> TRUE]
Rf == [term |-> "RF", says |-> {"NOT"}, not |-> {}, sound |-> TRUE]
Leaning == [term |-> "radio", says |-> {"RF"}, not |-> {}, sound |-> TRUE]
Twice == [Reconciler EXCEPT !.not = {}]
MCEntryMenu == {Reconciler, Rf, Leaning, Twice}

Claims(s, a) == [skills |-> s, agents |-> a]
MCRosterMenu == {<<"CHEATSHEET.md", Claims("all", "all")>>, <<"starter", Claims("all", "none")>>,
                 <<"context", Claims("mentions", "mentions")>>}
MCRules == {[cmd |-> "npx", shape |-> "prefix"], [cmd |-> "curl", shape |-> "prefix"],
            [cmd |-> "gh", shape |-> "prefix"], [cmd |-> "bash", shape |-> "exact"]}

Start ==
  [docs |->
     [d \in DOMAIN MCPlace \ {"new-skill", "new-agent", "plan"} |->
        CASE d = "CLAUDE.md" -> {Section("context", <<"4", "Parked", "+", "the", "line">>),
                                 Named1("skill", "kill-this"), Spell("npx", "bare")}
          [] d = "context" -> {Heading(<<"4", "Parked", "-", "deferred">>), Word("NOT", "1"),
                               Word("not", "1"), Word("DEC", "1")}
          [] d = "SPEC.md" -> {Word("sweeper", "1"), Named1("id", "D2"), Link("1", "own", "1")}
          [] d = "CHEATSHEET.md" -> {Named1("skill", "kill-this"), Named1("agent", "ux"),
                                     Spell("curl", "block")}
          [] d = "D2.md" -> {In1("scope", Named1("id", "D1"))}
          [] d = "D1.md" -> {Word("sweeper", "1"), Word("RF", "1"), Spell("npx", "block"),
                             In1("scope", Word("sweeper", "quoted")),
                             In1("title", Spell("gh", "args"))}
          [] OTHER -> {}],
   archived |-> {}, frozen |-> {"D1.md"}, files |-> {<<"gateway", "main">>},
   scripts |-> {"verify"}, entries |-> {}, page |-> {}, baseline |-> NoBaseline,
   rules |-> {[cmd |-> "npx", shape |-> "prefix"]},
   rosters |-> [d \in {} |-> 0], runbooks |-> [d \in {} |-> TRUE],
   historical |-> {}, foreignDecs |-> {}]
\* With and without a dictionary entry, rosters, and a runbook.
Begin(es, rs, books) ==
  [Start EXCEPT !.entries = es, !.rosters = rs, !.runbooks = [d \in books |-> TRUE],
                !.rules = @ \cup {[cmd |-> "curl", shape |-> "prefix"] : d \in books}]
NoRoster == [d \in {} |-> 0]
AllListed == [d \in {"CHEATSHEET.md"} |-> Claims("all", "all")]
Mentioned == [d \in {"context"} |-> Claims("mentions", "mentions")]
MCBegins == {Begin({}, NoRoster, {}), Begin({Reconciler}, AllListed, {}),
             Begin({Reconciler}, Mentioned, {"CHEATSHEET.md"})}

MCMenu ==
  {<<"context", Path(Venv)>>, <<"context", Path(Notes)>>,
   <<"SPEC.md", Path(<<"gateway", "main">>)>>, <<"SPEC.md", Path(<<"out", "b">>)>>,
   <<"SPEC.md", Word("sweeper", "2")>>, <<"SPEC.md", Word("RF", "1")>>,
   <<"context", Word("rf", "1")>>, <<"D2.md", Word("RF", "1")>>,
   <<"CLAUDE.md", Section("context", <<"4", "Parked", "+", "the", "line">>)>>,
   <<"context", Heading(<<"4", "Parked", "-", "deferred">>)>>,
   <<"SPEC.md", Link("1", "own", "2")>>, <<"plan", Named1("script", "test:e2e")>>,
   <<"CHEATSHEET.md", Named1("script", "verify")>>, <<"CHEATSHEET.md", Spell("curl", "block")>>,
   <<"CHEATSHEET.md", Named1("skill", "new")>>, <<"CHEATSHEET.md", Named1("agent", "gone")>>,
   <<"context", Named1("agent", "gone")>>, <<"starter", Named1("skill", "kill-this")>>}
MCUnwritten == {"new-skill", "new-agent", "plan", "CHEATSHEET.md"}
=============================================================================
