---------------------------- MODULE DecisionGate ----------------------------
(***************************************************************************)
(* The decision record as a whole: what the generator makes of it          *)
(* (load, generate; scripts/gen-decisions-index.mjs) and what the gate     *)
(* finds wrong with it (check; scripts/check-decisions.mjs).               *)
(*                                                                         *)
(* A corpus c is a record of what is on disk: the files of docs/decisions  *)
(* (dir) and of its archive (arch), by name; docs/decisions-baseline.txt   *)
(* as a set of <<id, fingerprint>>; the index docs/DECISIONS.md; the       *)
(* specification; and _preamble.md (intro, "" while there is none).        *)
(***************************************************************************)
EXTENDS DecisionText, Succession

CONSTANTS
  Names,    \* file names, other than _preamble.md
  NameId,   \* the id each name starts with
  Strays,   \* the names that are not of the form DEC-*.md
  Topics,   \* the topics of _config.json
  Absent    \* no such file

ASSUME NamesAssumption ==
  /\ IsFiniteSet(Names) /\ Strays \subseteq Names
  /\ DOMAIN NameId = Names

RECORD_DIRS == {"dir", "arch"}
\* One finding, when something holds.
When(b, finding) == IF b THEN {finding} ELSE {}

Files(c) == {f \in RECORD_DIRS \X Names : c[f[1]][f[2]] # Absent}
TextAt(c, f) == c[f[1]][f[2]]

-----------------------------------------------------------------------------
(* The generator *)

\* The files load() looks at: of one directory, and of one form of name.
Live(c) == {n \in Names \ Strays : c.dir[n] # Absent}

\* The records load() gives: what each file says and what was parsed of it.
load(c) == {[name |-> n, text |-> c.dir[n], meta |-> parseFrontmatter(c.dir[n].fm)] :
              n \in Live(c)}
IdIn(d) == ValueOf(d.meta.scalars, "id").text
TopicIn(d) == ValueOf(d.meta.scalars, "topic")
Amendments(d) == ListOf(d.meta, "amends_spec")

\* load() does not throw: every record starts with "---", parses, has an id, and
\* no two have the same.
Loads(ds) ==
  /\ \A d \in ds : ~d.text.crlf /\ d.meta.ok /\ Says(d.meta, "id")
  /\ Cardinality({IdIn(d) : d \in ds}) = Cardinality(ds)

\* The edges from records to sections, as lines of the block each section gets.
\* byId orders them; a text stands for its place in that order, and an empty scope
\* for one that is left out.
specGraph(ds) ==
  LET edges == UNION {{<<ValueOf(Amendments(d)[i], "section").text,
                         <<"amended", <<IdIn(d), ScopeOf(Amendments(d)[i]).text>>>>>> :
                           i \in DOMAIN Amendments(d)} : d \in ds}
  IN  [s \in {e[1] : e \in edges} |-> SetToSeq({e[2] : e \in {f \in edges : f[1] = s}})]

Row(d) == <<TopicIn(d).text, IdIn(d), ValueOf(d.meta.scalars, "title")>>

\* Mutant: the index also says how many rows it has, as it once did.
CountedIndex(ds, intro) ==
  [intro |-> intro,
   rows |-> {<<Row(d)[1], Row(d)[2], Plain(ToString(Cardinality(ds)))>> : d \in ds}]

\* The index: the preamble and a row for every record, under its topic, in the
\* order of byId, which the set leaves to be understood.
renderIndex(ds, intro) == [intro |-> intro, rows |-> {Row(d) : d \in ds}]

TopicKnown(d) == TopicIn(d).text \in Topics /\ ~TopicIn(d).note

\* What generate() gives, where it does not throw: every record in normal form,
\* the index, the specification with the blocks its sections are due.
Generates(c) ==
  LET ds == load(c) IN Loads(ds) /\ c.intro # "" /\ \A d \in ds : TopicKnown(d)
generate(c) ==
  LET ds == load(c)
      file(n) == CHOOSE d \in ds : d.name = n
  IN  [c EXCEPT !.dir = [n \in Names |-> IF n \in Live(c)
                                         THEN renderDecision(c.dir[n], file(n).meta)
                                         ELSE c.dir[n]],
                !.index = renderIndex(ds, c.intro),
                !.spec = renderSpec(c.spec, specGraph(ds))]

-----------------------------------------------------------------------------
(* The sweep over both directories *)

\* Mutant: a record that is listed is left alone.
ListedIsFrozen(c, t) ==
  IF \E line \in c.baseline : line[1] = idOf(t) THEN "frozen" ELSE "not-listed"

legacyVerdict(c, t) ==
  LET known == {line \in c.baseline : line[1] = idOf(t)}
  IN  IF known = {} THEN "not-listed"
      ELSE IF <<idOf(t), fingerprint(t)>> \in known THEN "frozen" ELSE "edited"

Required == {"schema", "id", "title", "topic", "status", "ruling", "claims", "revisit_if"}
Properties == Required \cup {"supersedes", "superseded_by", "amends_spec"}

\* Each entry of a list is a block of exactly the keys it needs.
EntryKeys == [claims |-> {"kind", "target"}, amends_spec |-> {"section", "scope"},
              supersedes |-> {""}]

Keys(meta) == DOMAIN meta.scalars \cup DOMAIN meta.lists
Missing(meta) == Required \ Keys(meta)
Unknown(meta) == Keys(meta) \ Properties
NoLists(meta) ==
  (DOMAIN meta.scalars \cap LISTS)
    \cup {k \in DOMAIN meta.lists \cap LISTS : meta.lists[k] = <<>>}
NoTexts(meta) == (DOMAIN meta.lists \cap Properties) \ LISTS
Misshapen(meta) ==
  {k \in DOMAIN meta.lists \cap LISTS :
     \E i \in DOMAIN meta.lists[k] : DOMAIN meta.lists[k][i] # EntryKeys[k]}
\* enum and pattern, which no value with a comment behind it keeps to.
Disallowed(meta) ==
  {k \in DOMAIN meta.scalars \cap {"status", "topic"} :
     \/ meta.scalars[k].note
     \/ meta.scalars[k].text \notin
          (IF k = "topic" THEN Topics ELSE {"active", "superseded", "withdrawn"})}
Unmatched(meta) ==
  {k \in DOMAIN meta.scalars \cap {"id", "superseded_by"} :
     meta.scalars[k].note \/ meta.scalars[k].text = ""}

\* validateAgainstSchema over decision-record.schema.json, the topics let in.
validateAgainstSchema(meta) ==
  {<<"missing required key", k>> : k \in Missing(meta)}
    \cup {<<"unknown key", k>> : k \in Unknown(meta)}
    \cup {<<"must be a list", k>> : k \in NoLists(meta)}
    \cup {<<"must be text", k>> : k \in NoTexts(meta)}
    \cup {<<"keys of an entry", k>> : k \in Misshapen(meta)}
    \cup {<<"not allowed", k>> : k \in Disallowed(meta)}
    \cup {<<"does not match", k>> : k \in Unmatched(meta)}

\* With the cap and the rule on lead-ins.
validateSchemaRecord(t) ==
  validateAgainstSchema(parseYaml(t.fm))
    \cup When(~t.fits, <<"over the cap, or a lead-in", "body">>)

\* meta?.schema !== 1: the number, so not "1".
SchemaIsOne(t) ==
  LET v == t.fm[Min(TopLines(t.fm, "schema"))].val IN v.text = "1" /\ ~v.quoted

V1(t) == hasSchemaKey(t) /\ parseYaml(t.fm).ok /\ SchemaIsOne(t)

\* What is wrong with one file, by itself and against the baseline.
FileProblems(c, t) ==
  IF ~hasSchemaKey(t)
  THEN {<<"legacy", legacyVerdict(c, t)>>} \ {<<"legacy", "frozen">>}
  ELSE IF ~parseYaml(t.fm).ok THEN {<<"frontmatter", "is not valid YAML">>}
  ELSE IF ~SchemaIsOne(t) THEN {<<"schema", "the only version is 1">>}
  ELSE validateSchemaRecord(t)

\* One id, one file, archive or not; and each file for itself.
Sweep(c) ==
  UNION {FileProblems(c, TextAt(c, f)) : f \in Files(c)}
    \cup {<<"id is already used", f>> :
            f \in {g \in Files(c) : /\ idOf(TextAt(c, g)) # ""
                                    /\ \E h \in Files(c) \ {g} :
                                         idOf(TextAt(c, h)) = idOf(TextAt(c, g))}}

seenIds(c) == {idOf(TextAt(c, f)) : f \in Files(c)} \ {""}

\* id -> where a rewritten record stands in the succession.
SaidIn(meta, k) == IF Says(meta, k) THEN meta.scalars[k].text ELSE ""
Standing(meta) ==
  [id |-> SaidIn(meta, "id"), status |-> SaidIn(meta, "status"),
   superseded_by |-> SaidIn(meta, "superseded_by"),
   supersedes |-> Texts(meta, "supersedes")]
standings(c) ==
  {Standing(parseYaml(TextAt(c, f).fm)) : f \in {g \in Files(c) : V1(TextAt(c, g))}}
rewritten(c) ==
  LET all == standings(c) IN [i \in {s.id : s \in all} |-> CHOOSE s \in all : s.id = i]

-----------------------------------------------------------------------------
(* check() beyond the sweep, in its order *)

\* Names load() passes over, names that do not say the id, sections that are not
\* there, topics nobody declared.
RecordProblems(c, ds) ==
  {<<"is not a recognized decision file", n>> : n \in {m \in Strays : c.dir[m] # Absent}}
    \cup {<<"filename does not start with its id", d.name>> :
             d \in {r \in ds : NameId[r.name] # IdIn(r)}}
    \cup {<<"no title", d.name>> : d \in {r \in ds : ~Says(r.meta, "title")}}
    \cup {<<"unknown topic", d.name>> : d \in {r \in ds : ~TopicKnown(r)}}
    \cup {<<"amends_spec", d.name>> :
             d \in {r \in ds :
                      \E i \in DOMAIN Amendments(r) :
                        LET a == Amendments(r)[i]
                        IN  \/ ValueOf(a, "section").text \notin DOMAIN specSections(c.spec)
                            \/ ScopeOf(a).text = ""}}

\* An archived record is not in the index and still exists.
archivedIds(c) == {idOf(c.arch[n]) : n \in {m \in Names \ Strays : c.arch[m] # Absent}} \ {""}

Resolvable(c, ds) == {IdIn(d) : d \in ds} \cup archivedIds(c)

\* Every id a file mentions, in its body or its frontmatter.
Mentions(t) ==
  t.cites \cup {t.fm[i].val.text : i \in IndexesOf(t.fm, {"bare"})}
          \cup UNION {{t.fm[i].flow[n] : n \in DOMAIN t.fm[i].flow} : i \in DOMAIN t.fm}
          \cup ({t.fm[i].val.text : i \in UNION {TopLines(t.fm, k) :
                                               k \in {"id", "superseded_by", "supersedes"}}} \ {""})

DanglingReferences(c, ds) ==
  {<<"has no decision file", r>> :
     r \in (UNION {Mentions(TextAt(c, f)) : f \in Files(c)}
              \cup {row[2] : row \in c.index.rows}) \ Resolvable(c, ds)}

\* What was not regenerated since it was declared.
Stale(c) ==
  LET now == generate(c)
  IN  When(c.index # now.index, <<"index is stale", "">>)
        \cup {<<"frontmatter is stale", n>> : n \in {m \in Live(c) : c.dir[m] # now.dir[m]}}
        \cup When(c.spec # now.spec, <<"amendments have not landed", "">>)

\* Failures before freshness is looked at; a load() that throws ends the list.
ContentProblems(c) ==
  LET swept == Sweep(c) \cup supersessionProblems(rewritten(c), seenIds(c))
      ds == load(c)
  IN  IF ~Loads(ds) THEN swept \cup {<<"load", "">>}
      ELSE swept \cup RecordProblems(c, ds) \cup DanglingReferences(c, ds)

check(c) == LET found == ContentProblems(c) IN IF found # {} THEN found ELSE Stale(c)

Green(c) == check(c) = {}
=============================================================================
