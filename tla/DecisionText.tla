---------------------------- MODULE DecisionText ----------------------------
(***************************************************************************)
(* How one decision record is read and written: the frontmatter as the     *)
(* gate reads it (scripts/lib/records.mjs and js-yaml), as the generator   *)
(* reads it (parseFrontmatter, scripts/gen-decisions-index.mjs), as the    *)
(* generator writes it (renderDecision), and the blocks it writes into     *)
(* the specification (renderSpec, stripSpecBlocks).                        *)
(*                                                                         *)
(* A file is a record: its frontmatter, a sequence of lines; whether it    *)
(* was saved with CRLF line ends; the ids its body cites; and whether it   *)
(* keeps the byte cap and the rule on bold lead-ins.  A line is one of the *)
(* shapes the generator's patterns tell apart:                             *)
(*    top     key: val          item   "  - key: val"                      *)
(*    nested  "    key: val"    bare   "  - val"                           *)
(* A value is its text, whether "# ..." follows it, and whether it stands  *)
(* in quotes; a key with a list in flow style, key: [a, b], carries the    *)
(* list as flow.                                                           *)
(***************************************************************************)
EXTENDS Naturals, Sequences, FiniteSets, SequencesExt

\* The keys whose value is a list (gen-decisions-index.mjs:90).
LISTS == {"amends_spec", "claims", "supersedes"}

(* Values and lines, as somebody types them *)
Plain(t) == [text |-> t, note |-> FALSE, quoted |-> FALSE]
Quote(v) == [v EXCEPT !.quoted = TRUE]
NoVal == Plain("")

Line(kind, key, val) == [kind |-> kind, key |-> key, val |-> val, flow |-> <<>>]
Top(key, val) == Line("top", key, val)
ListTop(key) == Line("top", key, NoVal)

\* What a reader takes a value for.  A quoted value is its text; a plain one
\* ends at the comment for YAML, and does not for the generator.
GenReads(v) == [text |-> v.text, note |-> v.note]
YamlReads(v) == [text |-> v.text, note |-> v.note /\ v.quoted]

-----------------------------------------------------------------------------
(* lib/records.mjs: both directories, any line ends *)

IndexesOf(ls, kinds) == {i \in DOMAIN ls : ls[i].kind \in kinds}
TopLines(ls, key) == {i \in IndexesOf(ls, {"top"}) : ls[i].key = key}

hasSchemaKey(t) == TopLines(t.fm, "schema") # {}
idOf(t) ==
  IF TopLines(t.fm, "id") = {} THEN "" ELSE t.fm[Min(TopLines(t.fm, "id"))].val.text

\* Two records have one fingerprint when they are the same, byte for byte.
fingerprint(t) == t

-----------------------------------------------------------------------------
(* Reading line by line: what is known after each line, from what was known *)
(* before it.                                                               *)

ReadLines(Step(_, _), start, ls) ==
  LET after[i \in 0 .. Len(ls)] == IF i = 0 THEN start ELSE Step(after[i - 1], ls[i])
  IN  after[Len(ls)]

\* ok: no line was of a shape that makes the reader throw; open: the list an item
\* falls to, entry: the list whose last entry a nested line adds to, "" for none.
Nothing == [x \in {} |-> <<>>]
Unread == [scalars |-> Nothing, lists |-> Nothing, open |-> "", entry |-> "", ok |-> TRUE]

SetKey(f, k, v) == [x \in DOMAIN f \cup {k} |-> IF x = k THEN v ELSE f[x]]
Pushed(f, k, e) == [f EXCEPT ![k] = Append(@, e)]
OpenedIn(f, k) == IF k \in DOMAIN f THEN f ELSE SetKey(f, k, <<>>)

Item(acc, e, entry) ==
  IF acc.open = "" THEN [acc EXCEPT !.ok = FALSE]
  ELSE [acc EXCEPT !.lists = Pushed(@, acc.open, e), !.entry = entry]
Nested(acc, k, v) ==
  IF acc.entry = "" THEN [acc EXCEPT !.ok = FALSE]
  ELSE [acc EXCEPT !.lists[acc.entry][Len(acc.lists[acc.entry])] = SetKey(@, k, v)]

\* Mutant: a key that is no list leaves the last list open.
NeverClosed(acc, key) == IF key \in LISTS THEN key ELSE acc.open

\* Which list is open after a key: a key of LISTS opens its own, any other closes it.
OpenAfter(acc, key) == IF key \in LISTS THEN key ELSE ""

\* meta: the last value of every key, and the entries of every list.  The value
\* on a list's own line is not looked at.
GenLine(acc, l) ==
  CASE l.kind = "item" -> Item(acc, SetKey(Nothing, l.key, GenReads(l.val)), acc.open)
    [] l.kind = "nested" -> Nested(acc, l.key, GenReads(l.val))
    [] l.kind = "bare" -> Item(acc, SetKey(Nothing, "", GenReads(l.val)), "")
    [] l.kind = "top" /\ l.key \in LISTS ->
         [acc EXCEPT !.open = OpenAfter(acc, l.key), !.lists = OpenedIn(@, l.key),
                     !.entry = ""]
    [] l.kind = "top" /\ l.key \notin LISTS ->
         [acc EXCEPT !.open = OpenAfter(acc, l.key),
                     !.scalars = SetKey(@, l.key, GenReads(l.val))]

parseFrontmatter(ls) == ReadLines(GenLine, Unread, ls)

-----------------------------------------------------------------------------
(* js-yaml: what the gate takes the same lines for.  A key may not come     *)
(* twice; a key that says something has no items; what is nested belongs to *)
(* the item right above.                                                    *)

BareEntry(id) == SetKey(Nothing, "", [text |-> id, note |-> FALSE])

YamlLine(acc, l) ==
  CASE l.kind = "item" -> Item(acc, SetKey(Nothing, l.key, YamlReads(l.val)), acc.open)
    [] l.kind = "nested" -> Nested(acc, l.key, YamlReads(l.val))
    [] l.kind = "bare" -> Item(acc, SetKey(Nothing, "", YamlReads(l.val)), "")
    [] l.kind = "top" ->
         LET list == l.val = NoVal
         IN  [acc EXCEPT !.ok = @ /\ l.key \notin DOMAIN acc.scalars \cup DOMAIN acc.lists,
                         !.open = IF list /\ l.flow = <<>> THEN l.key ELSE "",
                         !.entry = "",
                         !.lists = IF ~list THEN @
                                   ELSE SetKey(@, l.key, [n \in DOMAIN l.flow |->
                                                            BareEntry(l.flow[n])]),
                         !.scalars = IF list THEN @ ELSE SetKey(@, l.key, YamlReads(l.val))]

parseYaml(ls) == ReadLines(YamlLine, Unread, ls)

-----------------------------------------------------------------------------
(* renderDecision.  A record's date, and the note a claim may carry, are written *)
(* as its status and the claim's kind are, and stand with them.                  *)

Says(meta, k) == k \in DOMAIN meta.scalars
ListOf(meta, k) == IF k \in DOMAIN meta.lists THEN meta.lists[k] ELSE <<>>
Texts(meta, k) == {ListOf(meta, k)[n][""].text : n \in DOMAIN ListOf(meta, k)}

\* A value as the generator writes it back: bare, or through quote().
Bare(v) == [text |-> v.text, note |-> v.note, quoted |-> FALSE]
Quoted(v) == Quote(Bare(v))
Undefined == [text |-> "undefined", note |-> FALSE]
ValueOf(f, k) == IF k \in DOMAIN f THEN f[k] ELSE Undefined

\* One line for a key that is always written, none for one left out.
Always(meta, k, Write(_)) == <<Top(k, Write(ValueOf(meta.scalars, k)))>>
IfSaid(meta, k, Write(_)) ==
  IF Says(meta, k) THEN <<Top(k, Write(meta.scalars[k]))>> ELSE <<>>

Block(meta, k, Lines(_)) ==
  IF ListOf(meta, k) = <<>> THEN <<>>
  ELSE <<ListTop(k)>> \o FlattenSeq([n \in DOMAIN ListOf(meta, k) |-> Lines(ListOf(meta, k)[n])])

ClaimLines(c) == <<Line("item", "kind", Quoted(ValueOf(c, "kind"))),
                   Line("nested", "target", Quoted(ValueOf(c, "target")))>>
BareLines(s) == <<Line("bare", "", Bare(s[""]))>>
\* A scope left out is written as an empty one.
ScopeOf(a) == IF "scope" \in DOMAIN a THEN a["scope"] ELSE [text |-> "", note |-> FALSE]
AmendLines(a) == <<Line("item", "section", Quoted(ValueOf(a, "section"))),
                   Line("nested", "scope", Quoted(ScopeOf(a)))>>

\* String(d.schema).trim() === '1'
IsV1(meta) == Says(meta, "schema") /\ meta.scalars["schema"] = [text |-> "1", note |-> FALSE]

renderDecision(t, meta) ==
  LET v1 == IsV1(meta)
      when(b, lines) == IF b THEN lines ELSE <<>>
  IN  [t EXCEPT !.fm =
         when(v1, <<Top("schema", Plain("1"))>>)
           \o Always(meta, "id", Bare) \o Always(meta, "title", Quoted)
           \o Always(meta, "topic", Quoted)
           \o when(v1, Always(meta, "status", Quoted) \o Always(meta, "ruling", Quoted)
                         \o Block(meta, "claims", ClaimLines)
                         \o Block(meta, "supersedes", BareLines)
                         \o IfSaid(meta, "superseded_by", Bare)
                         \o IfSaid(meta, "revisit_if", Quoted))
           \o Block(meta, "amends_spec", AmendLines)]

-----------------------------------------------------------------------------
(* The specification: headings, prose, and the generated blocks.  A line is *)
(* <<kind, what it says>>, with "" for the lines that say nothing.          *)

SPEC_OPEN == <<"open", "">>
SPEC_CLOSE == <<"close", "">>
Blank == <<"blank", "">>

\* The line a numbered section starts at: its first heading.
specSections(spec) ==
  [s \in {spec[i][2] : i \in {j \in DOMAIN spec : spec[j][1] = "heading"}} |->
     Min({i \in DOMAIN spec : spec[i] = <<"heading", s>>})]

\* Mutant: only the first block of the file is taken out.
StripFirst(spec) ==
  LET step(acc, line) ==
        IF line = SPEC_OPEN /\ ~acc.found
        THEN [out |-> IF acc.out # <<>> /\ Last(acc.out) = Blank THEN Front(acc.out)
                      ELSE acc.out,
              skipping |-> TRUE, found |-> TRUE]
        ELSE IF acc.skipping THEN [acc EXCEPT !.skipping = line # SPEC_CLOSE]
        ELSE [acc EXCEPT !.out = Append(@, line)]
  IN  ReadLines(step, [out |-> <<>>, skipping |-> FALSE, found |-> FALSE], spec).out

\* What is left so far, and whether a block is being skipped.
StripLine(acc, line) ==
  IF line = SPEC_OPEN
  THEN [out |-> IF acc.out # <<>> /\ Last(acc.out) = Blank THEN Front(acc.out) ELSE acc.out,
        skipping |-> TRUE]
  ELSE IF acc.skipping THEN [acc EXCEPT !.skipping = line # SPEC_CLOSE]
  ELSE [acc EXCEPT !.out = Append(@, line)]

stripSpecBlocks(spec) == ReadLines(StripLine, [out |-> <<>>, skipping |-> FALSE], spec).out

\* One line per record that amends the section, between the two markers.
specBanner(edges) == <<SPEC_OPEN>> \o edges \o <<SPEC_CLOSE>>

\* incoming: section -> the lines its block holds.  A section that does not
\* exist is passed over.
renderSpec(spec, incoming) ==
  LET base == stripSpecBlocks(spec)
      sections == specSections(base)
      block(i) == {s \in DOMAIN incoming \cap DOMAIN sections : sections[s] = i}
      lines(i) == <<base[i]>>
                    \o IF block(i) = {} THEN <<>>
                       ELSE <<Blank>> \o specBanner(incoming[CHOOSE s \in block(i) : TRUE])
  IN  FlattenSeq([i \in DOMAIN base |-> lines(i)])
=============================================================================
