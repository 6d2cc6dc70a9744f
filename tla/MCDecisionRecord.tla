-------------------------- MODULE MCDecisionRecord --------------------------
(* Two decisions from the monolith, one citing the other, and three ids to   *)
(* come, one of them taken under two names; the first of the three is written already. *)
EXTENDS DecisionRecord

MCNames == {"1.md", "2.md", "3.md", "4.md", "5.md", "stray.md"}
MCNameId == [n \in MCNames |->
  CASE n = "1.md" -> "D1" [] n = "2.md" -> "D2" [] n = "3.md" -> "D3"
    [] n = "5.md" -> "D5" [] OTHER -> "D4"]
MCStrays == {"stray.md"}
MCTopics == {"topic"}
MCMonolith == {[name |-> "1.md", id |-> "D1", cites |-> {}],
               [name |-> "2.md", id |-> "D2", cites |-> {"D1"}]}
MCProse == <<<<"heading", "1">>, <<"blank", "">>, <<"prose", "a">>,
             <<"heading", "2">>, <<"blank", "">>, <<"prose", "b">>>>

Draft(name, id, supersedes, amends, cites) ==
  [name |-> name, id |-> id, topic |-> "topic", supersedes |-> supersedes,
   amends |-> amends, cites |-> cites, fits |-> TRUE, slip |-> "none"]
MCEarlier == {Draft("3.md", "D3", {"D2"}, {"1"}, {"D1"})}
Plain4 == Draft("4.md", "D4", {}, {"1"}, {"D1"})
MCDrafts ==
  {Plain4,
   Draft("5.md", "D5", {"D3"}, {"2"}, {}),
   [Draft("5.md", "D5", {"D3"}, {}, {}) EXCEPT !.slip = "dashless"],
   Draft("stray.md", "D4", {}, {}, {})}
    \cup {[Plain4 EXCEPT !.slip = s] :
             s \in {"schemaless", "untitled", "noted", "miskeyed", "scopeless", "crlf"}}
\* The convention as check-decisions.mjs:295 writes it: supersedes: [D3].
MCFlowDrafts == {[Draft("5.md", "D5", {"D3"}, {}, {}) EXCEPT !.slip = "flow"]}
=============================================================================
