----------------------------- MODULE Vocabulary -----------------------------
(***************************************************************************)
(* The dictionary gate: scripts/check-dictionary.mjs, what it is told was  *)
(* there before it (gen-dictionary-baseline.mjs) and what it is compared   *)
(* with (gen-dictionary.mjs).                                              *)
(*                                                                         *)
(* Prose is the set of pairs of a file and an occurrence of a word in it,  *)
(* [what, n].  An entry of docs/dictionary.yml is              *)
(* [term, says, not, sound]: the words its definition uses, the alternates *)
(* it forbids, and whether it has its keys, all of them, no others, and no *)
(* more than 160 characters of definition.                                 *)
(***************************************************************************)
EXTENDS Naturals, FiniteSets

CONSTANTS
  Words,      \* what the documents say, acronyms among it
  Acronyms,   \* the words of rule 1's shape
  Lower,      \* the lower-case word each of them shouts
  Exempt,     \* record ids, families and file names: what excluded() passes
  ExemptThen  \* and what the baseline generator passed

ASSUME VocabularyAssumption ==
  /\ Acronyms \subseteq Words /\ Exempt \subseteq Acronyms /\ ExemptThen \subseteq Acronyms
  /\ DOMAIN Lower = Acronyms

Count(prose, f, w) == Cardinality({p \in prose : p[1] = f /\ p[2].what = w})
Said(prose) == {p[2].what : p \in prose}
FilesOf(prose) == {p[1] : p \in prose}

Terms(entries) == {e.term : e \in entries}

\* What loadDictionary() objects to.
loadErrors(entries) ==
  {<<"entry", e.term>> : e \in {d \in entries : ~d.sound}}
    \cup {<<"is registered twice", e.term>> :
            e \in {d \in entries : \E c \in entries \ {d} : c.term = d.term}}

\* The corpus on the day the gate was adopted.
baselineOf(prose, entries) ==
  LET terms == (Said(prose) \cap Acronyms) \ ExemptThen
      alts == UNION {e.not : e \in entries}
  IN  [terms |-> {t \in terms : Lower[t] \notin Said(prose)},
       shouted |-> {t \in terms : Lower[t] \in Said(prose)},
       alts |-> {[alt |-> a, file |-> f, n |-> Count(prose, f, a)] :
                   a \in alts, f \in FilesOf(prose)}]

NoBaseline == [terms |-> {}, shouted |-> {}, alts |-> {}]

\* Mutant: the exemption is read off the corpus as it is now.
ExcludedLive(t, baseline, prose) == t \in Exempt \/ Lower[t] \in Said(prose)
excluded(t, baseline, prose) == t \in Exempt \/ t \in baseline.shouted

\* Mutant: an alternate that was there is not looked for again.
AmnestyFor(baseline, a, f) == IF \E l \in baseline.alts : l.alt = a /\ l.n > 0 THEN 9 ELSE 0
Allowed(baseline, a, f) ==
  LET lines == {l \in baseline.alts : l.alt = a /\ l.file = f}
  IN  IF lines = {} THEN 0 ELSE (CHOOSE l \in lines : TRUE).n

\* Definitions, rule 2, rule 1, and whether DICTIONARY.md is the dictionary's.
dictionaryProblems(prose, entries, baseline, page) ==
  LET unregistered(t) == ~excluded(t, baseline, prose) /\ t \notin Terms(entries)
      objections == loadErrors(entries)
  IN  {<<"leans on", e.term>> :
         e \in {d \in entries : \E t \in d.says \cap Acronyms : unregistered(t)}}
        \cup {<<"is a forbidden alternate", f>> :
               f \in {g \in FilesOf(prose) : \E e \in entries : \E a \in e.not :
                        Count(prose, g, a) > Allowed(baseline, a, g)}}
        \cup {<<"is not registered", p[1]>> :
               p \in {q \in prose : /\ q[2].what \in Acronyms \ baseline.terms
                                    /\ unregistered(q[2].what)}}
        \cup objections
        \cup (IF objections = {} /\ page # entries THEN {<<"is stale", "DICTIONARY.md">>}
              ELSE {})
=============================================================================
