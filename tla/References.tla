----------------------------- MODULE References -----------------------------
(***************************************************************************)
(* When something a document points at is there: the section a citation    *)
(* names (sectionMatches) and the path it names (resolves), of             *)
(* scripts/check-context.mjs.  check-docs.mjs runs the same two.           *)
(*                                                                         *)
(* A heading and a citation are sequences of words, as words() gives them. *)
(***************************************************************************)
EXTENDS Naturals, Sequences, FiniteSets, SequencesExt

\* A dash or a plus standing alone.
Separators == {"-", "+"}

\* The words before the first separator; <<>> where there is none, or nothing
\* before it, which the code calls null.
sectionName(ws) ==
  LET seps == {i \in DOMAIN ws : ws[i] \in Separators}
  IN  IF seps = {} THEN <<>> ELSE SubSeq(ws, 1, Min(seps) - 1)

Hit(a, b) == IsPrefix(a, b) \/ IsPrefix(b, a)

\* Some heading begins the citation, or the citation begins it; or both go on after
\* a separator, and that holds of their names.
sectionMatches(cited, headings) ==
  /\ cited # <<>>
  /\ \E h \in headings :
       /\ h # <<>>
       /\ \/ Hit(cited, h)
          \/ /\ sectionName(cited) # <<>> /\ sectionName(h) # <<>>
             /\ Hit(sectionName(cited), sectionName(h))

-----------------------------------------------------------------------------
(* git check-ignore.  A path is a sequence of names.  A pattern is          *)
(* [path, dirOnly, negated]; tracked is the sequence of those in the        *)
(* .gitignore files the repository carries, local of those in               *)
(* .git/info/exclude or the machine's own file, to which the tracked ones   *)
(* are preferred.  Of two in one file the later decides, and nothing below  *)
(* a directory that is ignored is looked at again.                          *)

LastCovering(ps, path, asDir) ==
  LET hits == {i \in DOMAIN ps : ps[i].path = path /\ (ps[i].dirOnly => asDir)}
  IN  IF hits = {} THEN 0 ELSE Max(hits)

Deciding(tracked, local, path, asDir) ==
  LET t == LastCovering(tracked, path, asDir)
      l == LastCovering(local, path, asDir)
  IN  IF t # 0 THEN [source |-> "tracked", ignored |-> ~tracked[t].negated]
      ELSE IF l # 0 THEN [source |-> "local", ignored |-> ~local[l].negated]
      ELSE [source |-> "none", ignored |-> FALSE]

checkIgnore(tracked, local, path, asDir) ==
  LET at(k) == Deciding(tracked, local, SubSeq(path, 1, k), k < Len(path) \/ asDir)
      above == {k \in 1 .. Len(path) - 1 : at(k).ignored}
  IN  IF above # {} THEN at(Min(above)) ELSE at(Len(path))

-----------------------------------------------------------------------------
(* gitIgnores: asked of the path as a file, and again as a directory *)

\* Mutant: whichever file decided is believed.
AnySource(answer) == answer.source # "none"
committedIgnoreFile(answer) == answer.source = "tracked"

gitIgnores(tracked, local, path) ==
  \E asDir \in BOOLEAN :
    LET answer == checkIgnore(tracked, local, path, asDir)
    IN  answer.ignored /\ committedIgnoreFile(answer)

\* A pattern is matched against the disk; a path is on disk, or git ignores it.
resolvesPath(disk, tracked, local, path) == path \in disk \/ gitIgnores(tracked, local, path)
resolvesGlob(disk, matched) == matched \cap disk # {}
=============================================================================
