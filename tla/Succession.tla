----------------------------- MODULE Succession -----------------------------
(***************************************************************************)
(* supersessionProblems() of scripts/check-decisions.mjs: whether the two  *)
(* halves of every retirement agree, the record that names its successor   *)
(* and the successor that claims it.                                       *)
(*                                                                         *)
(* rw maps the id of every rewritten (schema v1) record to where it says   *)
(* it stands: its status, superseded_by ("" for none), and the set it      *)
(* supersedes.  seen holds every id on disk, so that seen without DOMAIN   *)
(* rw is the frozen records, of which nothing may be asked.                *)
(***************************************************************************)

selfPointing(rw) == {i \in DOMAIN rw : rw[i].superseded_by = i}

\* First loop: what a record says of its own retirement, and whether the record
\* it names knows of it.
NamesNoSuccessor(rw) ==
  {i \in DOMAIN rw \ selfPointing(rw) :
     rw[i].status = "superseded" /\ rw[i].superseded_by = ""}

\* Mutant: that the successor is itself the live record is not asked.
BadSuccessorAlive(rw) ==
  {i \in DOMAIN rw \ selfPointing(rw) :
     LET by == rw[i].superseded_by
     IN  /\ by # ""
         /\ \/ by \notin DOMAIN rw
            \/ i \notin rw[by].supersedes}

\* Mutant: a successor may have replaced one record and no more.
BadSuccessorOfMany(rw) ==
  {i \in DOMAIN rw \ selfPointing(rw) :
     LET by == rw[i].superseded_by
     IN  /\ by # ""
         /\ \/ by \notin DOMAIN rw
            \/ rw[by].status # "active"
            \/ rw[by].supersedes # {i}}

BadSuccessor(rw) ==
  {i \in DOMAIN rw \ selfPointing(rw) :
     LET by == rw[i].superseded_by
     IN  /\ by # ""
         /\ \/ by \notin DOMAIN rw
            \/ rw[by].status # "active"
            \/ i \notin rw[by].supersedes}

\* Who claims to have replaced what.
Claims(rw) == UNION {{<<i, b>> : b \in rw[i].supersedes} : i \in DOMAIN rw}

\* Second loop: what a record claims to have replaced.  A claim on a frozen
\* record stands; one on a record that names nobody has been reported already.
Unreturned(rw, seen, i, b) ==
  /\ i \notin selfPointing(rw) /\ b \notin selfPointing(rw)
  /\ b \notin DOMAIN rw => b \notin seen
  /\ b \in DOMAIN rw =>
       /\ b \notin NamesNoSuccessor(rw)
       /\ rw[b].status # "superseded" \/ rw[b].superseded_by # i

BadClaim(rw, seen) == {claim \in Claims(rw) : Unreturned(rw, seen, claim[1], claim[2])}

supersessionProblems(rw, seen) ==
  {<<"superseded_by itself", i>> : i \in selfPointing(rw)}
    \cup {<<"superseded, and by whom?", i>> : i \in NamesNoSuccessor(rw)}
    \cup {<<"superseded_by", i>> : i \in BadSuccessor(rw)}
    \cup {<<"supersedes", claim>> : claim \in BadClaim(rw, seen)}

-----------------------------------------------------------------------------
(* What the two loops are for, in one sentence per clause *)

\* A record is marked superseded exactly when it names a successor; the one it
\* names is live and claims it.
RetiredNamesLive(rw) ==
  \A i \in DOMAIN rw :
    /\ rw[i].status = "superseded" <=> rw[i].superseded_by # ""
    /\ rw[i].superseded_by # "" =>
         LET by == rw[i].superseded_by
         IN  /\ by \in DOMAIN rw
             /\ rw[by].status = "active"
             /\ i \in rw[by].supersedes

\* Whatever a record claims to replace exists; and if it can say so, it names
\* that record and no other.
ClaimsAreReturned(rw, seen) ==
  \A i \in DOMAIN rw : \A b \in rw[i].supersedes :
    IF b \in DOMAIN rw THEN rw[b].superseded_by = i ELSE b \in seen

Paired(rw, seen) == RetiredNamesLive(rw) /\ ClaimsAreReturned(rw, seen)

\* So a reader who lands on a retired record is one step from the live one: no
\* chains, no cycles, no second successor, and nothing that was retired goes on
\* claiming what it once replaced.
OneStepToLive(rw) ==
  \A i \in DOMAIN rw : rw[i].status = "superseded" =>
    /\ \E by \in DOMAIN rw :
         /\ rw[by].status = "active" /\ by # i
         /\ {j \in DOMAIN rw : i \in rw[j].supersedes} = {by}
         /\ rw[i].superseded_by = by
    /\ rw[i].supersedes \cap DOMAIN rw = {}
=============================================================================
