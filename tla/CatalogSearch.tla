------------------------------ MODULE CatalogSearch ------------------------------
(***************************************************************************)
(* Search and Suggest (catalog.go).  Text is not modelled: an entry says   *)
(* which of its fields each term of a query is, or is a part of.           *)
(***************************************************************************)
EXTENDS SequencesExt

\* How a term meets an entry, and what that is worth (scoreCatalogEntry)
Weights ==
    [name |-> 120, in_name |-> 80, display |-> 70, in_display |-> 55, keyword |-> 65,
     in_keyword |-> 45, in_description |-> 35, in_prompt |-> 20]

\* scoreCatalogEntry, one term: name and display name exclude each other, and
\* what follows replaces a lower score.
TermScore(hits) ==
    LET Base == IF "name" \in hits THEN 120
                ELSE IF "in_name" \in hits THEN 80
                ELSE IF "display" \in hits THEN 70
                ELSE IF "in_display" \in hits THEN 55 ELSE 0
        Raise(best, how) == IF how \in hits /\ best < Weights[how] THEN Weights[how]
                            ELSE best
    IN  FoldLeft(Raise, Base, <<"keyword", "in_keyword", "in_description", "in_prompt">>)

\* Faulty: a term that meets nothing counts for nothing.
ScoreOfAny(entry, query) ==
    FoldLeft(LAMBDA total, term : total + TermScore(entry.meets[term]), 0, query)

\* scoreCatalogEntry: every term must meet the entry.
Score(entry, query) ==
    IF \E i \in DOMAIN query : TermScore(entry.meets[query[i]]) = 0 THEN 0
    ELSE FoldLeft(LAMBDA total, term : total + TermScore(entry.meets[term]), 0, query)

\* The order Search sorts by: better score first, then the name.  Rank stands
\* for the order of names.
Before(a, b, query, Rank) ==
    LET sa == Score(a, query)
        sb == Score(b, query)
    IN  sa > sb \/ (sa = sb /\ Rank[a.name] < Rank[b.name])

\* Search: the sequences sort.Slice, which is not stable, may return
Searches(catalog, query, Rank) ==
    LET hits == {i \in DOMAIN catalog.entries :
                    /\ catalog.entries[i].role = "entry"
                    /\ Score(catalog.entries[i], query) > 0}
    IN  {[j \in DOMAIN s |-> catalog.entries[s[j]]] : s \in
           {s \in SetToSeqs(hits) : \A j, k \in DOMAIN s : j < k =>
               ~Before(catalog.entries[s[k]], catalog.entries[s[j]], query, Rank)}}

\* Suggest, of what Search returned: the compatible ones, until there are enough
Suggest(matches, compatible, limit) ==
    LET most == IF limit \in 1 .. 3 THEN limit ELSE 3
        Take(result, entry) ==
            IF entry.name \in compatible /\ Len(result) < most
            THEN Append(result, entry) ELSE result
    IN  FoldLeft(Take, << >>, matches)
=============================================================================
