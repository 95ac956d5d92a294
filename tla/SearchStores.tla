---------------------------- MODULE SearchStores ----------------------------
(***************************************************************************)
(* The two stores of the search index, asked the same things: what a term  *)
(* finds, which terms found nothing, and which searches go on to the       *)
(* document platform.  Text is a sequence of letters; a blank is one, and  *)
(* so is the line break that both stores join lists with.                  *)
(***************************************************************************)
EXTENDS Integers, Sequences, FiniteSets, FiniteSetsExt, Functions, Positions

CONSTANTS
    Projects,     \* projects, as text
    Ids,        \* asset ids, as text
    Named,      \* what an asset may be called
    AliasLists, \* the aliases it may have
    Proposed,   \* aliases a model may suggest
    Asked,      \* what people search for
    LowerOf,    \* [letter -> letter]
    MaxMisses   \* bound: searches that find nothing

Blank == "_"
Break == "|"

Letters == DOMAIN LowerOf
Texts == Seq(Letters)

ASSUME StoresAssumption ==
    /\ LowerOf \in [Letters -> Letters] /\ {Blank, Break} \subseteq Letters
    /\ Ids \cup Named \cup Proposed \cup Asked \subseteq Texts
    /\ \A list \in AliasLists : list \in Seq(Texts)
    /\ MaxMisses \in Nat

VARIABLES
    given,      \* [<<scope, id>> -> [name, aliases]], of those upserted
    rows,       \* the same as it is stored
    proposed,   \* <<scope, id, alias>>: suggestions that wait
    lines,      \* the query log beside the SQLite index
    table,      \* PostgreSQL's search_misses: [<<scope, key>> -> [term, count]]
    missed      \* <<scope, term>>: the searches that found nothing, in order

storeVars == <<given, rows, proposed, lines, table, missed>>

-----------------------------------------------------------------------------
Lower(text) == [i \in DOMAIN text |-> LowerOf[text[i]]]

Begins(text, part) == Len(part) <= Len(text) /\ \A k \in DOMAIN part : text[k] = part[k]

Within(text, part) ==
    \E i \in 0..(Len(text) - Len(part)) : \A k \in DOMAIN part : text[i + k] = part[k]

\* What is between two places.
Between(text, i, j) == [k \in 1..(j - i - 1) |-> text[i + k]]

\* str.strip
Strip(text) ==
    LET solid == {i \in DOMAIN text : text[i] \notin {Blank, Break}}
    IN  IF solid = {} THEN <<>> ELSE Between(text, Min(solid) - 1, Max(solid) + 1)

Wanted(term) == Lower(Strip(term))

\* joined: the first two, and then that with the others.
Joined[values \in Seq(Texts)] ==
    IF values = <<>> THEN <<>>
    ELSE IF Len(values) = 1 THEN values[1]
    ELSE Joined[<<values[1] \o <<Break>> \o values[2]>> \o Tail(Tail(values))]

\* str.split on the break: the places where it is cut, its ends included.
Cuts(text) == {0, Len(text) + 1} \cup {i \in DOMAIN text : text[i] = Break}
Cut(text, k) == CHOOSE i \in Cuts(text) : Place(Cuts(text), i) = k
Split(text) ==
    [k \in 1..(Cardinality(Cuts(text)) - 1) |-> Between(text, Cut(text, k), Cut(text, k + 1))]

\* unjoined
Unjoined(text) == IF text = <<>> THEN <<>> ELSE Split(text)

-----------------------------------------------------------------------------
(* What a term finds. *)

\* match_kind: the first pass that hits.  Nothing ever fills the tags and the
\* description of a row, which two further passes look at.
MatchKind(id, entry, term, suggested) ==
    LET among(values) == \E v \in values : Wanted(v) = Wanted(term)
    IN  IF Wanted(term) = <<>> THEN "none"
        ELSE IF Lower(id) = Wanted(term) THEN "exact id"
        ELSE IF Begins(Lower(entry.name), Wanted(term)) THEN "name prefix"
        ELSE IF among(Range(entry.aliases)) THEN "alias"
        ELSE IF among(suggested) THEN "suggested alias"
        ELSE "none"

\* pending_suggestions: of an id, whatever its project when none is asked for.
Suggested(scope, id) == {s[3] : s \in {x \in proposed : x[2] = id /\ scope \in {<<>>, x[1]}}}

\* rank
Rank(entries, scope, term) ==
    LET Kind(key) == MatchKind(key[2], entries[key], term, Suggested(scope, key[2]))
    IN  {[key |-> k, kind |-> Kind(k)] : k \in {x \in DOMAIN entries : Kind(x) # "none"}}

\* _scope: `<<>>` is no project in particular.
Scoped(entries, scope) ==
    [k \in {x \in DOMAIN entries : scope \in {<<>>, x[1]}} |-> entries[k]]

\* _entry
Entry(row) == [name |-> row.name, aliases |-> Unjoined(row.aliases)]

\* searchable_text
Searchable(key, row) == Lower(key[2] \o <<Break>> \o row.name \o <<Break>> \o row.aliases)

\* Mutant of Candidates: nothing is fetched for the suggestions' sake.
CandidatesTextual(scope, term, matching) ==
    {k \in DOMAIN Scoped(rows, scope) : k \in matching \/ Within(Searchable(k, rows[k]), Wanted(term))}

\* _candidates: what the engine's own text search matches, whatever that is, what
\* contains the term, and what the suggestions name.
Candidates(scope, term, matching) ==
    {k \in DOMAIN Scoped(rows, scope) :
        \/ k \in matching
        \/ Within(Searchable(k, rows[k]), Wanted(term))
        \/ \E v \in Suggested(scope, k[2]) : Wanted(v) = Wanted(term)}

Search(scope, term, matching) ==
    IF Strip(term) = <<>> THEN {}
    ELSE Rank([k \in Candidates(scope, term, matching) |-> Entry(rows[k])], scope, term)

\* Mutant of Resolving: a search is only over at an asset's own name.
ResolvingByName == {"exact id", "name prefix"}

Resolving == {"exact id", "name prefix", "alias"}

\* is_prose: three words.  (No term of three words is shaped like an identifier.)
Prose(term) == Cardinality({i \in 1..(Len(Strip(term)) - 1) :
                               Strip(term)[i] \in {Blank, Break}
                               /\ Strip(term)[i + 1] \notin {Blank, Break}}) >= 2

\* should_delegate
Delegates(term, hits) == Prose(term) /\ ~\E h \in hits : h.kind \in Resolving

-----------------------------------------------------------------------------
(* What was asked in vain. *)

\* Mutant of TermKey: terms are counted as they were typed.
TermKeyTyped(term) == term

TermKey(term) == Wanted(term)

\* SqliteSearchIndex.record_miss: a line, and as many more as the term breaks into.
LinesOf(scope, term) ==
    LET parts == Split(term)
    IN  [i \in DOMAIN parts |-> IF i = 1 THEN [scope |-> scope, term |-> parts[i]]
                                ELSE [scope |-> parts[i], term |-> <<>>]]

\* _logged, misses: by the key, under the first spelling; blank lines are nothing.
SqliteMisses ==
    LET logged == {i \in DOMAIN lines : Strip(lines[i].scope \o lines[i].term) # <<>>}
        Alike(i) == {j \in logged : /\ lines[j].scope = lines[i].scope
                                    /\ Wanted(lines[j].term) = Wanted(lines[i].term)}
    IN  {[scope |-> lines[i].scope, term |-> lines[Min(Alike(i))].term,
          count |-> Cardinality(Alike(i))] : i \in logged}

\* PostgresSearchIndex.record_miss
Counted(scope, term) ==
    LET key == <<scope, TermKey(term)>>
    IN  [k \in DOMAIN table \cup {key} |->
            IF k # key THEN table[k]
            ELSE IF key \in DOMAIN table THEN [table[k] EXCEPT !.count = @ + 1]
            ELSE [term |-> term, count |-> 1]]

PostgresMisses == {[scope |-> k[1], term |-> table[k].term, count |-> table[k].count] :
                      k \in DOMAIN table}

\* search_assets
SearchAssets(scope, term) ==
    /\ Search(scope, term, {}) = {} /\ Len(missed) < MaxMisses
    /\ lines' = lines \o LinesOf(scope, term)
    /\ table' = Counted(scope, term)
    /\ missed' = Append(missed, [scope |-> scope, term |-> term])
    /\ UNCHANGED <<given, rows, proposed>>

-----------------------------------------------------------------------------
Upsert(key, entry) ==
    /\ given' = [k \in DOMAIN given \cup {key} |-> IF k = key THEN entry ELSE given[k]]
    /\ rows' = [k \in DOMAIN rows \cup {key} |->
                   IF k = key THEN [name |-> entry.name, aliases |-> Joined[entry.aliases]]
                   ELSE rows[k]]
    /\ UNCHANGED <<proposed, lines, table, missed>>

Forget(key) ==
    /\ key \in DOMAIN rows
    /\ given' = [k \in DOMAIN given \ {key} |-> given[k]]
    /\ rows' = [k \in DOMAIN rows \ {key} |-> rows[k]]
    /\ UNCHANGED <<proposed, lines, table, missed>>

Propose(key, alias) ==
    /\ proposed' = proposed \cup {<<key[1], key[2], alias>>}
    /\ UNCHANGED <<given, rows, lines, table, missed>>

StoresInit ==
    /\ given = <<>> /\ rows = <<>> /\ proposed = {}
    /\ lines = <<>> /\ table = <<>> /\ missed = <<>>

StoresNext ==
    \/ \E key \in Projects \X Ids :
          \/ \E name \in Named, aliases \in AliasLists : Upsert(key, [name |-> name, aliases |-> aliases])
          \/ Forget(key)
          \/ \E alias \in Proposed : Propose(key, alias)
    \/ \E scope \in Projects \cup {<<>>}, term \in Asked : SearchAssets(scope, term)

StoresSpec == StoresInit /\ [][StoresNext]_storeVars

-----------------------------------------------------------------------------
Unbroken(text) == Break \notin Range(text)

\* A search answers what ranking every row of its scope would, whatever the engine's
\* own text search finds or misses: as the rows were given, when no alias of theirs
\* has a line break in it.
NarrowingLosesNothing ==
    (\A k \in DOMAIN given : \A i \in DOMAIN given[k].aliases : Unbroken(given[k].aliases[i])) =>
        \A scope \in Projects \cup {<<>>}, term \in Asked :
            \A matching \in {{}, DOMAIN rows} :
                Search(scope, term, matching) = Rank(Scoped(given, scope), scope, term)

\* Nothing that an asset's id, name or alias answers leaves the house: a term goes
\* to the document platform only when no such asset was given, in any spelling.
WhatResolvesStaysHere ==
    \A scope \in Projects \cup {<<>>}, term \in Asked :
        Delegates(term, Search(scope, term, {})) =>
            \A k \in DOMAIN Scoped(given, scope) :
                /\ Lower(k[2]) # Wanted(term) /\ ~Begins(Lower(given[k].name), Wanted(term))
                /\ \A i \in DOMAIN given[k].aliases :
                      Wanted(given[k].aliases[i]) # Wanted(term) \/ ~Unbroken(given[k].aliases[i])

\* Both stores tell of the same misses, each as often as it happened and as it was
\* first typed, as long as no term has a line break in it and none was blank, asked
\* of no project.
StoresAgree ==
    (\A i \in DOMAIN missed : /\ Unbroken(missed[i].term)
                              /\ Strip(missed[i].scope \o missed[i].term) # <<>>) =>
        SqliteMisses = PostgresMisses

\* Two stores answer alike, lose nothing they hold and send nothing away that
\* they can resolve.
StoresAnswerAlike ==
    /\ NarrowingLosesNothing
    /\ WhatResolvesStaysHere
    /\ StoresAgree

=============================================================================
