------------------------------ MODULE Retrieval ------------------------------
(***************************************************************************)
(* What is searched, and how.  First what a search asks of a text          *)
(* (core/retrieval_query.py), for the pages of the reference pack and the  *)
(* documents of the workspace alike: a word is a term of the vocabulary or *)
(* of the text, and all spellings of a concept are one word.               *)
(*                                                                         *)
(* Reading is the index of a release of the shared reference pack          *)
(* (ReferenceIndex in core/reference_library.py): built from the pages or  *)
(* read back from a snapshot, and searched.  A line of a page stands for its*)
(* words; of the score it is kept that more words, anchors and headings    *)
(* count for more, and a table of contents for less.                       *)
(*                                                                         *)
(* Ranking is the search of the workspace's documents (search() and rank() *)
(* in core/rag.py): a branch of words and one of vectors, which may fail or*)
(* be narrowed by an external index, joined by their places and reranked by*)
(* evidence.  Scores are in millionths.                                    *)
(***************************************************************************)
EXTENDS Integers, FiniteSetsExt, SequencesExt

CONSTANTS
  Concepts,     \* words of the vocabulary
  Strict,       \* those of them that name a thing
  Acronyms,     \* words the asker wrote in capitals
  Identifiers,  \* words with a letter and a digit
  Packs,        \* of each document: [active, pages], a page being its lines
  Histories,    \* conversations before the question
  Queries,
  Limits,
  WordsOf,      \* of each line
  KeyOf,        \* of each line: without its blanks, digits all alike
  Short,        \* lines of less than eight characters
  Headings,     \* numbered headings
  Dotted,       \* entries of a table of contents
  AtLeast,      \* pages a footer is on
  Cut,          \* rows that are looked at more closely
  Texts,        \* the pieces of documents: [words, similar, phrase, intact]
  Rows,         \* their identifiers, in the order of the documents
  Questions,    \* sets of words
  Ahead,        \* better pieces beside those of the instance: [words, vectors]
  Depth,        \* places of a branch that count
  TopK,
  None

VARIABLES
  pack,
  saved,     \* the snapshot, or None
  index,     \* [docs, rows, postings, lengths], or None
  found,     \* [wanted, contents, limit, hits], or None
  text,      \* of each row
  question,  \* [wanted, ahead]
  vector,    \* of the question: "awaited", "there" or "failed"
  compared,  \* rows whose vectors are compared
  sources    \* what is found, best first, or None

reading == <<pack, saved, index, found>>
ranking == <<text, question, vector, compared, sources>>

ReadingInit ==
  /\ pack \in Packs
  /\ saved = None /\ index = None /\ found = None

RankingInit ==
  /\ text \in [Rows -> Texts]
  /\ question \in [wanted : Questions, ahead : Ahead]
  /\ vector = "awaited"
  /\ compared = Rows
  /\ sources = None
-----------------------------------------------------------------------------
(* The query.                                                              *)
\* A query: the words asked for, whether it goes on from an earlier one
\* ("then ..."), and whether it does with a pronoun.
Query(words, follows, pronoun) ==
  [words |-> words, follows |-> follows, pronoun |-> pronoun]

Anchors(wanted) == wanted \cap (Concepts \cup Acronyms)

Required(wanted) == wanted \cap (Strict \cup Acronyms)

\* Mutant: a name or an identifier counts as any other word does.
Covered(wanted, actual) ==
  LET hits == wanted \cap actual
  IN  /\ hits # {}
      /\ 100 * Cardinality(hits) >= 45 * Cardinality(wanted)
      /\ Cardinality(wanted) >= 3 => Cardinality(hits) >= 2

\* evidence_match(), of a text that could be decoded.
Accepted(wanted, actual) ==
  /\ wanted # {}
  /\ wanted \cap Identifiers \subseteq actual
  /\ IF Required(wanted) # {}
     THEN Required(wanted) \cap actual # {}
     ELSE Covered(wanted, actual)

\* Hits to words asked for, in hundredths.
Coverage(wanted, actual) ==
  (100 * Cardinality(wanted \cap actual)) \div Cardinality(wanted)

\* Mutant: what the assistant said is a topic as well.
AnyRole == {"user", "assistant"}

Asker == {"user"}

\* The last of the eight messages before this one that is the asker's, and no
\* "and then?" itself.
Prior(history) ==
  LET topics == {i \in DOMAIN history :
                   /\ i > Len(history) - 8
                   /\ history[i].role \in Asker
                   /\ ~history[i].query.follows
                   /\ history[i].query.words # {}}
  IN  IF topics = {} THEN {} ELSE history[Max(topics)].query.words

\* resolve_followup(): a question that names what it is about stands alone.
Resolved(query, history) ==
  IF /\ query.follows
     /\ query.pronoun \/ Required(query.words) \cup (query.words \cap Identifiers) = {}
  THEN query.words \cup Prior(history)
  ELSE query.words
-----------------------------------------------------------------------------
(* The index of a pack.                                                    *)
Tail2(page) == {i \in DOMAIN page : i > Len(page) - 2}

\* Mutant: every line of a page may be its footer.
WholePage(page) == DOMAIN page

FooterLines(page) == Tail2(page)

TailKeys(page) == {KeyOf[page[i]] : i \in {j \in Tail2(page) : page[j] \notin Short}}

\* On a quarter of the pages, and on three at least.
Repeated(pages) ==
  {k \in Range(KeyOf) :
     LET on == Cardinality({p \in DOMAIN pages : k \in TailKeys(pages[p])})
     IN  on >= AtLeast /\ 4 * on >= Len(pages)}

\* The lines of a page that are searched, by their places.
Kept(pages, p) ==
  {i \in DOMAIN pages[p] :
     ~(i \in FooterLines(pages[p]) /\ KeyOf[pages[p][i]] \in Repeated(pages))}

IsContents(page) == Cardinality({i \in DOMAIN page : page[i] \in Dotted}) >= 3

\* A heading begins a piece of text, and is its section; what comes before
\* the first one has no section but the document.
Pieces(pages, p) ==
  LET lines == Kept(pages, p)
      heads == {i \in lines : pages[p][i] \in Headings}
      first == {i \in lines : \A j \in lines : i <= j}
  IN  {[at |-> i,
        section |-> IF i \in heads THEN pages[p][i] ELSE None,
        lines |-> {j \in lines : j >= i /\ \A h \in heads : h > i => j < h}] :
         i \in heads \cup first}

WordsIn(lines) == UNION {WordsOf[l] : l \in lines}

RowsOf(d) ==
  LET pages == pack[d].pages
  IN  FlattenSeq([p \in DOMAIN pages |->
        [i \in 1 .. Cardinality(Pieces(pages, p)) |->
           LET piece == SetToSortSeq(Pieces(pages, p), LAMBDA x, y : x.at < y.at)[i]
           IN  [doc |-> d, page |-> p,
                section |-> piece.section,
                text |-> {pages[p][j] : j \in piece.lines},
                contents |-> IsContents(pages[p])]]])

Active == {d \in DOMAIN pack : pack[d].active}

Body(row) ==
  WordsIn(row.text) \cup (IF row.section = None THEN {} ELSE WordsOf[row.section])

Built ==
  LET rows == FlattenSeq([i \in 1 .. Cardinality(Active) |-> RowsOf(SetToSeq(Active)[i])])
      words == UNION {Body(rows[i]) : i \in DOMAIN rows}
  IN  [docs |-> Active,
       rows |-> [i \in DOMAIN rows |-> [row |-> rows[i], hash |-> rows[i].text]],
       postings |-> [w \in words |-> {i \in DOMAIN rows : w \in Body(rows[i])}],
       lengths |-> Len(rows)]

Build ==
  /\ saved = None /\ index = None
  /\ index' = Built
  /\ UNCHANGED <<pack, saved, found>>

\* serialize(), with the release it is of.
Save ==
  /\ index # None /\ saved = None /\ found = None
  /\ saved' = [release |-> pack, index |-> index, whole |-> TRUE]
  /\ index' = None
  /\ UNCHANGED <<pack, found>>

\* What is stored is not what was saved: of another release, cut short, a
\* text changed, a row of no document, a hit on no row, a length too few.
Spoilt(s) ==
  LET i == Len(s.index.rows)
  IN  {[s EXCEPT !.release = None], [s EXCEPT !.whole = FALSE],
       [s EXCEPT !.index.lengths = @ - 1]}
      \cup (IF i = 0 THEN {} ELSE
              {[s EXCEPT !.index.rows[i].row.text = {}],
               [s EXCEPT !.index.rows[i].row.doc = None]})
      \cup {[s EXCEPT !.index.postings[w] = @ \cup {i + 1}] :
              w \in DOMAIN s.index.postings}

Spoil ==
  /\ saved # None /\ index = None /\ found = None
  /\ saved.release = pack /\ saved.index = Built /\ saved.whole
  /\ saved' \in Spoilt(saved)
  /\ UNCHANGED <<pack, index, found>>

\* Mutant: the texts are not compared with their hashes.
RowsKnown(x) == \A i \in DOMAIN x.rows : x.rows[i].row.doc \in x.docs

RowsSound(x) ==
  \A i \in DOMAIN x.rows :
    x.rows[i].row.doc \in x.docs /\ x.rows[i].hash = x.rows[i].row.text

\* deserialize().
Sound(s) ==
  /\ s.whole /\ s.release = pack
  /\ s.index.lengths = Len(s.index.rows)
  /\ RowsSound(s.index)
  /\ \A w \in DOMAIN s.index.postings : s.index.postings[w] \subseteq DOMAIN s.index.rows

\* A snapshot that is refused is built anew.
Read ==
  /\ saved # None /\ index = None
  /\ index' = IF Sound(saved) THEN saved.index ELSE Built
  /\ UNCHANGED <<pack, saved, found>>
-----------------------------------------------------------------------------
(* The search.                                                             *)
Row(i) == index.rows[i].row

Hits(wanted, i) == {w \in wanted \cap DOMAIN index.postings : i \in index.postings[w]}

\* Anchors weigh 1.8 times.
Weight(words, wanted) ==
  10 * Cardinality(words) + 8 * Cardinality(words \cap Anchors(wanted))

Raw(wanted, i) == Weight(Hits(wanted, i), wanted)

Best(rows, Score(_)) ==
  SetToSortSeq(rows, LAMBDA i, j : Score(i) > Score(j) \/ (Score(i) = Score(j) /\ i < j))

HeadingWords(row) == IF row.section = None THEN {} ELSE WordsOf[row.section]

\* The section is about the function of something else.
Elsewhere(wanted, row) ==
  /\ "function" \in wanted \cap HeadingWords(row)
  /\ wanted # {"function"}
  /\ (wanted \ {"function"}) \cap HeadingWords(row) = {}

\* Mutant: a page of contents is evidence for what it lists.
AnyPage(wanted, row, contents) == TRUE

Evidence(wanted, row, contents) ==
  /\ row.contents => contents
  /\ ~Elsewhere(wanted, row)

Refined(wanted, i) ==
  LET dotted == IF Cardinality(Row(i).text \cap Dotted) >= 3 THEN 18 ELSE 100
      headed == IF 10 * Cardinality(wanted \cap HeadingWords(Row(i))) >= 7 * Cardinality(wanted)
                THEN 18 ELSE 10
  IN  Raw(wanted, i) * dotted * headed * (500 + Coverage(wanted, Hits(wanted, i)))

Ranked(wanted, contents) ==
  LET scored == Best({i \in DOMAIN index.rows : Hits(wanted, i) # {}},
                     LAMBDA i : Raw(wanted, i))
      near == {scored[k] : k \in 1 .. IF Len(scored) < Cut THEN Len(scored) ELSE Cut}
  IN  Best({i \in near : /\ Accepted(wanted, Hits(wanted, i))
                         /\ Evidence(wanted, Row(i), contents)},
           LAMBDA i : Refined(wanted, i))

\* Mutant: a document may fill the list.
Distinct(out, i) == \A k \in DOMAIN out : Row(out[k]).text # Row(i).text

\* Two of a document at most, and no text twice.
Admissible(out, i) ==
  /\ Distinct(out, i)
  /\ Cardinality({k \in DOMAIN out : Row(out[k]).doc = Row(i).doc}) < 2

Chosen(ranked, limit) ==
  FoldLeft(LAMBDA out, i : IF Len(out) < limit /\ Admissible(out, i) THEN Append(out, i) ELSE out,
           <<>>, ranked)

Search(query, history, limit, contents) ==
  /\ index # None /\ found = None
  /\ LET wanted == Resolved(query, history)
     IN  found' = [query |-> query, history |-> history, wanted |-> wanted,
                   contents |-> contents, limit |-> limit,
                   hits |-> Chosen(Ranked(wanted, contents), limit)]
  /\ UNCHANGED <<pack, saved, index>>

Reading ==
  \/ Build \/ Save \/ Spoil \/ Read
  \/ \E query \in Queries, history \in Histories, limit \in Limits, contents \in BOOLEAN :
       Search(query, history, limit, contents)
-----------------------------------------------------------------------------
(* candidates(): a piece whose text was changed is none.                   *)
Candidates == {r \in Rows : text[r].intact}

\* The model that embeds answers within 12 seconds, or not.
Embed ==
  /\ vector = "awaited"
  /\ vector' \in {"there", "failed"}
  /\ UNCHANGED <<text, question, compared, sources>>

\* The external index returns identifiers, or cannot be reached.
Narrow ==
  /\ vector = "there" /\ sources = None /\ compared = Rows
  /\ compared' \in SUBSET Rows
  /\ UNCHANGED <<text, question, vector, sources>>

HasEvidence(r) == Accepted(question.wanted, text[r].words)

Shared(r) == Cardinality(question.wanted \cap text[r].words)

\* Mutant: what is similar enough is found whatever the question names.
Similar(r) == text[r].similar > 35

ByMeaning(r) ==
  /\ Similar(r)
  /\ \/ Anchors(question.wanted) \cup (question.wanted \cap Identifiers) = {}
     \/ HasEvidence(r)

Places(rows, ahead, Better(_, _)) ==
  LET order == SetToSortSeq(rows, Better)
  IN  [r \in rows |-> ahead + CHOOSE i \in DOMAIN order : order[i] = r]

Words == Places({r \in Candidates : HasEvidence(r) /\ Shared(r) > 0}, question.ahead.words,
                LAMBDA r, s : Shared(r) > Shared(s) \/ (Shared(r) = Shared(s) /\ r < s))

Vectors ==
  IF vector # "there" THEN <<>>
  ELSE Places({r \in Candidates \cap compared : ByMeaning(r)}, question.ahead.vectors,
              LAMBDA r, s : \/ text[r].similar > text[s].similar
                            \/ text[r].similar = text[s].similar /\ r < s)

\* A place counts for 1/(60 + place), and no more behind the last that counts.
Share(places, r) ==
  IF r \in DOMAIN places /\ places[r] <= Depth THEN 1000000 \div (60 + places[r]) ELSE 0

\* Mutant: nothing is added for evidence.
Joined(r) == Share(Words, r) + Share(Vectors, r)

Rated(r) ==
  Joined(r)
    + 200 * Coverage(question.wanted, text[r].words)
    + (IF Anchors(question.wanted) \cap text[r].words # {} THEN 15000 ELSE 0)
    + (IF text[r].phrase /\ question.wanted \subseteq text[r].words THEN 12000 ELSE 0)

Fused == {r \in DOMAIN Words \cup DOMAIN Vectors : Joined(r) > 0}

Rank ==
  /\ vector # "awaited" /\ sources = None
  /\ LET order == SetToSortSeq(Fused, LAMBDA r, s :
                    Rated(r) > Rated(s) \/ (Rated(r) = Rated(s) /\ r < s))
     IN  sources' = SubSeq(order, 1, IF Len(order) < TopK THEN Len(order) ELSE TopK)
  /\ UNCHANGED <<text, question, vector, compared>>

Ranking == Embed \/ Narrow \/ Rank
-----------------------------------------------------------------------------
Init == ReadingInit /\ RankingInit

Next ==
  \/ Reading /\ UNCHANGED ranking
  \/ Ranking /\ UNCHANGED reading

Spec == Init /\ [][Next]_<<reading, ranking>>
-----------------------------------------------------------------------------
(* What was saved, spoilt and read back is what would be built.            *)
IndexIsOfThePack == index # None => index = Built

\* A page is searched but for a footer: a line at its end, alike on three pages.
LinesAreSearched ==
  index # None =>
    \A d \in Active : \A p \in DOMAIN pack[d].pages :
      LET page == pack[d].pages[p]
          in == UNION {Row(i).text : i \in {j \in DOMAIN index.rows :
                                              Row(j).doc = d /\ Row(j).page = p}}
      IN  \A k \in DOMAIN page :
            page[k] \notin in =>
              /\ k + 2 > Len(page)
              /\ \E on \in SUBSET DOMAIN pack[d].pages :
                   /\ Cardinality(on) >= 3
                   /\ \A q \in on : \E j \in DOMAIN pack[d].pages[q] :
                        KeyOf[pack[d].pages[q][j]] = KeyOf[page[k]]

\* A document names what the question names, in a text of its own.
Names(row, words) == words \cap UNION {WordsOf[l] : l \in row.text} # {}

HitsAnswer ==
  found # None =>
    \A k \in DOMAIN found.hits :
      LET row == Row(found.hits[k])
      IN  /\ row.doc \in Active
          /\ \A w \in found.wanted \cap Identifiers : Names(row, {w})
          /\ Required(found.wanted) # {} => Names(row, Required(found.wanted))
          /\ row.contents => found.contents
          \* ... and is not brought in by what an assistant said before.
          /\ found.wanted \ found.query.words \subseteq
               UNION {found.history[m].query.words :
                        m \in {m \in DOMAIN found.history : found.history[m].role = "user"}}

\* Nothing that would answer is left out but for what is shown of the same
\* document, of the same text, or instead.
NothingIsHidden ==
  found # None =>
    LET shown == {found.hits[k] : k \in DOMAIN found.hits}
        fits(i) ==
          /\ Accepted(found.wanted, Body(Row(i)))
          /\ Evidence(found.wanted, Row(i), found.contents)
        better(i, j) == Refined(found.wanted, j) >= Refined(found.wanted, i)
    IN  /\ \A i, j \in shown : i # j => Row(i).text # Row(j).text
        /\ \A d \in Active : Cardinality({i \in shown : Row(i).doc = d}) <= 2
        /\ \A i \in DOMAIN index.rows \ shown :
             fits(i) =>
               \/ Len(found.hits) = found.limit /\ \A j \in shown : better(i, j)
               \/ Cardinality({j \in shown : Row(j).doc = Row(i).doc /\ better(i, j)}) = 2
               \/ \E j \in shown : Row(j).text = Row(i).text /\ better(i, j)
               \/ Cut <= Cardinality({j \in DOMAIN index.rows :
                                        Raw(found.wanted, j) >= Raw(found.wanted, i)} \ {i})

(* However the index came about, a search answers from the pages of the    *)
(* release it is of: each of them is searched but for its footers, what is *)
(* found names what the asker named, and what would answer is found unless *)
(* there is better.                                                        *)
SearchHolds == IndexIsOfThePack /\ LinesAreSearched /\ HitsAnswer /\ NothingIsHidden
-----------------------------------------------------------------------------
Shown == {sources[i] : i \in DOMAIN sources}

(* What a question names is in every source, and a source is what it was   *)
(* when it was indexed.                                                    *)
NamedIsInSources ==
  \A r \in Shown :
    /\ text[r].intact
    /\ question.wanted \cap Identifiers \subseteq text[r].words
    /\ Required(question.wanted) # {} => Required(question.wanted) \cap text[r].words # {}
    /\ vector = "failed" => HasEvidence(r)

(* Vectors add to what the words find and take nothing away: of a question *)
(* of at most three words, no text without evidence is shown before or     *)
(* instead of one with it, however far down the list of words it is.       *)
EvidenceFirst ==
  Cardinality(question.wanted) <= 3 =>
    /\ \A i, j \in DOMAIN sources : HasEvidence(sources[j]) /\ i < j => HasEvidence(sources[i])
    /\ \A r \in Candidates \ Shown :
         HasEvidence(r) /\ Joined(r) > 0 =>
           Len(sources) = TopK /\ \A s \in Shown : HasEvidence(s)

RankHolds == sources # None => NamedIsInSources /\ EvidenceFirst
=============================================================================
