---------------------------- MODULE KeywordIndex ----------------------------
(***************************************************************************)
(* The index a process of the engine keeps in memory (retrieval/bm25.py),    *)
(* the vectors beside it (vector_store.py) and what a search makes of both  *)
(* (hybrid.py, retrieval_agent.py).  The statistics of the index are not    *)
(* counted again but corrected with every chunk, by requests that publish,  *)
(* withdraw and index documents anew, between whose steps others run.  Of a *)
(* score it is kept that more and rarer terms count for more; of a vector,  *)
(* an order of the chunks.                                                  *)
(***************************************************************************)
EXTENDS Integers, SequencesExt, FiniteSetsExt

CONSTANTS
  Docs, Chunks,
  DocOf, DeptOf, TermsOf,   \* of each chunk
  Nearest,                  \* the chunks by their vectors, best first
  Tasks,                    \* requests that index a document anew
  TopK,                     \* chunks a search of the index returns
  None

VARIABLES
  active,      \* documents whose row says so
  held,        \* chunks in the index
  df,          \* of each term: in how many chunks
  n,           \* how many chunks
  vectors,     \* chunks whose vector is stored
  task,        \* of each request: None or [doc, left, live]
  overlapped   \* documents put into the index by two requests at once; history

counted == <<held, df, n>>
vars == <<active, counted, vectors, task, overlapped>>

Terms == UNION {TermsOf[c] : c \in Chunks}
ChunksOf(d) == {c \in Chunks : DocOf[c] = d}
Live == {c \in Chunks : DocOf[c] \in active}

Counts(chunks) == [t \in Terms |-> Cardinality({c \in chunks : t \in TermsOf[c]})]

Init ==
  /\ active \in SUBSET Docs
  /\ held = Live /\ df = Counts(Live) /\ n = Cardinality(Live)
  /\ vectors = Live
  /\ task = [t \in Tasks |-> None]
  /\ overlapped = {}
-----------------------------------------------------------------------------
\* BM25Index.add: what is there already is counted once more.
Add(c) ==
  /\ held' = held \cup {c}
  /\ df' = [t \in Terms |-> IF t \in TermsOf[c] THEN df[t] + 1 ELSE df[t]]
  /\ n' = n + 1

\* BM25Index.remove, of one chunk after the other.
RemoveAll(chunks) ==
  LET gone == Counts(chunks \cap held)
  IN  /\ held' = held \ chunks
      /\ df' = [t \in Terms |-> df[t] - gone[t]]
      /\ n' = Cardinality(held \ chunks)

\* A process starts: an empty index, and every active chunk added to it.
Restart ==
  /\ held' = Live /\ df' = Counts(Live) /\ n' = Cardinality(Live)
  /\ vectors' = vectors \cup Live
  /\ task' = [t \in Tasks |-> None]
  /\ overlapped' = {}
  /\ UNCHANGED active

\* A status that is not "active": out of both indexes.
SetStatus(d) ==
  /\ active' = active \ {d}
  /\ RemoveAll(ChunksOf(d))
  /\ vectors' = vectors \ ChunksOf(d)
  /\ UNCHANGED <<task, overlapped>>

\* A version that was accepted: each of its chunks is removed, then added.
Publish(d) ==
  /\ active' = active \cup {d}
  /\ LET others == held \ ChunksOf(d)
         gone == Counts(held \cap ChunksOf(d))
         new == Counts(ChunksOf(d))
     IN  /\ held' = others \cup ChunksOf(d)
         /\ df' = [t \in Terms |-> df[t] - gone[t] + new[t]]
         /\ n' = Cardinality(others \cup ChunksOf(d))
  /\ vectors' = vectors \cup ChunksOf(d)
  /\ UNCHANGED <<task, overlapped>>

\* Indexer.reindex reads the status, clears, and adds chunk by chunk.  After
\* an overlap nothing is claimed and none begins: a bound of the model.
BeginReindex(t, d) ==
  /\ task[t] = None /\ overlapped = {}
  /\ task' = [task EXCEPT ![t] = [doc |-> d, left |-> ChunksOf(d), live |-> d \in active]]
  /\ RemoveAll(ChunksOf(d))
  /\ vectors' = vectors \ ChunksOf(d)
  /\ overlapped' = IF \E u \in Tasks : task[u] # None /\ task[u].doc = d
                   THEN overlapped \cup {d} ELSE overlapped
  /\ UNCHANGED active

AddBack(t, c) ==
  /\ task[t] # None /\ c \in task[t].left
  /\ task' = [task EXCEPT ![t] = IF @.left = {c} THEN None ELSE [@ EXCEPT !.left = @ \ {c}]]
  /\ vectors' = vectors \cup {c}
  /\ IF task[t].live
     THEN Add(c)
          /\ overlapped' = IF c \in held THEN overlapped \cup {DocOf[c]} ELSE overlapped
     ELSE UNCHANGED <<counted, overlapped>>
  /\ UNCHANGED active

\* The embedding fails, or the client has gone.
GiveUp(t) ==
  /\ task[t] # None
  /\ task' = [task EXCEPT ![t] = None]
  /\ UNCHANGED <<active, counted, vectors, overlapped>>

Next ==
  \/ \E d \in Docs : SetStatus(d) \/ Publish(d) \/ \E t \in Tasks : BeginReindex(t, d)
  \/ \E t \in Tasks : GiveUp(t) \/ \E c \in Chunks : AddBack(t, c)
  \/ Restart

Spec == Init /\ [][Next]_vars
-----------------------------------------------------------------------------
Place(c) == CHOOSE i \in DOMAIN Nearest : Nearest[i] = c
OfDept(chunks, dept) == {c \in chunks : dept = None \/ DeptOf[c] = dept}
First(s, k) == SubSeq(s, 1, IF Len(s) < k THEN Len(s) ELSE k)

\* idf: the fewer chunks have a term, the more it counts.
Score(c, q, count, total) ==
  LET common == q \cap TermsOf[c]
  IN  MapThenSumSet(LAMBDA t : 2 * (total - count[t]) + 3, common)

ByScore(chunks, q, count, total) ==
  SetToSortSeq({c \in chunks : q \cap TermsOf[c] # {}},
               LAMBDA a, b : \/ Score(a, q, count, total) > Score(b, q, count, total)
                             \/ /\ Score(a, q, count, total) = Score(b, q, count, total)
                                /\ Place(a) < Place(b))

\* Mutant: the best of all departments, and of those the ones of this one.
CutThenDept(q, k, dept) ==
  SelectSeq(First(ByScore(held, q, df, n), k), LAMBDA c : dept = None \/ DeptOf[c] = dept)

\* BM25Index.search: the department first.
Search(q, k, dept) == First(ByScore(OfDept(held, dept), q, df, n), k)

SearchVectors(k, dept) ==
  First(SelectSeq(Nearest, LAMBDA c : c \in OfDept(vectors, dept)), k)

\* Reciprocal ranks, of the first and the second route, over a common
\* denominator.
Reciprocal(s, c) ==
  IF \E i \in DOMAIN s : s[i] = c
  THEN (61 * 62 * 63 * 64) \div (60 + CHOOSE i \in DOMAIN s : s[i] = c) ELSE 0

Fused(q, dept) ==
  LET bm == Search(q, TopK, dept)
      near == SearchVectors(TopK, dept)
      Weight(c) == Reciprocal(bm, c) + Reciprocal(near, c)
  IN  SetToSortSeq(ToSet(bm) \cup ToSet(near),
        LAMBDA a, b : Weight(a) > Weight(b) \/ (Weight(a) = Weight(b) /\ Place(a) < Place(b)))

\* RetrievalAgent: chunks of documents no longer active are dropped.
Retrieve(q, dept) == SelectSeq(Fused(q, dept), LAMBDA c : c \in Live)
-----------------------------------------------------------------------------
Exact == held \in SUBSET Chunks /\ df = Counts(held) /\ n = Cardinality(held)

\* No chunk of the department that is left out has a better score, by the
\* statistics of an index built anew, than one that is found.
SearchIsBest(q, dept) ==
  LET found == ToSet(Search(q, TopK, dept))
      match == {c \in OfDept(held, dept) : q \cap TermsOf[c] # {}}
      Fresh(c) == Score(c, q, Counts(held), Cardinality(held))
  IN  /\ found \subseteq match
      /\ found # match => Cardinality(found) = TopK
      /\ \A c \in found, d \in match \ found : Fresh(c) >= Fresh(d)

(* As long as no document is put there by two requests at once, the         *)
(* statistics kept chunk by chunk are those of an index built anew; then    *)
(* every search returns the best of the department asked for, however much  *)
(* better other departments are, and a retrieval nothing that is withdrawn.  *)
IndexIsExact ==
  overlapped = {} =>
    /\ Exact
    /\ \A q \in SUBSET Terms \ {{}}, dept \in {DeptOf[c] : c \in Chunks} \cup {None} :
         /\ SearchIsBest(q, dept)
         /\ ToSet(Retrieve(q, dept)) \subseteq OfDept(Live, dept)
=============================================================================
