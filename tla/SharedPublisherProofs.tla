------------------------ MODULE SharedPublisherProofs ------------------------
(***************************************************************************)
(* What SharedPublisher keeps for any number of documents, reviews,        *)
(* processes and faults.                                                   *)
(***************************************************************************)
EXTENDS SharedPublisher, TLAPS

GaveWay(d, h) == h # None /\ Version[d] < Version[h]

\* What a review may rely on when the head is h: it has a document; one that
\* may still set the head, or has set it, knows that the head it read is
\* older; and a row it writes back says nothing of the past that is not true.
Sound(row, h) ==
  /\ row.at \notin {"idle", "ended"} => row.doc \in Docs
  /\ row.at = "copied" =>
       /\ row.read \in Row
       /\ row.read.status = "archived" /\ ~row.read.archived_by =>
            GaveWay(row.doc, h)
  /\ row.at \in {"checked", "activated", "swapped", "counted"} =>
       row.old = None \/ Version[row.old] < Version[row.doc]
  /\ row.at \in {"swapped", "counted"} =>
       h # None /\ Version[row.doc] <= Version[h]

ReviewsSound == \A r \in Reviews : Sound(review[r], head)

\* Who will take back, or archive, an active document that is not the head.
Answers(row, d) ==
  \/ row.at \in {"indexing", "activated", "undoing"} /\ row.doc = d
  \/ row.at \in {"swapped", "counted"} /\ row.old = d

ActiveSound ==
  faults = 0 =>
    \A d \in Docs : document[d].status = "active" =>
      d = head \/ \E r \in Reviews : Answers(review[r], d)

IInv == TypeOK /\ ReviewsSound /\ ArchivedGaveWay /\ ActiveSound

ReviewRow ==
  [at : Places, doc : Docs \cup {None}, actor : Actors \cup {None},
   read : Row \cup {None}, old : Docs \cup {None}]

\* The head stays, or gives way to a newer document.
HeadMoves ==
  \/ head' = head
  \/ head' \in Docs /\ (head = None \/ Version[head] < Version[head'])
-----------------------------------------------------------------------------
LEMMA InitInvariant == Init => IInv
<1> SUFFICES ASSUME Init PROVE IInv
  OBVIOUS
<1>1. \A r \in Reviews : review[r] = Idle
  BY DEF Init
<1>2. TypeOK
  <2>1. Idle \in ReviewRow
    BY DEF Idle, ReviewRow, Places
  <2>2. review \in [Reviews -> ReviewRow]
    BY <2>1 DEF Init
  <2>3. document \in [Docs -> Row]
    BY DEF Init, Row
  <2>4. /\ index \in [Processes -> [revision : Nat \cup {None}, docs : SUBSET Docs]]
        /\ search \in [Searches -> Nat \cup {None}]
    BY DEF Init
  <2> QED BY <2>2, <2>3, <2>4, FaultsAssumption DEF Init, TypeOK, ReviewRow
<1>3. ReviewsSound
  BY <1>1 DEF ReviewsSound, Sound, Idle
<1>4. ArchivedGaveWay /\ ActiveSound
  BY DEF Init, ArchivedGaveWay, ActiveSound
<1> QED BY <1>2, <1>3, <1>4 DEF IInv

\* Where a review goes.
LEMMA Going ==
  ASSUME NEW row \in ReviewRow, NEW place \in Places
  PROVE  /\ Moved(row, place) \in ReviewRow
         /\ Moved(row, place).at = place
         /\ place # "ended" =>
              /\ Moved(row, place).doc = row.doc
              /\ Moved(row, place).old = row.old
              /\ Moved(row, place).read = row.read
  BY DEF Moved, Idle, ReviewRow, Places

\* What a review relies on when its place does not say more.
LEMMA SoundElsewhere ==
  ASSUME NEW row, NEW old, NEW h,
         Sound(old, h), old.at \notin {"idle", "ended"}, row.doc = old.doc,
         row.at \notin {"copied", "checked", "activated", "swapped", "counted"}
  PROVE  Sound(row, h)
  BY DEF Sound

LEMMA SoundStays ==
  ASSUME NEW row \in ReviewRow, Sound(row, head), HeadMoves,
         head \in Docs \cup {None}
  PROVE  Sound(row, head')
<1>1. head # None => head' # None /\ Version[head] <= Version[head']
  BY DocsAssumption DEF HeadMoves
<1>2. ASSUME row.at \notin {"idle", "ended"}, GaveWay(row.doc, head)
      PROVE  GaveWay(row.doc, head')
  BY <1>1, <1>2, DocsAssumption DEF GaveWay, Sound, HeadMoves
<1>3. ASSUME row.at \in {"swapped", "counted"}
      PROVE  head' # None /\ Version[row.doc] <= Version[head']
  BY <1>1, <1>3, DocsAssumption DEF Sound, HeadMoves
<1> QED BY <1>2, <1>3 DEF Sound

\* A step of one review.
LEMMA OneReview ==
  ASSUME IInv, NEW r \in Reviews, NEW row \in ReviewRow,
         review' = [review EXCEPT ![r] = row],
         HeadMoves, Sound(row, head')
  PROVE  /\ review' \in [Reviews -> ReviewRow]
         /\ ReviewsSound'
         /\ review'[r] = row
         /\ \A q \in Reviews : q # r => review'[q] = review[q]
<1>1. review \in [Reviews -> ReviewRow] /\ head \in Docs \cup {None}
  BY DEF IInv, TypeOK, ReviewRow
<1>2. /\ review' \in [Reviews -> ReviewRow]
      /\ review'[r] = row
      /\ \A q \in Reviews : q # r => review'[q] = review[q]
  BY <1>1
<1>3. ASSUME NEW q \in Reviews PROVE Sound(review'[q], head')
  <2>1. CASE q = r
    BY <1>2, <2>1
  <2>2. CASE q # r
    <3>1. review[q] \in ReviewRow /\ Sound(review[q], head)
      BY <1>1 DEF IInv, ReviewsSound
    <3>2. Sound(review[q], head')
      BY <1>1, <3>1, SoundStays
    <3>3. review'[q] = review[q]
      BY <1>2, <2>2
    <3> QED BY <3>2, <3>3, Zenon
  <2> QED BY <2>1, <2>2
<1>4. ReviewsSound'
  BY <1>3, Zenon DEF ReviewsSound
<1> QED BY <1>2, <1>4

\* A step that changes one document at most.
LEMMA OneDocument ==
  ASSUME IInv, NEW d \in Docs, NEW row \in Row,
         document' = [document EXCEPT ![d] = row],
         HeadMoves, row.status = "archived" /\ ~row.archived_by => GaveWay(d, head')
  PROVE  /\ document' \in [Docs -> Row]
         /\ ArchivedGaveWay'
         /\ document'[d] = row
         /\ \A e \in Docs : e # d => document'[e] = document[e]
<1>1. /\ document \in [Docs -> Row] /\ head \in Docs \cup {None}
      /\ Version \in [Docs -> Nat] /\ None \notin Docs
  BY DocsAssumption DEF IInv, TypeOK
<1>2. /\ document' \in [Docs -> Row]
      /\ document'[d] = row
      /\ \A e \in Docs : e # d => document'[e] = document[e]
  BY <1>1
<1>3. ASSUME NEW e \in Docs, document'[e].status = "archived",
             ~document'[e].archived_by
      PROVE  head' # None /\ Version[e] < Version[head']
  <2>1. CASE e = d
    BY <1>2, <1>3, <2>1 DEF GaveWay
  <2>2. CASE e # d
    <3>1. head # None /\ Version[e] < Version[head]
      BY <1>2, <1>3, <2>2 DEF IInv, ArchivedGaveWay
    <3> QED BY <1>1, <3>1 DEF HeadMoves
  <2> QED BY <2>1, <2>2
<1>4. ArchivedGaveWay'
  BY <1>3 DEF ArchivedGaveWay
<1> QED BY <1>2, <1>4

LEMMA NoDocument ==
  ASSUME IInv, UNCHANGED document, HeadMoves
  PROVE  document' \in [Docs -> Row] /\ ArchivedGaveWay'
  BY DocsAssumption DEF IInv, TypeOK, ArchivedGaveWay, HeadMoves

\* The active documents after a step of one review that changes no head.
LEMMA ActiveStays ==
  ASSUME IInv, NEW r \in Reviews, faults' = 0 => faults = 0,
         head' = head,
         \A q \in Reviews : q # r => review'[q] = review[q],
         \A d \in Docs : document'[d].status = "active" =>
           \/ Answers(review'[r], d)
           \/ /\ document[d].status = "active"
              /\ ~Answers(review[r], d)
  PROVE  ActiveSound'
<1> SUFFICES ASSUME faults' = 0, NEW d \in Docs, document'[d].status = "active"
             PROVE  d = head' \/ \E q \in Reviews : Answers(review'[q], d)
  BY DEF ActiveSound
<1>1. CASE Answers(review'[r], d)
  BY <1>1
<1>2. CASE document[d].status = "active" /\ ~Answers(review[r], d)
  <2>1. d = head \/ \E q \in Reviews : Answers(review[q], d)
    BY <1>2 DEF IInv, ActiveSound
  <2> QED BY <1>2, <2>1
<1> QED BY <1>1, <1>2

\* A review moves without changing a document or the head.
LEMMA Moves ==
  ASSUME IInv, NEW r \in Reviews, NEW row \in ReviewRow,
         review' = [review EXCEPT ![r] = row],
         UNCHANGED <<document, head>>, Sound(row, head),
         \A d \in Docs : Answers(review[r], d) /\ document[d].status = "active" =>
           Answers(row, d) \/ faults' # 0,
         faults' = 0 => faults = 0
  PROVE  /\ review' \in [Reviews -> ReviewRow]
         /\ document' \in [Docs -> Row]
         /\ ReviewsSound' /\ ArchivedGaveWay' /\ ActiveSound'
<1>1. HeadMoves /\ Sound(row, head')
  BY DEF HeadMoves
<1>2. /\ review' \in [Reviews -> ReviewRow]
      /\ ReviewsSound'
      /\ review'[r] = row
      /\ \A q \in Reviews : q # r => review'[q] = review[q]
  BY <1>1, OneReview
<1>3. ActiveSound'
  <2>1. CASE faults' # 0
    BY <2>1 DEF ActiveSound
  <2>2. CASE faults' = 0
    BY <1>2, <2>2, ActiveStays
  <2> QED BY <2>1, <2>2
<1> QED BY <1>1, <1>2, <1>3, NoDocument

LEMMA Beginning ==
  ASSUME IInv, NEW r \in Reviews, NEW d \in Docs, NEW who \in Actors,
         Begin(r, d, who)
  PROVE  IInv'
<1> DEFINE row == [Idle EXCEPT !.at = "deciding", !.doc = d, !.actor = who]
<1>1. row \in ReviewRow /\ row.at = "deciding" /\ row.doc = d
  BY DEF Idle, ReviewRow, Places
<1>2. /\ review' = [review EXCEPT ![r] = row]
      /\ UNCHANGED <<document, published, readers, faults>>
  BY DEF Begin
<1> HIDE DEF row
<1>3. Sound(row, head)
  BY <1>1 DEF Sound
<1>4. \A e \in Docs : ~Answers(review[r], e)
  BY DEF Begin, At, Answers
<1>5. /\ review' \in [Reviews -> ReviewRow]
      /\ document' \in [Docs -> Row]
      /\ ReviewsSound' /\ ArchivedGaveWay' /\ ActiveSound'
  BY <1>1, <1>2, <1>3, <1>4, Moves DEF published
<1> QED BY <1>2, <1>5 DEF IInv, TypeOK, ReviewRow, published, readers

LEMMA Reading ==
  ASSUME IInv, NEW r \in Reviews, Copy(r) \/ Fetch(r) \/ ReadHead(r)
  PROVE  IInv'
<1>1. /\ review[r] \in ReviewRow
      /\ Sound(review[r], head)
      /\ head \in Docs \cup {None}
      /\ document \in [Docs -> Row]
  BY DEF IInv, TypeOK, ReviewRow, ReviewsSound
<1>2. Subject(r) \in Docs /\ \A e \in Docs : ~Answers(review[r], e)
  BY <1>1 DEF Copy, Fetch, ReadHead, At, Subject, Sound, Answers
<1>3. UNCHANGED <<document, published, readers, faults>>
  BY DEF Copy, Fetch, ReadHead
<1>4. PICK row \in ReviewRow :
        review' = [review EXCEPT ![r] = row] /\ Sound(row, head)
  <2>1. CASE Copy(r)
    <3> DEFINE new == [review[r] EXCEPT !.at = "copied",
                                        !.read = document[Subject(r)]]
    <3>1. /\ new \in ReviewRow /\ new.at = "copied"
          /\ new.doc = Subject(r) /\ new.read = document[Subject(r)]
      BY <1>1, <1>2 DEF ReviewRow, Places, Subject
    <3>2. review' = [review EXCEPT ![r] = new]
      BY <2>1 DEF Copy
    <3> HIDE DEF new
    <3>3. Sound(new, head)
      BY <1>1, <1>2, <3>1 DEF Sound, GaveWay, IInv, ArchivedGaveWay
    <3> QED BY <3>1, <3>2, <3>3
  <2>2. CASE Fetch(r)
    <3> DEFINE new == [review[r] EXCEPT !.at = "fetched",
                                        !.read = document[Subject(r)]]
    <3>1. new \in ReviewRow /\ new.at = "fetched" /\ new.doc = Subject(r)
      BY <1>1, <1>2 DEF ReviewRow, Places, Subject
    <3>2. review' = [review EXCEPT ![r] = new]
      BY <2>2 DEF Fetch
    <3> HIDE DEF new
    <3>3. Sound(new, head)
      BY <1>2, <3>1 DEF Sound
    <3> QED BY <3>1, <3>2, <3>3
  <2>3. CASE ReadHead(r)
    <3> DEFINE new == [review[r] EXCEPT
                         !.at = IF Newer(Subject(r)) THEN "checked" ELSE "leaving",
                         !.old = head]
    <3>1. /\ new \in ReviewRow /\ new.doc = Subject(r) /\ new.old = head
          /\ new.at = IF Newer(Subject(r)) THEN "checked" ELSE "leaving"
      BY <1>1 DEF ReviewRow, Places, Subject
    <3>2. review' = [review EXCEPT ![r] = new]
      BY <2>3 DEF ReadHead
    <3> HIDE DEF new
    <3>3. Sound(new, head)
      BY <1>2, <3>1 DEF Sound, Newer
    <3> QED BY <3>1, <3>2, <3>3
  <2> QED BY <2>1, <2>2, <2>3
<1>5. /\ review' \in [Reviews -> ReviewRow]
      /\ document' \in [Docs -> Row]
      /\ ReviewsSound' /\ ArchivedGaveWay' /\ ActiveSound'
  BY <1>2, <1>3, <1>4, Moves DEF published
<1> QED BY <1>3, <1>5 DEF IInv, TypeOK, ReviewRow, published, readers

\* The lease and the corpus are only ever written by steps that leave the
\* documents and the head alone.
LEMMA Leasing ==
  ASSUME IInv, NEW r \in Reviews, TakeLease(r) \/ Count(r) \/ Leave(r)
  PROVE  IInv'
<1>1. review[r] \in ReviewRow /\ Sound(review[r], head)
  BY DEF IInv, TypeOK, ReviewRow, ReviewsSound
<1>2. /\ UNCHANGED <<document, head, readers, faults>>
      /\ lease' \in [owner : Reviews, live : BOOLEAN] \cup {None}
      /\ corpus' \in Nat
  <2>1. UNCHANGED <<document, head, readers, faults>>
    BY DEF TakeLease, Count, Leave
  <2>2. lease' = lease \/ lease' = None \/ lease' = [owner |-> r, live |-> TRUE]
    BY DEF TakeLease, Count, Leave
  <2>3. corpus' = corpus \/ corpus' = corpus + 1
    BY DEF TakeLease, Count, Leave
  <2>4. lease' \in [owner : Reviews, live : BOOLEAN] \cup {None}
    <3>1. lease \in [owner : Reviews, live : BOOLEAN] \cup {None}
      BY DEF IInv, TypeOK
    <3>2. [owner |-> r, live |-> TRUE] \in [owner : Reviews, live : BOOLEAN]
      OBVIOUS
    <3> QED BY <2>2, <3>1, <3>2, Zenon
  <2>5. corpus' \in Nat
    BY <2>3 DEF IInv, TypeOK
  <2> QED BY <2>1, <2>4, <2>5
<1>3. PICK place \in {"ended", "leased", "leaving", "counted"} :
        /\ Goes(r, place)
        /\ place = "counted" <=> review[r].at = "swapped"
        /\ review[r].at \in {"fetched", "swapped", "leaving"}
  BY DEF TakeLease, Count, Leave, At
<1> DEFINE row == Moved(review[r], place)
<1>4. /\ row \in ReviewRow /\ row.at = place
      /\ place # "ended" => row.doc = review[r].doc /\ row.old = review[r].old
  BY <1>1, Going DEF Places
<1>5. review' = [review EXCEPT ![r] = row]
  BY <1>3 DEF Goes
<1> HIDE DEF row
<1>6. Sound(row, head)
  BY <1>1, <1>3, <1>4 DEF Sound
<1>7. \A d \in Docs : Answers(review[r], d) => Answers(row, d)
  BY <1>3, <1>4 DEF Answers
<1>8. /\ review' \in [Reviews -> ReviewRow]
      /\ document' \in [Docs -> Row]
      /\ ReviewsSound' /\ ArchivedGaveWay' /\ ActiveSound'
  BY <1>2, <1>4, <1>5, <1>6, <1>7, Moves
<1> QED BY <1>2, <1>8 DEF IInv, TypeOK, ReviewRow, readers

\* A review writes one document and moves, without changing the head.
LEMMA Writes ==
  ASSUME IInv, NEW r \in Reviews, NEW row \in ReviewRow, NEW d \in Docs,
         NEW new \in Row,
         review' = [review EXCEPT ![r] = row],
         document' = [document EXCEPT ![d] = new],
         UNCHANGED head, Sound(row, head),
         new.status = "archived" /\ ~new.archived_by => GaveWay(d, head),
         faults' = 0 => faults = 0,
         faults' = 0 =>
           /\ new.status = "active" => Answers(row, d)
           /\ \A e \in Docs \ {d} : ~Answers(review[r], e)
  PROVE  /\ review' \in [Reviews -> ReviewRow]
         /\ document' \in [Docs -> Row]
         /\ ReviewsSound' /\ ArchivedGaveWay' /\ ActiveSound'
<1>1. HeadMoves /\ Sound(row, head')
  BY DEF HeadMoves
<1>2. /\ review' \in [Reviews -> ReviewRow]
      /\ ReviewsSound'
      /\ review'[r] = row
      /\ \A q \in Reviews : q # r => review'[q] = review[q]
  BY <1>1, OneReview
<1>3. /\ document' \in [Docs -> Row]
      /\ ArchivedGaveWay'
      /\ document'[d] = new
      /\ \A e \in Docs : e # d => document'[e] = document[e]
  <2>1. new.status = "archived" /\ ~new.archived_by => GaveWay(d, head')
    OBVIOUS
  <2> QED BY <1>1, <2>1, OneDocument
<1>4. ActiveSound'
  <2>1. CASE faults' # 0
    BY <2>1 DEF ActiveSound
  <2>2. CASE faults' = 0
    <3>1. \A e \in Docs : document'[e].status = "active" =>
            \/ Answers(review'[r], e)
            \/ document[e].status = "active" /\ ~Answers(review[r], e)
      BY <1>2, <1>3, <2>2
    <3> QED BY <1>2, <2>2, <3>1, ActiveStays
  <2> QED BY <2>1, <2>2
<1> QED BY <1>2, <1>3, <1>4

LEMMA Writing ==
  ASSUME IInv, NEW r \in Reviews,
         Decide(r) \/ Indexed(r) \/ Activate(r) \/ Undo(r)
  PROVE  IInv'
<1>1. /\ review[r] \in ReviewRow
      /\ Sound(review[r], head)
      /\ document \in [Docs -> Row]
  BY DEF IInv, TypeOK, ReviewRow, ReviewsSound
<1>2. /\ UNCHANGED <<published, readers, faults>>
      /\ review[r].at \in {"copied", "indexing", "checked", "undoing"}
  BY DEF Decide, Indexed, Activate, Undo, At
<1>3. Subject(r) \in Docs
  BY <1>1, <1>2 DEF Sound, Subject
<1>4. PICK place \in {"indexing", "asking", "activated", "leaving"}, new \in Row :
        /\ Goes(r, place)
        /\ document' = [document EXCEPT ![Subject(r)] = new]
        /\ new.status = "archived" /\ ~new.archived_by => GaveWay(Subject(r), head)
        /\ new.status = "active" => place \in {"indexing", "activated"}
        /\ place = "activated" => review[r].at = "checked"
  <2>1. CASE Decide(r)
    <3>1. /\ Goes(r, "indexing")
          /\ document' = [document EXCEPT ![Subject(r)] = review[r].read]
          /\ review[r].at = "copied"
      BY <2>1 DEF Decide, At
    <3>2. /\ review[r].read \in Row
          /\ review[r].read.status = "archived" /\ ~review[r].read.archived_by
               => GaveWay(Subject(r), head)
      BY <1>1, <3>1 DEF Sound, Subject
    <3> QED BY <3>1, <3>2
  <2>2. ASSUME NEW status \in {"pending_review", "active"}, NEW place,
               SetStatus(Subject(r), status), Goes(r, place),
               \/ status = "pending_review" /\ place \in {"asking", "leaving"}
               \/ place = "activated" /\ review[r].at = "checked"
        PROVE  \E p \in {"indexing", "asking", "activated", "leaving"}, n \in Row :
                 /\ Goes(r, p)
                 /\ document' = [document EXCEPT ![Subject(r)] = n]
                 /\ n.status = "archived" /\ ~n.archived_by =>
                      GaveWay(Subject(r), head)
                 /\ n.status = "active" => p \in {"indexing", "activated"}
                 /\ p = "activated" => review[r].at = "checked"
    <3> DEFINE new == [document[Subject(r)] EXCEPT !.status = status]
    <3>1. new \in Row /\ new.status = status
      BY <1>1, <1>3 DEF Row
    <3>2. document' = [document EXCEPT ![Subject(r)] = new]
      BY <2>2 DEF SetStatus
    <3> HIDE DEF new
    <3> QED BY <2>2, <3>1, <3>2
  <2>3. CASE Indexed(r) \/ Activate(r) \/ Undo(r)
    BY <2>2, <2>3 DEF Indexed, Activate, Undo, At
  <2> QED BY <2>1, <2>3
<1> DEFINE row == Moved(review[r], place)
<1>5. /\ row \in ReviewRow /\ row.at = place
      /\ row.doc = Subject(r) /\ row.old = review[r].old
  BY <1>1, <1>4, Going DEF Places, Subject
<1>6. review' = [review EXCEPT ![r] = row]
  BY <1>4 DEF Goes
<1> HIDE DEF row
<1>7. Sound(row, head)
  BY <1>1, <1>3, <1>4, <1>5 DEF Sound, Subject
<1>8. /\ new.status = "active" => Answers(row, Subject(r))
      /\ \A e \in Docs \ {Subject(r)} : ~Answers(review[r], e)
  BY <1>2, <1>4, <1>5 DEF Answers, Subject
<1>9. /\ review' \in [Reviews -> ReviewRow]
      /\ document' \in [Docs -> Row]
      /\ ReviewsSound' /\ ArchivedGaveWay' /\ ActiveSound'
  BY <1>2, <1>3, <1>4, <1>5, <1>6, <1>7, <1>8, Writes DEF published
<1> QED BY <1>2, <1>9 DEF IInv, TypeOK, ReviewRow, published, readers

LEMMA Archiving ==
  ASSUME IInv, NEW r \in Reviews, Archive(r)
  PROVE  IInv'
<1>1. /\ review[r] \in ReviewRow
      /\ Sound(review[r], head)
      /\ document \in [Docs -> Row]
      /\ head \in Docs \cup {None}
  BY DEF IInv, TypeOK, ReviewRow, ReviewsSound
<1> DEFINE row == Moved(review[r], "leaving")
<1>2. /\ UNCHANGED <<published, readers, faults>>
      /\ review[r].at = "counted"
      /\ review' = [review EXCEPT ![r] = row]
  BY DEF Archive, At, Goes
<1>3. row \in ReviewRow /\ row.at = "leaving" /\ row.doc = review[r].doc
  BY <1>1, Going DEF Places
<1> HIDE DEF row
<1>4. Sound(row, head)
  BY <1>1, <1>2, <1>3, SoundElsewhere
<1> SUFFICES /\ review' \in [Reviews -> ReviewRow]
             /\ document' \in [Docs -> Row]
             /\ ReviewsSound' /\ ArchivedGaveWay' /\ ActiveSound'
  BY <1>2 DEF IInv, TypeOK, ReviewRow, published, readers
<1>5. CASE review[r].old = None
  <2>1. UNCHANGED <<document, head>>
    BY <1>2, <1>5 DEF Archive, published
  <2>2. \A d \in Docs : ~Answers(review[r], d)
    BY <1>2, <1>5, DocsAssumption DEF Answers
  <2> QED BY <1>2, <1>3, <1>4, <2>1, <2>2, Moves
<1>6. CASE review[r].old # None
  <2> DEFINE d == review[r].old
             new == [document[d] EXCEPT !.status = "archived"]
  <2>1. d \in Docs
    BY <1>1, <1>6 DEF ReviewRow
  <2>2. new \in Row /\ new.status = "archived"
    BY <1>1, <2>1 DEF Row
  <2>3. document' = [document EXCEPT ![d] = new] /\ head' = head
    BY <1>2, <1>6 DEF Archive, SetStatus, published
  <2>4. GaveWay(d, head)
    BY <1>1, <1>2, <1>6, <2>1, DocsAssumption DEF Sound, GaveWay
  <2>5. \A e \in Docs \ {d} : ~Answers(review[r], e)
    BY <1>2 DEF Answers
  <2> HIDE DEF d, new
  <2> QED BY <1>2, <1>3, <1>4, <2>1, <2>2, <2>3, <2>4, <2>5, Writes
<1> QED BY <1>5, <1>6

\* The one step that moves the head.
LEMMA Swapping ==
  ASSUME IInv, NEW r \in Reviews, NEW place \in {"swapped", "undoing"},
         review[r].at = "activated",
         Goes(r, place),
         UNCHANGED <<document, lease, corpus, readers>>,
         head = review[r].old,
         head' = Subject(r),
         \/ UNCHANGED faults /\ place = "swapped"
         \/ faults' \in 1..MaxFaults
  PROVE  IInv'
<1>1. /\ review[r] \in ReviewRow
      /\ Sound(review[r], head)
      /\ document \in [Docs -> Row]
      /\ head \in Docs \cup {None}
  BY DEF IInv, TypeOK, ReviewRow, ReviewsSound
<1> DEFINE row == Moved(review[r], place)
<1>2. review' = [review EXCEPT ![r] = row]
  BY DEF Goes
<1>3. /\ row \in ReviewRow /\ row.at = place /\ row.doc = Subject(r)
      /\ row.old = head
  BY <1>1, Going DEF Places, Subject
<1> HIDE DEF row
<1>4. /\ head' \in Docs
      /\ head = None \/ Version[head] < Version[head']
  BY <1>1 DEF Sound, Subject
<1>5. HeadMoves
  BY <1>4 DEF HeadMoves
<1>6. Sound(row, head')
  BY <1>3, <1>4, DocsAssumption DEF Sound
<1>7. /\ review' \in [Reviews -> ReviewRow]
      /\ ReviewsSound'
      /\ review'[r] = row
      /\ \A q \in Reviews : q # r => review'[q] = review[q]
  BY <1>2, <1>3, <1>5, <1>6, OneReview
<1>8. ActiveSound'
  <2> SUFFICES ASSUME faults' = 0, NEW d \in Docs, document'[d].status = "active"
               PROVE  d = head' \/ \E q \in Reviews : Answers(review'[q], d)
    BY DEF ActiveSound
  <2>1. place = "swapped" /\ faults = 0 /\ document[d].status = "active"
    OBVIOUS
  <2>2. CASE d = head
    BY <1>3, <1>7, <2>1, <2>2 DEF Answers
  <2>3. ASSUME NEW q \in Reviews, Answers(review[q], d)
        PROVE  d = head' \/ Answers(review'[q], d)
    BY <1>7, <2>3 DEF Answers, Subject
  <2> QED BY <2>1, <2>2, <2>3 DEF IInv, ActiveSound
<1> QED BY <1>4, <1>5, <1>7, <1>8, NoDocument
        DEF IInv, TypeOK, ReviewRow, readers

LEMMA Swaps ==
  ASSUME IInv, NEW r \in Reviews, Swap(r)
  PROVE  IInv'
<1>1. CASE head = review[r].old
  BY <1>1, Swapping DEF Swap, At
<1>2. CASE head # review[r].old
  <2>1. review[r] \in ReviewRow /\ Sound(review[r], head)
    BY DEF IInv, TypeOK, ReviewRow, ReviewsSound
  <2> DEFINE row == Moved(review[r], "undoing")
  <2>2. /\ UNCHANGED <<document, published, readers, faults>>
        /\ review[r].at = "activated"
        /\ review' = [review EXCEPT ![r] = row]
    BY <1>2 DEF Swap, At, Goes, published
  <2>3. row \in ReviewRow /\ row.at = "undoing" /\ row.doc = review[r].doc
    BY <2>1, Going DEF Places
  <2> HIDE DEF row
  <2>4. Sound(row, head)
    BY <2>1, <2>2, <2>3, SoundElsewhere
  <2>5. \A d \in Docs : Answers(review[r], d) => Answers(row, d)
    BY <2>2, <2>3 DEF Answers
  <2>6. /\ review' \in [Reviews -> ReviewRow]
        /\ document' \in [Docs -> Row]
        /\ ReviewsSound' /\ ArchivedGaveWay' /\ ActiveSound'
    BY <2>2, <2>3, <2>4, <2>5, Moves DEF published
  <2> QED BY <2>2, <2>6 DEF IInv, TypeOK, ReviewRow, published, readers
<1> QED BY <1>1, <1>2

-----------------------------------------------------------------------------
(* Errors, crashes, withdrawals and searches.                              *)

LEMMA FaultTyped ==
  ASSUME IInv, Fault
  PROVE  faults' \in 0..MaxFaults /\ faults' # 0
  BY FaultsAssumption DEF IInv, TypeOK, Fault

LEMMA Erring ==
  ASSUME IInv, NEW r \in Reviews, Error(r)
  PROVE  IInv'
<1>1. review[r] \in ReviewRow /\ Sound(review[r], head)
  BY DEF IInv, TypeOK, ReviewRow, ReviewsSound
<1> DEFINE place == Catch(review[r].at)
           row == Moved(review[r], place)
<1>2. /\ UNCHANGED <<document, published, readers>>
      /\ faults' \in 0..MaxFaults /\ faults' # 0
      /\ review[r].at \notin {"idle", "ended"}
      /\ review' = [review EXCEPT ![r] = row]
  BY FaultTyped DEF Error, Finished, Goes
<1>3. place \in {"undoing", "leaving", "ended"}
  BY DEF Catch
<1>4. /\ row \in ReviewRow /\ row.at = place
      /\ place # "ended" => row.doc = review[r].doc
  <2> HIDE DEF place
  <2> QED BY <1>1, <1>3, Going DEF Places
<1> HIDE DEF row, place
<1>5. Sound(row, head)
  BY <1>1, <1>2, <1>3, <1>4 DEF Sound
<1>6. /\ review' \in [Reviews -> ReviewRow]
      /\ document' \in [Docs -> Row]
      /\ ReviewsSound' /\ ArchivedGaveWay' /\ ActiveSound'
  <2>1. UNCHANGED <<document, head>>
    BY <1>2 DEF published
  <2> QED BY <1>2, <1>4, <1>5, <2>1, Moves
<1> QED BY <1>2, <1>6
        DEF IInv, TypeOK, ReviewRow, published, readers

LEMMA LosingAnswers ==
  ASSUME IInv, NEW r \in Reviews, Unanswered(r)
  PROVE  IInv'
<1>1. /\ review[r] \in ReviewRow
      /\ Sound(review[r], head)
      /\ document \in [Docs -> Row]
      /\ faults' \in 0..MaxFaults /\ faults' # 0
      /\ UNCHANGED <<corpus, readers>>
  BY FaultTyped DEF IInv, TypeOK, ReviewRow, ReviewsSound, Unanswered
<1>2. CASE At(r, "activated")
  <2>1. /\ Goes(r, "undoing") /\ head = review[r].old /\ head' = Subject(r)
        /\ UNCHANGED <<document, lease>>
    BY <1>2 DEF Unanswered, At, Catch
  <2> QED BY <1>1, <1>2, <2>1, Swapping DEF At
<1>3. CASE At(r, "fetched")
  <2> DEFINE row == Moved(review[r], "ended")
  <2>1. /\ UNCHANGED <<document, head>>
        /\ lease' = [owner |-> r, live |-> TRUE]
        /\ review' = [review EXCEPT ![r] = row]
    BY <1>3 DEF Unanswered, At, Catch, Goes
  <2>2. row \in ReviewRow /\ row.at = "ended"
    BY <1>1, Going DEF Places
  <2> HIDE DEF row
  <2>3. Sound(row, head)
    BY <2>2 DEF Sound
  <2>4. /\ review' \in [Reviews -> ReviewRow]
        /\ document' \in [Docs -> Row]
        /\ ReviewsSound' /\ ArchivedGaveWay' /\ ActiveSound'
    BY <1>1, <2>1, <2>2, <2>3, Moves
  <2>5. lease' \in [owner : Reviews, live : BOOLEAN]
    BY <2>1
  <2> QED BY <1>1, <2>1, <2>4, <2>5
          DEF IInv, TypeOK, ReviewRow, readers
<1>4. CASE At(r, "checked")
  <2> DEFINE row == Moved(review[r], "leaving")
             new == [document[Subject(r)] EXCEPT !.status = "active"]
  <2>1. /\ UNCHANGED <<head, lease>>
        /\ review' = [review EXCEPT ![r] = row]
        /\ document' = [document EXCEPT ![Subject(r)] = new]
    BY <1>4 DEF Unanswered, At, Catch, Goes, SetStatus
  <2>2. /\ row \in ReviewRow /\ row.at = "leaving" /\ row.doc = review[r].doc
    BY <1>1, Going DEF Places
  <2>3. Subject(r) \in Docs
    BY <1>1, <1>4 DEF At, Subject, Sound
  <2>4. new \in Row /\ new.status = "active"
    BY <1>1, <2>3 DEF Row
  <2> HIDE DEF row, new
  <2>5. Sound(row, head)
    BY <1>1, <1>4, <2>2, SoundElsewhere DEF At
  <2>6. /\ review' \in [Reviews -> ReviewRow]
        /\ document' \in [Docs -> Row]
        /\ ReviewsSound' /\ ArchivedGaveWay' /\ ActiveSound'
    BY <1>1, <2>1, <2>2, <2>3, <2>4, <2>5, Writes
  <2> QED BY <1>1, <2>1, <2>6
          DEF IInv, TypeOK, ReviewRow, readers
<1> QED BY <1>2, <1>3, <1>4 DEF Unanswered

LEMMA Crashing ==
  ASSUME IInv, NEW p \in Processes, Crash(p)
  PROVE  IInv'
<1>1. /\ review \in [Reviews -> ReviewRow]
      /\ \A r \in Reviews : Sound(review[r], head)
      /\ faults' \in 0..MaxFaults /\ faults' # 0
      /\ UNCHANGED <<document, published>>
  BY FaultTyped DEF IInv, TypeOK, ReviewRow, ReviewsSound, Crash
<1>2. \A r \in Reviews :
        /\ Moved(review[r], "ended") \in ReviewRow
        /\ Sound(Moved(review[r], "ended"), head)
  BY <1>1, Going DEF Places, Sound
<1>3. \A r \in Reviews :
        \/ review'[r] = review[r]
        \/ review'[r] = Moved(review[r], "ended")
  BY DEF Crash
<1>4. review' \in [Reviews -> ReviewRow]
  <2>1. \A r \in Reviews : review'[r] \in ReviewRow
    BY <1>1, <1>2, <1>3
  <2>2. review' = [r \in Reviews |-> review'[r]]
    BY DEF Crash
  <2> QED BY <2>1, <2>2, Zenon
<1>5. ReviewsSound'
  <2>1. head' = head
    BY <1>1 DEF published
  <2>2. ASSUME NEW r \in Reviews PROVE Sound(review'[r], head')
    BY <1>1, <1>2, <1>3, <2>1, Zenon
  <2> QED BY <2>2, Zenon DEF ReviewsSound
<1>6. ArchivedGaveWay' /\ ActiveSound'
  BY <1>1 DEF IInv, ArchivedGaveWay, ActiveSound, published
<1>7. search' \in [Searches -> Nat \cup {None}]
  BY DEF Crash, IInv, TypeOK
<1>8. index' \in [Processes -> [revision : Nat \cup {None}, docs : SUBSET Docs]]
  BY DEF Crash, IInv, TypeOK
<1> QED BY <1>1, <1>4, <1>5, <1>6, <1>7, <1>8
        DEF IInv, TypeOK, ReviewRow, published

LEMMA Withdrawing ==
  ASSUME IInv, NEW d \in Docs, Withdraw(d)
  PROVE  IInv'
<1> DEFINE new == [status |-> "archived", archived_by |-> TRUE]
<1>1. /\ document' = [document EXCEPT ![d] = new]
      /\ corpus' = corpus + 1
      /\ UNCHANGED <<head, lease, review, readers, faults>>
  BY DEF Withdraw
<1>2. new \in Row /\ new.status = "archived" /\ new.archived_by
  BY DEF Row
<1>3. HeadMoves
  BY <1>1 DEF HeadMoves
<1> HIDE DEF new
<1>4. /\ document' \in [Docs -> Row]
      /\ ArchivedGaveWay'
      /\ document'[d] = new
      /\ \A e \in Docs : e # d => document'[e] = document[e]
  BY <1>1, <1>2, <1>3, OneDocument
<1>5. ReviewsSound' /\ ActiveSound'
  BY <1>1, <1>2, <1>4 DEF IInv, ReviewsSound, ActiveSound
<1> QED BY <1>1, <1>4, <1>5 DEF IInv, TypeOK, readers

\* Nothing a search or the clock does concerns the publishers.
LEMMA Watching ==
  ASSUME IInv,
         \/ \E s \in Searches : ReadRevision(s) \/ Refresh(s)
         \/ Expire
         \/ UNCHANGED vars
  PROVE  IInv'
<1>1. UNCHANGED <<document, head, corpus, review, faults>>
  BY DEF ReadRevision, Refresh, Expire, published, vars
<1>2. search' \in [Searches -> Nat \cup {None}]
  BY DEF IInv, TypeOK, ReadRevision, Refresh, Expire, readers, vars
<1>3. index' \in [Processes -> [revision : Nat \cup {None}, docs : SUBSET Docs]]
  <2>1. CASE UNCHANGED index
    BY <2>1 DEF IInv, TypeOK
  <2>2. ASSUME NEW s \in Searches, Refresh(s)
        PROVE  index' \in [Processes -> [revision : Nat \cup {None},
                                         docs : SUBSET Docs]]
    <3> DEFINE p == ProcessOf[s]
               new == [revision |-> search[s], docs |-> Active]
    <3>1. new \in [revision : Nat \cup {None}, docs : SUBSET Docs]
      BY DEF IInv, TypeOK, Active
    <3>2. index' = index \/ index' = [index EXCEPT ![p] = new]
      BY <2>2 DEF Refresh
    <3> HIDE DEF new, p
    <3> QED BY <3>1, <3>2 DEF IInv, TypeOK
  <2> QED BY <2>1, <2>2 DEF ReadRevision, Expire, readers, vars
<1>4. lease' \in [owner : Reviews, live : BOOLEAN] \cup {None}
  BY DEF IInv, TypeOK, ReadRevision, Refresh, Expire, Held, published, vars
<1>5. ReviewsSound' /\ ArchivedGaveWay' /\ ActiveSound'
  BY <1>1 DEF IInv, ReviewsSound, ArchivedGaveWay, ActiveSound
<1> QED BY <1>1, <1>2, <1>3, <1>4, <1>5 DEF IInv, TypeOK
-----------------------------------------------------------------------------
LEMMA StepInvariant == IInv /\ [Next]_vars => IInv'
<1> SUFFICES ASSUME IInv, [Next]_vars PROVE IInv'
  OBVIOUS
<1>1. ASSUME NEW r \in Reviews, Reviewing(r) PROVE IInv'
  BY <1>1, Beginning, Reading, Writing DEF Reviewing
<1>2. ASSUME NEW r \in Reviews, Publishing(r) PROVE IInv'
  BY <1>2, Reading, Leasing, Writing, Swaps, Archiving DEF Publishing
<1>3. ASSUME NEW r \in Reviews, Failing(r) PROVE IInv'
  BY <1>3, Erring, LosingAnswers DEF Failing
<1>4. ASSUME NEW p \in Processes, Crash(p) PROVE IInv'
  BY <1>4, Crashing
<1>5. ASSUME NEW d \in Withdrawable, Withdraw(d) PROVE IInv'
  BY <1>5, Withdrawing, DocsAssumption
<1>6. CASE \/ \E s \in Searches : ReadRevision(s) \/ Refresh(s)
           \/ Expire
           \/ UNCHANGED vars
  BY <1>6, Watching
<1> QED BY <1>1, <1>2, <1>3, <1>4, <1>5, <1>6 DEF Next

\* The inductive invariant holds for any number of documents, reviews,
\* processes and faults.
THEOREM PublisherInvariance == Spec => []IInv
<1>1. Init => IInv
  BY InitInvariant
<1>2. IInv /\ [Next]_vars => IInv'
  BY StepInvariant
<1> QED BY <1>1, <1>2, PTL DEF Spec

\* The state is well typed, and no more faults happen than the model admits.
THEOREM PublisherTypeCorrect == Spec => []TypeOK
<1>1. IInv => TypeOK
  BY DEF IInv
<1> QED BY <1>1, PublisherInvariance, PTL

\* A document archived for another gave way to a newer one, whichever
\* publisher outlived its lease.
THEOREM ArchivedInOrder == Spec => []ArchivedGaveWay
<1>1. IInv => ArchivedGaveWay
  BY DEF IInv
<1> QED BY <1>1, PublisherInvariance, PTL

\* The reviews that lost the race for the head have taken back what they made
\* active, or archived it, by the time all of them have ended.
THEOREM LosersTakeBack == Spec => []LosersWithdraw
<1>1. IInv => LosersWithdraw
  <2> SUFFICES ASSUME IInv, Quiet, NEW d \in Docs,
                      document[d].status = "active", d # head
               PROVE  FALSE
    BY DEF LosersWithdraw
  <2>1. PICK r \in Reviews : Answers(review[r], d)
    BY DEF IInv, ActiveSound, Quiet
  <2> QED BY <2>1 DEF Answers, Quiet, Finished
<1> QED BY <1>1, PublisherInvariance, PTL
-----------------------------------------------------------------------------
(* The index of a process.                                                 *)

\* A revision that was read is none that is to come.
Past(revision, now) == revision = None \/ revision <= now

RevisionsPast ==
  /\ \A p \in Processes : Past(index[p].revision, corpus)
  /\ \A s \in Searches : Past(search[s], corpus)

\* A review that will count a new revision, or that has brought the head back
\* under its eyes and will not leave it active.
Amends(row, h) ==
  \/ row.at = "swapped"
  \/ row.at \in {"indexing", "activated", "undoing"} /\ row.doc = h

\* The index of p counts as up to date and lacks the document in force.
Lacking(p) ==
  /\ index[p].revision = corpus
  /\ head # None
  /\ document[head].status = "active"
  /\ head \notin index[p].docs

IndexInv ==
  /\ RevisionsPast
  /\ faults = 0 =>
       \A p \in Processes :
         Lacking(p) => \E r \in Reviews : Amends(review[r], head)

LEMMA PastSteps ==
  ASSUME IInv, RevisionsPast, [Next]_vars
  PROVE  RevisionsPast'
<1>1. corpus \in Nat /\ (corpus' = corpus \/ corpus' = corpus + 1)
  BY DEF IInv, TypeOK, Next, Reviewing, Publishing, Failing, vars, published, readers,
     Begin, Copy, Decide, Indexed, Fetch, TakeLease, ReadHead, Activate, Swap, Undo,
     Count, Archive, Leave, Error, Unanswered, Expire, Crash, Withdraw, ReadRevision,
     Refresh
<1>2. \A v \in Nat \cup {None} : Past(v, corpus) => Past(v, corpus')
  BY <1>1 DEF Past
<1>3. /\ \A p \in Processes : index[p].revision \in Nat \cup {None}
      /\ \A s \in Searches : search[s] \in Nat \cup {None}
  BY DEF IInv, TypeOK
<1>4. CASE UNCHANGED readers
  BY <1>2, <1>3, <1>4 DEF RevisionsPast, readers
<1>5. ASSUME NEW p \in Processes, Crash(p) PROVE RevisionsPast'
  <2>1. corpus' = corpus
    BY <1>5 DEF Crash, published
  <2>2. \A s \in Searches : search'[s] \in {None, search[s]}
    BY <1>5 DEF Crash
  <2>3. \A q \in Processes : index'[q].revision \in {None, index[q].revision}
    BY <1>5 DEF Crash, IInv, TypeOK
  <2> QED
    BY <2>1, <2>2, <2>3 DEF RevisionsPast, Past
<1>6. ASSUME NEW s \in Searches, ReadRevision(s) \/ Refresh(s) PROVE RevisionsPast'
  <2>1. corpus' = corpus
    BY <1>6 DEF ReadRevision, Refresh, published
  <2>2. \A q \in Searches : search'[q] \in {None, search[q], corpus}
    BY <1>6 DEF ReadRevision, Refresh, IInv, TypeOK
  <2>3. \A q \in Processes : index'[q].revision \in {search[s], index[q].revision}
    BY <1>6 DEF ReadRevision, Refresh, IInv, TypeOK
  <2> QED
    BY <1>1, <2>1, <2>2, <2>3 DEF RevisionsPast, Past
<1> QED
  BY <1>4, <1>5, <1>6
     DEF Next, Reviewing, Publishing, Failing, vars, Begin, Copy, Decide, Indexed,
     Fetch, TakeLease, ReadHead, Activate, Swap, Undo, Count, Archive, Leave, Error,
     Unanswered, Expire, Withdraw

\* What is left to a step of one review of what an index lacks.
LEMMA LackingStays ==
  ASSUME IInv, IndexInv, faults = 0, NEW r \in Reviews, UNCHANGED <<corpus, index, head>>,
         \A q \in Reviews : q # r => review'[q] = review[q],
         NEW p \in Processes, Lacking(p)',
         \/ Amends(review'[r], head)
         \/ /\ document[head].status = "active"
            /\ ~Amends(review[r], head)
  PROVE  \E q \in Reviews : Amends(review'[q], head')
<1>1. CASE Amends(review'[r], head)
  BY <1>1
<1>2. CASE document[head].status = "active" /\ ~Amends(review[r], head)
  <2>1. Lacking(p)
    BY <1>2 DEF Lacking
  <2>2. PICK q \in Reviews : Amends(review[q], head)
    BY <2>1 DEF IndexInv
  <2> QED
    BY <1>2, <2>2
<1> QED
  BY <1>1, <1>2

\* A new revision is one no index was built for.
LEMMA CountedAnew ==
  ASSUME IInv, IndexInv, corpus' = corpus + 1, UNCHANGED index, NEW p \in Processes
  PROVE  ~Lacking(p)'
<1>1. corpus \in Nat /\ Past(index[p].revision, corpus)
  BY DEF IInv, TypeOK, IndexInv, RevisionsPast
<1>2. index[p].revision # corpus + 1
  BY <1>1, DocsAssumption DEF Past
<1> QED
  BY <1>2 DEF Lacking

LEMMA ReviewIndex ==
  ASSUME IInv, IndexInv, faults = 0, NEW r \in Reviews, Reviewing(r) \/ Publishing(r),
         NEW p \in Processes, Lacking(p)'
  PROVE  \E q \in Reviews : Amends(review'[q], head')
<1>1. /\ review[r] \in ReviewRow
      /\ review \in [Reviews -> ReviewRow]
      /\ document \in [Docs -> Row]
      /\ Sound(review[r], head)
      /\ index' = index
  BY DEF IInv, TypeOK, ReviewRow, ReviewsSound, Reviewing, Publishing, readers,
     Begin, Copy, Decide, Indexed, Fetch, TakeLease, ReadHead, Activate, Swap, Undo,
     Count, Archive, Leave
<1>2. \A q \in Reviews : q # r => review'[q] = review[q]
  BY <1>1 DEF Reviewing, Publishing, Goes, Begin, Copy, Decide, Indexed, Fetch,
     TakeLease, ReadHead, Activate, Swap, Undo, Count, Archive, Leave
<1>3. CASE \/ \E d \in Docs, who \in Actors : Begin(r, d, who)
           \/ Copy(r) \/ Fetch(r) \/ TakeLease(r) \/ ReadHead(r) \/ Leave(r)
  <2>1. UNCHANGED <<corpus, head, document>>
    BY <1>3 DEF Begin, Copy, Fetch, TakeLease, ReadHead, Leave, published
  <2>2. ~Amends(review[r], head)
    BY <1>3 DEF Begin, Copy, Fetch, TakeLease, ReadHead, Leave, At, Amends
  <2>3. document[head].status = "active"
    BY <2>1 DEF Lacking
  <2> QED
    BY <1>1, <1>2, <2>1, <2>2, <2>3, LackingStays
<1>4. ASSUME Decide(r) \/ Activate(r)
      PROVE  \E q \in Reviews : Amends(review'[q], head')
  <2>1. UNCHANGED <<corpus, head>>
    BY <1>4 DEF Decide, Activate, published
  <2>2. review'[r].at \in {"indexing", "activated"} /\ review'[r].doc = Subject(r)
    BY <1>1, <1>4, Going DEF Decide, Activate, Goes, Subject, Places
  <2>3. ~Amends(review[r], head)
    BY <1>4 DEF Decide, Activate, At, Amends
  <2>4. Subject(r) = head \/ document'[head] = document[head]
    <3>1. head \in Docs
      BY <2>1 DEF Lacking, IInv, TypeOK
    <3>2. CASE Decide(r)
      BY <1>1, <3>1, <3>2 DEF Decide
    <3>3. CASE Activate(r)
      BY <1>1, <3>1, <3>3 DEF Activate, SetStatus
    <3> QED
      BY <1>4, <3>2, <3>3
  <2>5. document'[head].status = "active"
    BY <2>1 DEF Lacking
  <2> QED
    BY <1>1, <1>2, <2>1, <2>2, <2>3, <2>4, <2>5, LackingStays DEF Amends
<1>5. ASSUME Indexed(r) \/ Undo(r)
      PROVE  \E q \in Reviews : Amends(review'[q], head')
  <2>1. UNCHANGED <<corpus, head>> /\ review[r].at \in {"indexing", "undoing"}
    BY <1>5 DEF Indexed, Undo, published, At
  <2>2. SetStatus(Subject(r), "pending_review") /\ Subject(r) \in Docs
    BY <1>1, <1>5, <2>1 DEF Indexed, Undo, Sound, Subject
  <2>3. document'[head].status = "active"
    BY <2>1 DEF Lacking
  <2>4. Subject(r) # head /\ document'[head] = document[head]
    BY <1>1, <2>2, <2>3 DEF SetStatus
  <2>5. ~Amends(review[r], head)
    BY <2>1, <2>4 DEF Amends, Subject
  <2> QED
    BY <1>1, <1>2, <2>1, <2>3, <2>4, <2>5, LackingStays
<1>6. CASE Swap(r)
  <2>1. UNCHANGED <<corpus, document>>
    BY <1>6 DEF Swap
  <2>2. CASE head = review[r].old
    <3>1. review'[r].at = "swapped"
      BY <1>1, <1>6, <2>2, Going DEF Swap, Goes, Places
    <3> QED
      BY <3>1 DEF Amends
  <2>3. CASE head # review[r].old
    <3>1. /\ review'[r].at = "undoing" /\ review'[r].doc = review[r].doc
          /\ head' = head /\ review[r].at = "activated"
      BY <1>1, <1>6, <2>3, Going DEF Swap, Goes, Places, At
    <3>2. Amends(review[r], head) => Amends(review'[r], head)
      BY <3>1 DEF Amends
    <3>3. document[head].status = "active"
      BY <2>1, <3>1 DEF Lacking
    <3> QED
      BY <1>1, <1>2, <2>1, <3>1, <3>2, <3>3, LackingStays
  <2> QED
    BY <2>2, <2>3
<1>7. CASE Count(r)
  BY <1>1, <1>7, CountedAnew DEF Count
<1>8. CASE Archive(r)
  <2>1. UNCHANGED <<corpus, head>> /\ review[r].at = "counted"
    BY <1>8 DEF Archive, published, At
  <2>2. document'[head].status = "active"
    BY <2>1 DEF Lacking
  <2>3. ~Amends(review[r], head)
    BY <2>1 DEF Amends
  <2>4. document'[head] = document[head] \/ document'[head].status = "archived"
    <3>1. head \in Docs
      BY <2>1 DEF Lacking, IInv, TypeOK
    <3> DEFINE old == review[r].old
    <3>2. document' = document \/ document' = [document EXCEPT ![old].status = "archived"]
      BY <1>8 DEF Archive, SetStatus
    <3>3. CASE old = head
      BY <1>1, <3>1, <3>2, <3>3 DEF Row
    <3>4. CASE old # head
      BY <1>1, <3>1, <3>2, <3>4
    <3> QED
      BY <3>3, <3>4
  <2> QED
    BY <1>1, <1>2, <2>1, <2>2, <2>3, <2>4, LackingStays
<1> QED
  BY <1>3, <1>4, <1>5, <1>6, <1>7, <1>8 DEF Reviewing, Publishing

LEMMA RefreshedIndex ==
  ASSUME IInv, IndexInv, faults = 0, NEW s \in Searches, Refresh(s),
         NEW p \in Processes, Lacking(p)'
  PROVE  \E q \in Reviews : Amends(review'[q], head')
<1>1. UNCHANGED <<document, head, corpus, review>>
  BY DEF Refresh, published
<1>2. head \in Docs /\ document[head].status = "active"
  BY <1>1 DEF Lacking, IInv, TypeOK
<1>3. index'[p] = index[p] \/ index'[p].docs = Active
  BY DEF Refresh, IInv, TypeOK
<1>4. index'[p] = index[p]
  BY <1>1, <1>2, <1>3 DEF Lacking, Active
<1>5. Lacking(p)
  BY <1>1, <1>4 DEF Lacking
<1> QED
  BY <1>1, <1>5 DEF IndexInv

LEMMA IndexSteps == IInv /\ IndexInv /\ [Next]_vars => IndexInv'
<1> SUFFICES ASSUME IInv, IndexInv, [Next]_vars PROVE IndexInv'
  OBVIOUS
<1>1. RevisionsPast'
  BY PastSteps DEF IndexInv
<1>2. ASSUME faults' = 0, NEW p \in Processes, Lacking(p)'
      PROVE  \E r \in Reviews : Amends(review'[r], head')
  <2>1. /\ faults = 0
        /\ ~ \E r \in Reviews : Failing(r)
        /\ ~ \E q \in Processes : Crash(q)
    <3>1. faults \in 0..MaxFaults /\ faults + 1 # 0
      BY FaultsAssumption DEF IInv, TypeOK
    <3>2. ~Fault
      BY <1>2, <3>1 DEF Fault
    <3>3. (~ \E r \in Reviews : Failing(r)) /\ (~ \E q \in Processes : Crash(q))
      BY <3>2 DEF Failing, Error, Unanswered, Crash
    <3> QED
      BY <1>2, <3>3 DEF Next, Reviewing, Publishing, vars, Begin, Copy, Decide, Indexed,
         Fetch, TakeLease, ReadHead, Activate, Swap, Undo, Count, Archive, Leave,
         Expire, Withdraw, ReadRevision, Refresh
  <2>2. CASE \E r \in Reviews : Reviewing(r) \/ Publishing(r)
    BY <1>2, <2>1, <2>2, ReviewIndex
  <2>3. CASE \E d \in Withdrawable : Withdraw(d)
    BY <1>2, <2>3, CountedAnew DEF Withdraw, readers
  <2>4. CASE \E s \in Searches : Refresh(s)
    BY <1>2, <2>1, <2>4, RefreshedIndex
  <2>5. CASE Expire \/ (\E s \in Searches : ReadRevision(s)) \/ UNCHANGED vars
    <3>1. UNCHANGED <<document, head, corpus, review, index>>
      BY <2>5 DEF Expire, ReadRevision, vars, published, readers
    <3>2. Lacking(p)
      BY <1>2, <3>1 DEF Lacking
    <3> QED
      BY <2>1, <3>1, <3>2 DEF IndexInv
  <2> QED
    BY <2>1, <2>2, <2>3, <2>4, <2>5 DEF Next
<1> QED
  BY <1>1, <1>2 DEF IndexInv

\* An index that counts as up to date when every review has ended, without an
\* error or a crash, has the document in force, however the reviews, the
\* withdrawals and the searches of the processes met.
THEOREM IndexesComplete == Spec => []IndexIsComplete
<1>1. Init => IndexInv
  BY DEF Init, IndexInv, RevisionsPast, Past, Lacking
<1>2. IInv /\ IndexInv => IndexIsComplete
  <2> SUFFICES ASSUME IInv, IndexInv, Quiet, NEW p \in Processes, Lacking(p)
               PROVE  FALSE
    BY DEF IndexIsComplete, Lacking
  <2>1. PICK r \in Reviews : Amends(review[r], head)
    BY DEF IndexInv, Quiet
  <2> QED
    BY <2>1 DEF Amends, Quiet, Finished
<1> QED
  BY <1>1, <1>2, IndexSteps, PublisherInvariance, PTL DEF Spec
-----------------------------------------------------------------------------
(* The head.                                                               *)

\* A swap sets the head to a document newer than the one it read, which is
\* the one the head still is.
LEMMA HeadAdvances ==
  ASSUME IInv, NEW r \in Reviews, Swap(r) \/ Unanswered(r), head' # head
  PROVE  head' # None /\ (head = None \/ Version[head] < Version[head'])
<1>1. /\ At(r, "activated")
      /\ head = review[r].old
      /\ head' = Subject(r)
  BY DEF Swap, Unanswered
<1>2. Sound(review[r], head)
  BY DEF IInv, ReviewsSound
<1> QED BY <1>1, <1>2, DocsAssumption DEF Sound, At, Subject

\* The head of a topic is never lost and never goes back to an older version,
\* however many publishers run at once and whatever fails.
THEOREM HeadsGrow == Spec => HeadsAdvance
<1> DEFINE Advance == head' # head => /\ head' # None
                                      /\ head = None \/ Version[head] < Version[head']
<1>1. ASSUME IInv, [Next]_vars PROVE Advance
  <2> SUFFICES ASSUME head' # head PROVE Advance
    OBVIOUS
  <2>1. PICK r \in Reviews : Swap(r) \/ Unanswered(r)
    BY <1>1 DEF Next, Reviewing, Publishing, Failing, vars, published, readers,
       Begin, Copy, Decide, Indexed, Fetch, TakeLease, ReadHead, Activate, Undo,
       Count, Archive, Leave, Error, Expire, Crash, Withdraw, ReadRevision, Refresh
  <2> QED BY <1>1, <2>1, HeadAdvances
<1>2. IInv /\ [Next]_vars => [Advance]_vars
  BY <1>1
<1> QED BY <1>2, PublisherInvariance, PTL DEF Spec, HeadsAdvance
=============================================================================
