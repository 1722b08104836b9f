--------------------------- MODULE LibrariesProofs ---------------------------
(***************************************************************************)
(* What MCLibraries checks of the libraries, the chat and the static       *)
(* workbench, for every value of the constants.  Each part has an          *)
(* invariant that its steps keep, from which the property follows:         *)
(*                                                                         *)
(* UploadsInv: a row keeps the owner and the hash it was announced with,   *)
(* and what a request found out of its upload still holds of it, so that a *)
(* request that goes on late stores the file announced.                    *)
(*                                                                         *)
(* SourcesInv: an import knows the head it expects and its archive is      *)
(* stored before the head is swapped; what a load wrote of an index is     *)
(* stored; a row of the folder is not newer than its file; and what a      *)
(* request read of a source is not newer than what the model answered      *)
(* from, and that not newer than the source is now.                        *)
(*                                                                         *)
(* LimitsInv: of all the calls made, a queue holds the last, and those it  *)
(* dropped are out of the window, as time only passes.                     *)
(*                                                                         *)
(* PageInv: what is under way for the task, the policy or the answer on    *)
(* display is of the present request, or of one that it cannot disturb any *)
(* more.                                                                   *)
(***************************************************************************)
EXTENDS MCLibraries, FiniteSetTheorems, SequenceTheorems, WellFoundedInduction, TLAPS

\* What is under way: a part is sent, parts are gathered, the upload goes on.
Errand ==
  [task : {"send"}, upload : Uploads, part : Parts, content : Contents]
    \cup [task : {"gather"}, upload : Uploads, got : [Parts -> Contents \cup {None}]]
    \cup [task : {"save", "compare", "swap", "log"}, upload : Uploads]

ChunksTyped ==
  /\ pieces \in [Uploads -> [Parts -> Contents \cup {None}]]
  /\ request \in [Requests -> Errand \cup {None}]

Announcement == [owner : Owners, sha256 : Contents, live : BOOLEAN]
Code == [status : {"unused", "live", "expired", "gone"}, owner : Owners \cup {None},
         documents : SUBSET Uploads]

\* Of the constants: None is nothing else, and the caps leave room for a document.
LibraryConstants ==
  /\ None \notin Errand \cup Announcement \cup Owners
  /\ IsFiniteSet(Uploads)
  /\ MaxDocuments \in Nat \ {0} /\ MaxTotal \in Nat \ {0}
  /\ old \in Uploads /\ a \in Owners /\ x \in Contents

Chunk(r) ==
  \/ \E u \in Uploads, n \in Parts, c \in Contents : Private!SendPart(r, u, n, c)
  \/ Private!StorePart(r)
  \/ \E u \in Uploads : Private!Gather(r, u)
  \/ \E n \in Parts : Private!ReadPart(r, n)
  \/ Private!GiveUp(r)

LEMMA ChunksStayTyped ==
  ASSUME ChunksTyped, NEW r \in Requests, Chunk(r)
  PROVE  ChunksTyped'
<1> USE DEF ChunksTyped
<1>0. request[r] \in Errand \cup {None}
  OBVIOUS
<1>1. ASSUME NEW u \in Uploads, NEW n \in Parts, NEW c \in Contents, Private!SendPart(r, u, n, c)
      PROVE  ChunksTyped'
  <2>1. [task |-> "send", upload |-> u, part |-> n, content |-> c] \in Errand
    BY DEF Errand
  <2> QED
    BY <1>1, <2>1 DEF Private!SendPart
<1>2. ASSUME Private!StorePart(r) PROVE ChunksTyped'
  <2>1. request[r] \in [task : {"send"}, upload : Uploads, part : Parts, content : Contents]
    BY <1>0, <1>2 DEF Private!StorePart, Private!Doing, Errand
  <2> QED
    BY <1>2, <2>1 DEF Private!StorePart
<1>3. ASSUME NEW u \in Uploads, Private!Gather(r, u) PROVE ChunksTyped'
  <2>1. [task |-> "gather", upload |-> u, got |-> [n \in Parts |-> None]] \in Errand
    BY DEF Errand
  <2> QED
    BY <1>3, <2>1 DEF Private!Gather
<1>4. ASSUME NEW n \in Parts, Private!ReadPart(r, n) PROVE ChunksTyped'
  <2>1. request[r] \in [task : {"gather"}, upload : Uploads, got : [Parts -> Contents \cup {None}]]
    BY <1>0, <1>4 DEF Private!ReadPart, Private!Doing, Errand
  <2>2. PICK next : next = [request[r] EXCEPT !.got[n] = pieces[request[r].upload][n]]
    OBVIOUS
  <2>3. next \in Errand
    BY <2>1, <2>2 DEF Errand
  <2>4. request' = [request EXCEPT ![r] = next]
    BY <1>4, <2>2 DEF Private!ReadPart
  <2> QED
    BY <1>4, <2>3, <2>4 DEF Private!ReadPart
<1>5. ASSUME Private!GiveUp(r) PROVE ChunksTyped'
  BY <1>5 DEF Private!GiveUp
<1> QED
  BY <1>1, <1>2, <1>3, <1>4, <1>5 DEF Chunk
-----------------------------------------------------------------------------
(* The private library.                                                     *)
PrivateTyped ==
  /\ announced \in [Uploads -> Announcement \cup {None}]
  /\ owner \in [Uploads -> Owners \cup {None}]
  /\ texts \in [Uploads -> {None} \cup [Parts -> Contents \cup {None}]]
  /\ codes \in [Codes -> Code]
  /\ origin \in [Uploads -> {"finished", "claimed", None}]

\* What is stored of an upload is the file announced.
StoredWhole(u) ==
  announced[u] # None /\ texts[u] = Private!Piecewise(announced[u].sha256)

\* What a request found out of its upload still holds of it.
RequestsInv ==
  \A r \in Requests :
    /\ Private!Doing(r, "gather") => announced[request[r].upload] # None
    /\ Private!Doing(r, "save") => StoredWhole(request[r].upload)

PrivateInv ==
  /\ ChunksTyped
  /\ PrivateTyped
  /\ \A u \in Uploads : owner[u] # None => StoredWhole(u)
  /\ RequestsInv
  /\ \A k \in Codes : codes[k].status = "live" => codes[k].owner # None
  /\ Private!OneCopyUnlessClaimed

\* A row keeps its owner and its hash, and texts are stored of its file only.
RowsStand ==
  \A u \in Uploads : announced[u] # None =>
    /\ announced'[u] # None
    /\ announced'[u].owner = announced[u].owner
    /\ announced'[u].sha256 = announced[u].sha256
    /\ texts'[u] \in {texts[u], Private!Piecewise(announced[u].sha256)}

LEMMA StoredStays ==
  ASSUME RowsStand, NEW u \in Uploads, StoredWhole(u)
  PROVE  StoredWhole(u)'
BY DEF RowsStand, StoredWhole, Private!Piecewise

\* A step that leaves the documents alone keeps what is said of them.
LEMMA DocumentsStay ==
  ASSUME LibraryConstants, PrivateInv, RowsStand, UNCHANGED <<owner, origin>>
  PROVE  /\ (\A u \in Uploads : owner[u] # None => StoredWhole(u))'
         /\ Private!OneCopyUnlessClaimed'
<1>1. (\A u \in Uploads : owner[u] # None => StoredWhole(u))'
  BY StoredStays DEF PrivateInv
<1>2. ASSUME NEW u \in Uploads, NEW v \in Uploads, owner'[u] # None, owner'[v] # None, u # v,
             owner'[u] = owner'[v], announced'[u].sha256 = announced'[v].sha256
      PROVE  "claimed" \in {origin'[u], origin'[v]}
  <2>1. StoredWhole(u) /\ StoredWhole(v)
    BY <1>2 DEF PrivateInv
  <2>2. announced[u].sha256 = announced[v].sha256
    BY <1>2, <2>1 DEF StoredWhole, RowsStand
  <2> QED
    BY <1>2, <2>2 DEF PrivateInv, Private!OneCopyUnlessClaimed, Private!Documents
<1> QED
  BY <1>1, <1>2 DEF Private!OneCopyUnlessClaimed, Private!Documents

\* So do the requests that go on with what they found.
LEMMA OthersGoOn ==
  ASSUME PrivateInv, RowsStand, NEW r \in Requests,
         \A q \in Requests : q # r => request'[q] = request[q],
         Private!Doing(r, "gather")' => (announced[request[r].upload] # None)',
         Private!Doing(r, "save")' => StoredWhole(request[r].upload)'
  PROVE  RequestsInv'
<1> SUFFICES ASSUME NEW q \in Requests, q # r
             PROVE  /\ Private!Doing(q, "gather")' => (announced[request[q].upload] # None)'
                    /\ Private!Doing(q, "save")' => StoredWhole(request[q].upload)'
  BY DEF RequestsInv
<1>1. request[q] \in Errand \cup {None} /\ request'[q] = request[q]
  BY DEF PrivateInv, ChunksTyped
<1>2. request[q] # None => request[q].upload \in Uploads
  BY <1>1 DEF Errand
<1>3. Private!Doing(q, "gather") => announced[request[q].upload] # None
  BY DEF PrivateInv, RequestsInv
<1>4. Private!Doing(q, "save") => StoredWhole(request[q].upload)
  BY DEF PrivateInv, RequestsInv
<1>5. Private!Doing(q, "gather")' => (announced[request[q].upload] # None)'
  BY <1>1, <1>2, <1>3 DEF Private!Doing, RowsStand
<1>6. Private!Doing(q, "save")' => StoredWhole(request[q].upload)'
  BY <1>1, <1>2, <1>4 DEF Private!Doing, RowsStand, StoredWhole, Private!Piecewise
<1> QED
  BY <1>5, <1>6

LEMMA OthersStand ==
  ASSUME PrivateInv, RowsStand, UNCHANGED request
  PROVE  RequestsInv'
<1> SUFFICES ASSUME NEW q \in Requests
             PROVE  /\ Private!Doing(q, "gather")' => (announced[request[q].upload] # None)'
                    /\ Private!Doing(q, "save")' => StoredWhole(request[q].upload)'
  BY DEF RequestsInv
<1>1. request[q] # None => request[q].upload \in Uploads
  BY DEF PrivateInv, ChunksTyped, Errand
<1>2. /\ Private!Doing(q, "gather") => announced[request[q].upload] # None
      /\ Private!Doing(q, "save") => StoredWhole(request[q].upload)
  BY DEF PrivateInv, RequestsInv
<1> QED
  BY <1>1, <1>2 DEF Private!Doing, RowsStand, StoredWhole, Private!Piecewise

\* The parts of an upload, whatever the documents do.
Uploading(r) ==
  \/ \E u \in Uploads, n \in Parts, c \in Contents : Private!Send(r, u, n, c)
  \/ \E u \in Uploads : Private!Finish(r, u)
  \/ \E n \in Parts : Private!Read(r, n)
  \/ Private!Store(r) \/ Private!Abandon(r)

LEMMA UploadingSteps ==
  ASSUME LibraryConstants, PrivateInv, NEW r \in Requests, Uploading(r)
  PROVE  PrivateInv'
<1>1. Chunk(r)
  BY DEF Uploading, Chunk, Private!Send, Private!Finish, Private!Read, Private!Store,
         Private!Abandon
<1>2. UNCHANGED Private!state
  BY DEF Uploading, Private!Send, Private!Finish, Private!Read, Private!Store, Private!Abandon
<1>3. ChunksTyped'
  BY <1>1, ChunksStayTyped DEF PrivateInv
<1>4. PrivateTyped' /\ RowsStand
  BY <1>2 DEF PrivateInv, PrivateTyped, RowsStand, Private!state
<1>5. /\ \A q \in Requests : q # r => request'[q] = request[q]
      /\ Private!Doing(r, "gather")' => (announced[request[r].upload] # None)'
      /\ Private!Doing(r, "save")' => StoredWhole(request[r].upload)'
  <2>0. request \in [Requests -> Errand \cup {None}]
    BY DEF PrivateInv, ChunksTyped
  <2>1. ASSUME NEW u \in Uploads, NEW n \in Parts, NEW c \in Contents, Private!Send(r, u, n, c)
        PROVE  <1>5!1 /\ ~Private!Doing(r, "gather")' /\ ~Private!Doing(r, "save")'
    BY <2>0, <2>1 DEF Private!Send, Private!SendPart, Private!Doing
  <2>2. ASSUME Private!Store(r) \/ Private!Abandon(r)
        PROVE  <1>5!1 /\ ~Private!Doing(r, "gather")' /\ ~Private!Doing(r, "save")'
    BY <2>0, <2>2 DEF Private!Store, Private!StorePart, Private!Abandon, Private!GiveUp, Private!Doing
  <2>3. ASSUME NEW u \in Uploads, Private!Finish(r, u)
        PROVE  /\ <1>5!1 /\ ~Private!Doing(r, "save")'
               /\ (announced[request[r].upload] # None)'
    BY <2>0, <2>3, <1>2 DEF Private!Finish, Private!Gather, Private!Doing, Private!Live, Private!state
  <2>4. ASSUME NEW n \in Parts, Private!Read(r, n)
        PROVE  /\ <1>5!1 /\ ~Private!Doing(r, "save")'
               /\ (announced[request[r].upload] # None)'
    <3>1. request[r] \in [task : {"gather"}, upload : Uploads, got : [Parts -> Contents \cup {None}]]
      BY <2>0, <2>4 DEF Private!Read, Private!ReadPart, Private!Doing, Errand
    <3>2. PICK next : next = [request[r] EXCEPT !.got[n] = pieces[request[r].upload][n]]
      OBVIOUS
    <3>3. next.task = "gather" /\ next.upload = request[r].upload
      BY <3>1, <3>2
    <3>4. request' = [request EXCEPT ![r] = next]
      BY <2>4, <3>2 DEF Private!Read, Private!ReadPart
    <3>5. announced[request[r].upload] # None
      BY <2>4 DEF Private!Read, Private!ReadPart, PrivateInv, RequestsInv
    <3> QED
      BY <2>0, <3>3, <3>4, <3>5, <1>2 DEF Private!Doing, Private!state
  <2> QED
    BY <2>1, <2>2, <2>3, <2>4 DEF Uploading
<1>6. RequestsInv'
  BY <1>4, <1>5, OthersGoOn
<1>7. /\ (\A u \in Uploads : owner[u] # None => StoredWhole(u))'
      /\ Private!OneCopyUnlessClaimed'
  BY <1>2, <1>4, DocumentsStay DEF Private!state
<1> QED
  BY <1>2, <1>3, <1>4, <1>6, <1>7 DEF PrivateInv, Private!state

LEMMA AnnouncingSteps ==
  ASSUME LibraryConstants, PrivateInv, NEW u \in Uploads,
         (\E o \in Owners, c \in Contents : Private!Start(o, u, c)) \/ Private!ExpireUpload(u)
  PROVE  PrivateInv'
<1>1. announced' \in [Uploads -> Announcement \cup {None}] /\ RowsStand
  <2>1. ASSUME NEW o \in Owners, NEW c \in Contents, Private!Start(o, u, c)
        PROVE  <1>1
    <3>1. [owner |-> o, sha256 |-> c, live |-> TRUE] \in Announcement
      BY DEF Announcement
    <3> QED
      BY <2>1, <3>1 DEF Private!Start, PrivateInv, PrivateTyped, RowsStand
  <2>2. ASSUME Private!ExpireUpload(u) PROVE <1>1
    <3>1. announced[u] \in Announcement
      BY <2>2 DEF Private!ExpireUpload, Private!Live, PrivateInv, PrivateTyped
    <3>2. PICK next : next = [announced[u] EXCEPT !.live = FALSE]
      OBVIOUS
    <3>3. /\ next \in Announcement
          /\ next.owner = announced[u].owner /\ next.sha256 = announced[u].sha256
      BY <3>1, <3>2 DEF Announcement
    <3>4. announced' = [announced EXCEPT ![u] = next]
      BY <2>2, <3>2 DEF Private!ExpireUpload
    <3>5. next # None
      BY <3>3 DEF LibraryConstants
    <3> QED
      BY <2>2, <3>3, <3>4, <3>5 DEF Private!ExpireUpload, PrivateInv, PrivateTyped, RowsStand
  <2> QED
    BY <2>1, <2>2
<1>2. UNCHANGED <<pieces, request, owner, texts, codes, origin>>
  BY DEF Private!Start, Private!ExpireUpload
<1>3. ChunksTyped' /\ PrivateTyped'
  BY <1>1, <1>2 DEF PrivateInv, ChunksTyped, PrivateTyped
<1>4. RequestsInv'
  BY <1>1, <1>2, OthersStand
<1>5. /\ (\A v \in Uploads : owner[v] # None => StoredWhole(v))'
      /\ Private!OneCopyUnlessClaimed'
  BY <1>1, <1>2, DocumentsStay
<1> QED
  BY <1>2, <1>3, <1>4, <1>5 DEF PrivateInv

LEMMA KeepSteps ==
  ASSUME LibraryConstants, PrivateInv, NEW r \in Requests, Private!Keep(r)
  PROVE  PrivateInv'
<1> DEFINE u == request[r].upload
<1>1. request[r] \in [task : {"gather"}, upload : Uploads, got : [Parts -> Contents \cup {None}]]
  BY DEF Private!Keep, Private!Doing, PrivateInv, ChunksTyped, Errand
<1>2. u \in Uploads /\ announced[u] # None
  BY <1>1 DEF Private!Keep, PrivateInv, RequestsInv
<1>3. PICK next : next = [task |-> "save", upload |-> u]
  OBVIOUS
<1>4. next \in Errand
  BY <1>2, <1>3 DEF Errand
<1>5. PICK whole : whole = request[r].got
  OBVIOUS
<1>6. /\ whole = Private!Piecewise(announced[u].sha256)
      /\ whole \in [Parts -> Contents \cup {None}]
      /\ texts' = [texts EXCEPT ![u] = whole]
      /\ request' = [request EXCEPT ![r] = next]
      /\ UNCHANGED <<pieces, announced, owner, codes, origin>>
  BY <1>1, <1>3, <1>5 DEF Private!Keep, Private!Whole
<1>7. ChunksTyped' /\ PrivateTyped' /\ RowsStand
  <2>1. ChunksTyped'
    BY <1>4, <1>6 DEF PrivateInv, ChunksTyped
  <2>2. PrivateTyped'
    BY <1>2, <1>6 DEF PrivateInv, PrivateTyped
  <2>3. RowsStand
    BY <1>2, <1>6 DEF PrivateInv, PrivateTyped, RowsStand
  <2> QED
    BY <2>1, <2>2, <2>3
<1>8. RequestsInv'
  <2>1. \A q \in Requests : q # r => request'[q] = request[q]
    BY <1>6 DEF PrivateInv, ChunksTyped
  <2>2. request'[r] = next /\ next.task = "save" /\ next.upload = u
    BY <1>3, <1>6 DEF PrivateInv, ChunksTyped
  <2>3. texts'[u] = Private!Piecewise(announced'[u].sha256) /\ announced'[u] # None
    BY <1>2, <1>6 DEF PrivateInv, PrivateTyped, Private!Piecewise
  <2>4. StoredWhole(request[r].upload)'
    BY <2>2, <2>3 DEF StoredWhole, Private!Piecewise
  <2>5. ~Private!Doing(r, "gather")'
    BY <2>2 DEF Private!Doing
  <2> QED
    BY <1>7, <2>1, <2>4, <2>5, OthersGoOn
<1>9. /\ (\A v \in Uploads : owner[v] # None => StoredWhole(v))'
      /\ Private!OneCopyUnlessClaimed'
  BY <1>6, <1>7, DocumentsStay
<1> QED
  BY <1>6, <1>7, <1>8, <1>9 DEF PrivateInv

\* A document is written, if its owner has no other of the file: the row of
\* an upload, wherever its document went meanwhile.
LEMMA SaveSteps ==
  ASSUME LibraryConstants, PrivateInv, NEW r \in Requests, Private!Save(r)
  PROVE  PrivateInv'
<1> DEFINE u == request[r].upload
           Row == announced[u]
<1>1. u \in Uploads /\ StoredWhole(u)
  BY DEF Private!Save, Private!Doing, PrivateInv, ChunksTyped, Errand, RequestsInv
<1>2. Row \in Announcement
  BY <1>1 DEF PrivateInv, PrivateTyped, StoredWhole
<1>3. /\ request' = [request EXCEPT ![r] = None]
      /\ UNCHANGED <<pieces, announced, texts, codes>>
  BY DEF Private!Save
<1>4. CASE Private!SameFile(Row.owner, Row.sha256) # {} \/ Private!Full(Row.owner)
  BY <1>3, <1>4, UploadingSteps DEF Private!Save, Uploading, Private!Abandon, Private!GiveUp,
     Private!state, Private!Doing
<1>5. CASE Private!SameFile(Row.owner, Row.sha256) = {} /\ ~Private!Full(Row.owner)
  <2>1. /\ owner' = [owner EXCEPT ![u] = Row.owner]
        /\ origin' = [origin EXCEPT ![u] = "finished"]
    BY <1>5 DEF Private!Save
  <2>2. ChunksTyped' /\ PrivateTyped' /\ RowsStand
    <3>1. Row.owner \in Owners
      BY <1>2 DEF Announcement
    <3>2. ChunksTyped'
      BY <1>3 DEF PrivateInv, ChunksTyped
    <3>3. PrivateTyped'
      BY <1>1, <1>3, <2>1, <3>1 DEF PrivateInv, PrivateTyped
    <3>4. RowsStand
      BY <1>3 DEF RowsStand
    <3> QED
      BY <3>2, <3>3, <3>4
  <2>3. RequestsInv'
    <3>1. ~Private!Doing(r, "gather")' /\ ~Private!Doing(r, "save")'
      BY <1>3 DEF PrivateInv, ChunksTyped, Private!Doing
    <3>2. \A q \in Requests : q # r => request'[q] = request[q]
      BY <1>3 DEF PrivateInv, ChunksTyped
    <3> QED
      BY <2>2, <3>1, <3>2, OthersGoOn
  <2>4. (\A v \in Uploads : owner[v] # None => StoredWhole(v))'
    BY <1>1, <1>3, <2>1 DEF PrivateInv, PrivateTyped, StoredWhole, Private!Piecewise
  <2>5. ASSUME NEW v \in Uploads, NEW w \in Uploads, v # w, owner'[v] # None,
               owner'[v] = owner'[w], announced'[v].sha256 = announced'[w].sha256
        PROVE  "claimed" \in {origin'[v], origin'[w]}
    <3>1. \A t \in Uploads : owner[t] = Row.owner => announced[t].sha256 # Row.sha256
      BY <1>5 DEF Private!SameFile, Private!Visible
    <3>2. v # u /\ w # u
      BY <1>1, <1>3, <2>1, <2>5, <3>1 DEF PrivateInv, PrivateTyped
    <3> QED
      BY <1>3, <2>1, <2>5, <3>2
      DEF PrivateInv, PrivateTyped, Private!OneCopyUnlessClaimed, Private!Documents
  <2>6. Private!OneCopyUnlessClaimed'
    BY <2>5 DEF Private!OneCopyUnlessClaimed, Private!Documents
  <2> QED
    BY <1>3, <2>2, <2>3, <2>4, <2>6 DEF PrivateInv
<1> QED
  BY <1>4, <1>5

\* Documents change hands or go, and codes come and go.
MovingSteps ==
  \/ \E u \in Uploads : Private!Remove(u)
  \/ \E o \in Owners, k \in Codes : Private!Handoff(o, k) \/ Private!Claim(o, k)
  \/ \E k \in Codes : Private!ExpireCode(k)

LEMMA CodesStayTyped ==
  ASSUME LibraryConstants, PrivateInv, MovingSteps
  PROVE  /\ codes' \in [Codes -> Code]
         /\ \A k \in Codes : codes'[k].status = "live" => codes'[k].owner # None
<1> USE DEF PrivateInv, PrivateTyped
<1>1. ASSUME NEW u \in Uploads, Private!Remove(u) PROVE UNCHANGED codes
  BY <1>1 DEF Private!Remove
<1>2. ASSUME NEW o \in Owners, NEW k \in Codes, Private!Handoff(o, k)
      PROVE  /\ codes' \in [Codes -> Code]
             /\ \A j \in Codes : codes'[j].status = "live" => codes'[j].owner # None
  <2>1. PICK new : new = [status |-> "live", owner |-> o, documents |-> Private!Visible(o)]
    OBVIOUS
  <2>2. new \in Code /\ new.owner # None
    BY <2>1 DEF Code, Private!Visible, LibraryConstants
  <2>3. \A j \in Codes : /\ [codes[j] EXCEPT !.status = "gone"] \in Code
                        /\ [codes[j] EXCEPT !.status = "gone"].status = "gone"
    BY DEF Code
  <2>4. codes' = [j \in Codes |-> IF j = k THEN new
                                ELSE IF j \in Private!Dropped(o) THEN [codes[j] EXCEPT !.status = "gone"]
                                ELSE codes[j]]
    BY <1>2, <2>1 DEF Private!Handoff
  <2> QED
    BY <2>2, <2>3, <2>4
<1>3. ASSUME NEW k \in Codes, NEW status \in {"gone", "expired"},
             codes' = [codes EXCEPT ![k].status = status]
      PROVE  /\ codes' \in [Codes -> Code]
             /\ \A j \in Codes : codes'[j].status = "live" => codes'[j].owner # None
  <2>1. PICK new : new = [codes[k] EXCEPT !.status = status]
    OBVIOUS
  <2>2. new \in Code /\ new.status = status
    BY <2>1 DEF Code
  <2>3. codes' = [codes EXCEPT ![k] = new]
    BY <1>3, <2>1
  <2> QED
    BY <2>2, <2>3
<1> QED
  BY <1>1, <1>2, <1>3 DEF MovingSteps, Private!Claim, Private!ExpireCode

\* What is moved or removed leaves or is marked as claimed.
LEMMA MovingKeeps ==
  ASSUME LibraryConstants, PrivateInv, MovingSteps
  PROVE  PrivateInv'
<1>1. UNCHANGED <<pieces, request, announced, texts>>
  BY DEF MovingSteps, Private!Remove, Private!Handoff, Private!Claim, Private!ExpireCode
<1>2. /\ owner' \in [Uploads -> Owners \cup {None}]
      /\ origin' \in [Uploads -> {"finished", "claimed", None}]
      /\ \A u \in Uploads :
           /\ owner'[u] # None => owner[u] # None
           /\ owner'[u] # None => \/ owner'[u] = owner[u] /\ origin'[u] = origin[u]
                                 \/ origin'[u] = "claimed"
  <2> USE DEF PrivateInv, PrivateTyped
  <2>1. ASSUME NEW u \in Uploads, Private!Remove(u) PROVE <1>2
    BY <2>1 DEF Private!Remove
  <2>2. ASSUME NEW o \in Owners, NEW k \in Codes, Private!Claim(o, k) PROVE <1>2
    <3>1. \A u \in Private!Transferred(k) : owner[u] # None
      BY <2>2 DEF Private!Claim, Private!Transferred, Private!Visible
    <3> QED
      BY <2>2, <3>1 DEF Private!Claim
  <2>3. ASSUME UNCHANGED <<owner, origin>> PROVE <1>2
    BY <2>3
  <2> QED
    BY <2>1, <2>2, <2>3 DEF MovingSteps, Private!Handoff, Private!ExpireCode
<1>3. RowsStand
  BY <1>1 DEF RowsStand
<1>4. ChunksTyped'
  BY <1>1 DEF PrivateInv, ChunksTyped
<1>5. PrivateTyped' /\ (\A k \in Codes : codes[k].status = "live" => codes[k].owner # None)'
  BY <1>1, <1>2, CodesStayTyped DEF PrivateInv, PrivateTyped
<1>6. RequestsInv'
  BY <1>1, <1>3, OthersStand
<1>7. (\A u \in Uploads : owner[u] # None => StoredWhole(u))'
  BY <1>1, <1>2, <1>3, StoredStays DEF PrivateInv
<1>8. Private!OneCopyUnlessClaimed'
  BY <1>1, <1>2 DEF PrivateInv, Private!OneCopyUnlessClaimed, Private!Documents
<1> QED
  BY <1>4, <1>5, <1>6, <1>7, <1>8 DEF PrivateInv

LEMMA PrivateSteps ==
  ASSUME LibraryConstants, PrivateInv, Private!Next
  PROVE  PrivateInv'
BY UploadingSteps, AnnouncingSteps, KeepSteps, SaveSteps, MovingKeeps
DEF Private!Next, Uploading, MovingSteps

\* The instances count as everyone does.
LEMMA SameCardinality ==
  \A S : Private!Cardinality(S) = Cardinality(S) /\ Tight!Cardinality(S) = Cardinality(S)
BY DEF Private!Cardinality, Tight!Cardinality, Cardinality, Private!IsFiniteSet, Tight!IsFiniteSet,
       IsFiniteSet

\* No browser has more than d documents, and the library not more than its cap.
Caps(d) ==
  /\ \A o \in Owners : Cardinality(Private!Visible(o)) <= d
  /\ Cardinality(Private!Documents) <= MaxTotal

LEMMA SetsAreFinite ==
  ASSUME LibraryConstants
  PROVE  /\ \A o : IsFiniteSet(Private!Visible(o)) /\ Cardinality(Private!Visible(o)) \in Nat
         /\ IsFiniteSet(Private!Documents) /\ Cardinality(Private!Documents) \in Nat
<1>1. Private!Documents \in SUBSET Uploads /\ \A o : Private!Visible(o) \in SUBSET Uploads
  BY DEF Private!Documents, Private!Visible
<1>2. \A S \in SUBSET Uploads : IsFiniteSet(S) /\ Cardinality(S) \in Nat
  BY FS_Subset, FS_CardinalityType DEF LibraryConstants
<1> QED
  BY <1>1, <1>2

LEMMA SmallerIsFewer ==
  ASSUME LibraryConstants, NEW S \in SUBSET Uploads, NEW T \in SUBSET S
  PROVE  Cardinality(T) <= Cardinality(S) /\ Cardinality(S) \in Nat /\ Cardinality(T) \in Nat
BY FS_Subset, FS_CardinalityType DEF LibraryConstants

LEMMA FewerFit ==
  ASSUME LibraryConstants, NEW d \in Nat, Caps(d), NEW o \in Owners,
         \A v \in Uploads : owner'[v] = o => owner[v] = o
  PROVE  Cardinality({v \in Uploads : owner'[v] = o}) <= d
<1>1. {v \in Uploads : owner'[v] = o} \subseteq Private!Visible(o)
  BY DEF Private!Visible
<1>2. Private!Visible(o) \in SUBSET Uploads
  BY DEF Private!Visible
<1>3. /\ Cardinality({v \in Uploads : owner'[v] = o}) <= Cardinality(Private!Visible(o))
      /\ Cardinality({v \in Uploads : owner'[v] = o}) \in Nat
      /\ Cardinality(Private!Visible(o)) \in Nat
  BY <1>1, <1>2, SmallerIsFewer
<1> QED
  BY <1>3 DEF Caps

LEMMA OneMoreFits ==
  ASSUME LibraryConstants, PrivateTyped, NEW d \in Nat, Caps(d), NEW u \in Uploads, NEW o \in Owners,
         owner' = [owner EXCEPT ![u] = o],
         Cardinality(Private!Visible(o)) < d, Cardinality(Private!Documents) < MaxTotal
  PROVE  Caps(d)'
<1> USE DEF PrivateTyped
<1>1. ASSUME NEW p \in Owners, p # o
      PROVE  Cardinality({v \in Uploads : owner'[v] = p}) <= d
  BY <1>1, FewerFit
<1>2. ASSUME NEW S \in SUBSET Uploads, NEW n \in Nat, Cardinality(S) < n
      PROVE  Cardinality(S \cup {u}) <= n
  <2>1. IsFiniteSet(S) /\ Cardinality(S) \in Nat
    BY FS_Subset, FS_CardinalityType DEF LibraryConstants
  <2>2. Cardinality(S \cup {u}) = IF u \in S THEN Cardinality(S) ELSE Cardinality(S) + 1
    BY <2>1, FS_AddElement
  <2> QED
    BY <1>2, <2>1, <2>2
<1>3. {v \in Uploads : owner'[v] = o} = Private!Visible(o) \cup {u}
  BY DEF Private!Visible
<1>4. {v \in Uploads : owner'[v] # None} = Private!Documents \cup {u}
  BY DEF Private!Documents, LibraryConstants
<1>5. Private!Visible(o) \in SUBSET Uploads /\ Private!Documents \in SUBSET Uploads
  BY DEF Private!Visible, Private!Documents
<1>6. MaxTotal \in Nat
  BY DEF LibraryConstants
<1>7. /\ Cardinality({v \in Uploads : owner'[v] = o}) <= d
      /\ Cardinality({v \in Uploads : owner'[v] # None}) <= MaxTotal
  BY <1>2, <1>3, <1>4, <1>5, <1>6
<1> QED
  BY <1>1, <1>7 DEF Caps, Private!Visible, Private!Documents

LEMMA OneLessFits ==
  ASSUME LibraryConstants, PrivateTyped, NEW d \in Nat, Caps(d), NEW u \in Uploads,
         owner' = [owner EXCEPT ![u] = None]
  PROVE  Caps(d)'
<1> USE DEF PrivateTyped
<1>1. ASSUME NEW p \in Owners
      PROVE  Cardinality({v \in Uploads : owner'[v] = p}) <= d
  BY FewerFit DEF LibraryConstants
<1>2. Cardinality({v \in Uploads : owner'[v] # None}) <= MaxTotal
  <2>1. {v \in Uploads : owner'[v] # None} \subseteq Private!Documents
    BY DEF Private!Documents
  <2>2. Private!Documents \in SUBSET Uploads
    BY DEF Private!Documents
  <2>3. /\ Cardinality({v \in Uploads : owner'[v] # None}) <= Cardinality(Private!Documents)
        /\ Cardinality({v \in Uploads : owner'[v] # None}) \in Nat
        /\ Cardinality(Private!Documents) \in Nat
    BY <2>1, <2>2, SmallerIsFewer
  <2> QED
    BY <2>3 DEF Caps, LibraryConstants
<1> QED
  BY <1>1, <1>2 DEF Caps, Private!Visible, Private!Documents

LEMMA ClaimFits ==
  ASSUME LibraryConstants, PrivateInv, NEW d \in Nat, Caps(d), NEW o \in Owners, NEW k \in Codes,
         codes[k].status = "live",
         \/ codes[k].owner = o
         \/ Cardinality(Private!Visible(o)) + Cardinality(Private!Transferred(k)) <= d,
         owner' = [u \in Uploads |-> IF u \in Private!Transferred(k) THEN o ELSE owner[u]]
  PROVE  Caps(d)'
<1> USE DEF PrivateInv, PrivateTyped
<1>0. /\ codes[k].owner \in Owners
      /\ Private!Transferred(k) \subseteq Private!Visible(codes[k].owner)
      /\ \A u \in Private!Transferred(k) : u \in Uploads /\ owner[u] = codes[k].owner /\ owner[u] # None
  BY DEF Code, Private!Transferred, Private!Visible
<1>1. ASSUME NEW p \in Owners, p # o
      PROVE  Cardinality({v \in Uploads : owner'[v] = p}) <= d
  BY <1>1, FewerFit
<1>2. {v \in Uploads : owner'[v] = o} = Private!Visible(o) \cup Private!Transferred(k)
  BY <1>0 DEF Private!Visible
<1>3. Cardinality({v \in Uploads : owner'[v] = o}) <= d
  <2>1. CASE codes[k].owner = o
    BY <1>0, <1>2, <2>1 DEF Caps
  <2>2. CASE Cardinality(Private!Visible(o)) + Cardinality(Private!Transferred(k)) <= d
    <3>1. IsFiniteSet(Private!Visible(o)) /\ IsFiniteSet(Private!Transferred(k))
      BY <1>0, SetsAreFinite, FS_Subset
    <3>2. /\ Cardinality(Private!Visible(o)) \in Nat /\ Cardinality(Private!Transferred(k)) \in Nat
          /\ Cardinality(Private!Visible(o) \cap Private!Transferred(k)) \in Nat
      BY <3>1, FS_CardinalityType, FS_Subset
    <3>3. Cardinality(Private!Visible(o) \cup Private!Transferred(k)) =
            Cardinality(Private!Visible(o)) + Cardinality(Private!Transferred(k))
              - Cardinality(Private!Visible(o) \cap Private!Transferred(k))
      BY <3>1, FS_Union
    <3>4. Cardinality(Private!Visible(o) \cup Private!Transferred(k)) <= d
      BY <2>2, <3>2, <3>3
    <3> QED
      BY <1>2, <3>4
  <2> QED
    BY <2>1, <2>2
<1>4. {v \in Uploads : owner'[v] # None} = Private!Documents
  BY <1>0 DEF Private!Documents, LibraryConstants
<1> QED
  BY <1>1, <1>3, <1>4 DEF Caps, Private!Visible, Private!Documents

LEMMA CapsSteps ==
  ASSUME LibraryConstants, PrivateInv, Private!Next, Caps(MaxDocuments)
  PROVE  Caps(MaxDocuments)'
<1> USE DEF PrivateInv
<1>0. MaxDocuments \in Nat /\ MaxTotal \in Nat
  BY DEF LibraryConstants
<1>1. CASE UNCHANGED owner
  BY <1>1 DEF Caps, Private!Visible, Private!Documents
<1>2. ASSUME NEW r \in Requests, Private!Save(r) PROVE Caps(MaxDocuments)'
  <2> DEFINE u == request[r].upload
             o == announced[u].owner
  <2>1. u \in Uploads /\ announced[u] \in Announcement
    BY <1>2 DEF Private!Save, Private!Doing, ChunksTyped, Errand, RequestsInv, StoredWhole, PrivateTyped
  <2>2. CASE owner' = [owner EXCEPT ![u] = o] /\ ~Private!Full(o)
    <3>1. o \in Owners
      BY <2>1 DEF Announcement
    <3>2. Cardinality(Private!Visible(o)) < MaxDocuments /\ Cardinality(Private!Documents) < MaxTotal
      <4>1. Cardinality(Private!Visible(o)) \in Nat /\ Cardinality(Private!Documents) \in Nat
        BY SetsAreFinite
      <4>2. ~(Cardinality(Private!Visible(o)) >= MaxDocuments \/ Cardinality(Private!Documents) >= MaxTotal)
        BY <2>2, SameCardinality DEF Private!Full
      <4> QED
        BY <1>0, <4>1, <4>2
    <3> QED
      BY <1>0, <2>1, <2>2, <3>1, <3>2, OneMoreFits
  <2> QED
    BY <1>1, <1>2, <2>2 DEF Private!Save
<1>3. ASSUME NEW u \in Uploads, Private!Remove(u) PROVE Caps(MaxDocuments)'
  BY <1>0, <1>3, OneLessFits DEF Private!Remove
<1>4. ASSUME NEW o \in Owners, NEW k \in Codes, Private!Claim(o, k) PROVE Caps(MaxDocuments)'
  <2>1. /\ codes[k].status = "live"
        /\ \/ codes[k].owner = o
           \/ Cardinality(Private!Visible(o)) + Cardinality(Private!Transferred(k)) <= MaxDocuments
        /\ owner' = [u \in Uploads |-> IF u \in Private!Transferred(k) THEN o ELSE owner[u]]
    BY <1>4, SameCardinality DEF Private!Claim
  <2> QED
    BY <1>0, <2>1, ClaimFits
<1> QED
  BY <1>1, <1>2, <1>3, <1>4
  DEF Private!Next, Private!Start, Private!Send, Private!Finish, Private!Read, Private!Store,
      Private!Keep, Private!Abandon, Private!ExpireUpload, Private!Handoff, Private!ExpireCode,
      Private!state

\* A browser that may have one document does nothing that others do not.
LEMMA TightIsPrivate ==
  ASSUME LibraryConstants, PrivateInv, Tight!Next
  PROVE  Private!Next
<1>0. /\ MaxDocuments \in Nat \ {0}
      /\ \A o : Cardinality(Private!Visible(o)) \in Nat /\ (Tight!Visible(o) = Private!Visible(o))
      /\ Tight!Documents = Private!Documents
  BY SetsAreFinite DEF LibraryConstants, Tight!Visible, Private!Visible, Tight!Documents, Private!Documents
<1>1. \A o : Private!Full(o) => Tight!Full(o)
  <2> TAKE o
  <2>1. /\ Private!Full(o) <=> \/ Cardinality(Private!Visible(o)) >= MaxDocuments
                              \/ Cardinality(Private!Documents) >= MaxTotal
        /\ Tight!Full(o) <=> \/ Cardinality(Tight!Visible(o)) >= 1
                            \/ Cardinality(Tight!Documents) >= MaxTotal
    BY SameCardinality DEF Private!Full, Tight!Full
  <2>2. Tight!Visible(o) = Private!Visible(o) /\ Cardinality(Private!Visible(o)) \in Nat
    BY <1>0
  <2> QED
    BY <1>0, <2>1, <2>2
<1>2. ASSUME NEW o \in Owners, NEW u \in Uploads, NEW c \in Contents, Tight!Start(o, u, c)
      PROVE  Private!Start(o, u, c)
  BY <1>1, <1>2 DEF Tight!Start, Private!Start, Tight!SameFile, Private!SameFile, Tight!Visible, Private!Visible
<1>3. ASSUME NEW r \in Requests, NEW u \in Uploads, NEW n \in Parts, NEW c \in Contents, Tight!Send(r, u, n, c)
      PROVE  Private!Send(r, u, n, c)
  BY <1>3 DEF Tight!Send, Private!Send, Tight!Live, Private!Live, Tight!SendPart, Private!SendPart,
     Tight!state, Private!state
<1>4. ASSUME NEW r \in Requests, NEW u \in Uploads, Tight!Finish(r, u)
      PROVE  Private!Finish(r, u)
  BY <1>4 DEF Tight!Finish, Private!Finish, Tight!Live, Private!Live, Tight!Gather, Private!Gather,
     Tight!state, Private!state
<1>5. ASSUME NEW r \in Requests, NEW n \in Parts, Tight!Read(r, n)
      PROVE  Private!Read(r, n)
  BY <1>5 DEF Tight!Read, Private!Read, Tight!ReadPart, Private!ReadPart, Tight!Doing, Private!Doing,
     Tight!state, Private!state
<1>6. ASSUME NEW r \in Requests, Tight!Store(r) \/ Tight!Keep(r) \/ Tight!Abandon(r)
      PROVE  Private!Store(r) \/ Private!Keep(r) \/ Private!Abandon(r)
  <2>1. Tight!Store(r) => Private!Store(r)
    BY DEF Tight!Store, Private!Store, Tight!StorePart, Private!StorePart, Tight!Doing, Private!Doing,
       Tight!state, Private!state
  <2>2. Tight!Keep(r) => Private!Keep(r)
    BY DEF Tight!Keep, Private!Keep, Tight!Doing, Private!Doing, Tight!Whole, Private!Whole,
       Tight!Piecewise, Private!Piecewise, Tight!Parsed, Private!Parsed
  <2>3. Tight!Abandon(r) => Private!Abandon(r)
    BY DEF Tight!Abandon, Private!Abandon, Tight!GiveUp, Private!GiveUp, Tight!state, Private!state
  <2> QED
    BY <1>6, <2>1, <2>2, <2>3
<1>7. ASSUME NEW r \in Requests, Tight!Save(r) PROVE Private!Save(r) \/ Private!Abandon(r)
  <2> DEFINE row == announced[request[r].upload]
  <2>1. CASE Tight!SameFile(row.owner, row.sha256) # {} \/ Tight!Full(row.owner)
    BY <1>7, <2>1 DEF Tight!Save, Tight!Doing, Private!Abandon, Private!GiveUp, Private!state
  <2>2. CASE ~(Tight!SameFile(row.owner, row.sha256) # {} \/ Tight!Full(row.owner))
    <3>1. ~(Private!SameFile(row.owner, row.sha256) # {} \/ Private!Full(row.owner))
      BY <1>1, <2>2 DEF Tight!SameFile, Private!SameFile, Tight!Visible, Private!Visible
    <3> QED
      BY <1>7, <2>2, <3>1 DEF Tight!Save, Private!Save, Tight!Doing, Private!Doing
  <2> QED
    BY <2>1, <2>2
<1>8. ASSUME NEW u \in Uploads, Tight!Remove(u) \/ Tight!ExpireUpload(u)
      PROVE  Private!Remove(u) \/ Private!ExpireUpload(u)
  BY <1>8 DEF Tight!Remove, Private!Remove, Tight!ExpireUpload, Private!ExpireUpload, Tight!Live, Private!Live
<1>9. ASSUME NEW o \in Owners, NEW k \in Codes, Tight!Handoff(o, k) PROVE Private!Handoff(o, k)
  <2>1. \A p : Tight!Dropped(p) = Private!Dropped(p) /\ Tight!Kept(p) = Private!Kept(p)
    BY DEF Tight!Dropped, Private!Dropped, Tight!Kept, Private!Kept, Tight!Outstanding, Private!Outstanding
  <2> QED
    BY <1>9, <2>1, SameCardinality DEF Tight!Handoff, Private!Handoff, Tight!Visible, Private!Visible
<1>10. ASSUME NEW o \in Owners, NEW k \in Codes, Tight!Claim(o, k) PROVE Private!Claim(o, k)
  <2>1. Tight!Transferred(k) = Private!Transferred(k) /\ Private!Transferred(k) \in SUBSET Uploads
    BY <1>0 DEF Tight!Transferred, Private!Transferred, Private!Visible
  <2>2. Cardinality(Private!Transferred(k)) \in Nat
    BY <2>1, FS_Subset, FS_CardinalityType DEF LibraryConstants
  <2>3. \/ codes[k].owner = o
        \/ Cardinality(Private!Visible(o)) + Cardinality(Private!Transferred(k)) <= MaxDocuments
    <3>1. \/ codes[k].owner = o
          \/ Cardinality(Tight!Visible(o)) + Cardinality(Tight!Transferred(k)) <= 1
      BY <1>10, SameCardinality DEF Tight!Claim
    <3>2. Tight!Visible(o) = Private!Visible(o) /\ Cardinality(Private!Visible(o)) \in Nat
      BY <1>0
    <3>3. CASE Cardinality(Tight!Visible(o)) + Cardinality(Tight!Transferred(k)) <= 1
      BY <1>0, <2>1, <2>2, <3>2, <3>3
    <3> QED
      BY <3>1, <3>3
  <2> QED
    BY <1>10, <2>1, <2>3, SameCardinality DEF Tight!Claim, Private!Claim
<1>11. ASSUME NEW k \in Codes, Tight!ExpireCode(k) PROVE Private!ExpireCode(k)
  BY <1>11 DEF Tight!ExpireCode, Private!ExpireCode
<1> QED
  BY <1>2, <1>3, <1>4, <1>5, <1>6, <1>7, <1>8, <1>9, <1>10, <1>11 DEF Tight!Next, Private!Next

Cap == IF focus = "tight" THEN 1 ELSE MaxDocuments

UploadsInv == focus \in {"private", "tight"} => PrivateInv /\ Caps(Cap)

LEMMA TightCapsSteps ==
  ASSUME LibraryConstants, PrivateInv, Tight!Next, Caps(1)
  PROVE  Caps(1)'
<1> USE DEF PrivateInv
<1>0. MaxTotal \in Nat
  BY DEF LibraryConstants
<1>1. CASE UNCHANGED owner
  BY <1>1 DEF Caps, Private!Visible, Private!Documents
<1>2. ASSUME NEW r \in Requests, Tight!Save(r) PROVE Caps(1)'
  <2> DEFINE u == request[r].upload
             o == announced[u].owner
  <2>1. u \in Uploads /\ announced[u] \in Announcement
    BY <1>2 DEF Tight!Save, Tight!Doing, Private!Doing, ChunksTyped, Errand, RequestsInv, StoredWhole,
       PrivateTyped
  <2>2. CASE owner' = [owner EXCEPT ![u] = o] /\ ~Tight!Full(o)
    <3>1. o \in Owners
      BY <2>1 DEF Announcement
    <3>2. Cardinality(Private!Visible(o)) < 1 /\ Cardinality(Private!Documents) < MaxTotal
      <4>1. Cardinality(Private!Visible(o)) \in Nat /\ Cardinality(Private!Documents) \in Nat
        BY SetsAreFinite
      <4>2. ~(Cardinality(Private!Visible(o)) >= 1 \/ Cardinality(Private!Documents) >= MaxTotal)
        BY <2>2, SameCardinality
        DEF Tight!Full, Tight!Visible, Private!Visible, Tight!Documents, Private!Documents
      <4> QED
        BY <1>0, <4>1, <4>2
    <3> QED
      BY <2>1, <2>2, <3>1, <3>2, OneMoreFits
  <2> QED
    BY <1>1, <1>2, <2>2 DEF Tight!Save
<1>3. ASSUME NEW u \in Uploads, Tight!Remove(u) PROVE Caps(1)'
  BY <1>3, OneLessFits DEF Tight!Remove
<1>4. ASSUME NEW o \in Owners, NEW k \in Codes, Tight!Claim(o, k) PROVE Caps(1)'
  <2>1. Tight!Visible(o) = Private!Visible(o) /\ Tight!Transferred(k) = Private!Transferred(k)
    BY DEF Tight!Visible, Private!Visible, Tight!Transferred, Private!Transferred
  <2>2. /\ codes[k].status = "live"
        /\ \/ codes[k].owner = o
           \/ Cardinality(Private!Visible(o)) + Cardinality(Private!Transferred(k)) <= 1
        /\ owner' = [u \in Uploads |-> IF u \in Private!Transferred(k) THEN o ELSE owner[u]]
    BY <1>4, <2>1, SameCardinality DEF Tight!Claim
  <2> QED
    BY <2>2, ClaimFits
<1> QED
  BY <1>1, <1>2, <1>3, <1>4
  DEF Tight!Next, Tight!Start, Tight!Send, Tight!Finish, Tight!Read, Tight!Store,
      Tight!Keep, Tight!Abandon, Tight!ExpireUpload, Tight!Handoff, Tight!ExpireCode,
      Tight!state

LEMMA UploadsStart == ASSUME LibraryConstants, Init PROVE UploadsInv
<1> USE DEF Init, PrivateInit
<1>1. ChunksTyped
  BY DEF Reference!Init, Reference!ChunksInit, ChunksTyped
<1>2. PrivateTyped
  <2>1. [owner |-> a, sha256 |-> x, live |-> TRUE] \in Announcement
    BY DEF Announcement, LibraryConstants
  <2>2. Private!Piecewise(x) \in [Parts -> Contents \cup {None}]
    BY DEF Private!Piecewise, LibraryConstants
  <2>3. [status |-> "unused", owner |-> None, documents |-> {}] \in Code
    BY DEF Code
  <2> QED
    BY <2>1, <2>2, <2>3 DEF PrivateTyped, LibraryConstants
<1>3. \A u \in Uploads : owner[u] # None => u = old /\ StoredWhole(u)
  <2>1. announced[old] # None
    <3>1. PICK first : first = [owner |-> a, sha256 |-> x, live |-> TRUE]
      OBVIOUS
    <3>2. first \in Announcement
      BY <3>1 DEF Announcement, LibraryConstants
    <3>3. first # None
      BY <3>2 DEF LibraryConstants
    <3> QED
      BY <3>1, <3>3 DEF LibraryConstants
  <2> QED
    BY <2>1 DEF StoredWhole, LibraryConstants
<1>4. RequestsInv
  BY DEF RequestsInv, Private!Doing, Reference!Init, Reference!ChunksInit
<1>5. \A k \in Codes : codes[k].status # "live"
  OBVIOUS
<1>6. Private!OneCopyUnlessClaimed
  BY <1>3 DEF Private!OneCopyUnlessClaimed, Private!Documents
<1>7. Caps(Cap)
  <2>1. \A S \in SUBSET {old} : Cardinality(S) <= 1
    <3> TAKE S \in SUBSET {old}
    <3>1. IsFiniteSet({old}) /\ Cardinality({old}) = 1
      BY FS_Singleton
    <3> QED
      BY <3>1, FS_Subset
  <2>2. \A o \in Owners : Private!Visible(o) \in SUBSET {old}
    BY <1>3 DEF Private!Visible, LibraryConstants
  <2>3. Private!Documents \in SUBSET {old}
    BY <1>3 DEF Private!Documents
  <2>4. 1 <= Cap /\ Cap \in Nat /\ 1 <= MaxTotal /\ MaxTotal \in Nat
    BY DEF Cap, LibraryConstants
  <2>5. \A o \in Owners : Cardinality(Private!Visible(o)) \in Nat
    BY SetsAreFinite
  <2>6. Cardinality(Private!Documents) \in Nat
    BY SetsAreFinite
  <2> QED
    BY <2>1, <2>2, <2>3, <2>4, <2>5, <2>6 DEF Caps
<1> QED
  BY <1>1, <1>2, <1>3, <1>4, <1>5, <1>6, <1>7 DEF UploadsInv, PrivateInv

everything ==
  <<focus, private, uploading, reference, index, folder, chatting, abuse, page, search>>

LEMMA UploadsSteps ==
  ASSUME LibraryConstants, UploadsInv, [Next]_everything
  PROVE  UploadsInv'
<1>1. CASE PrivateStep
  <2>1. focus = "private" /\ focus' = focus /\ Private!Next
    BY <1>1 DEF PrivateStep
  <2>2. PrivateInv /\ Caps(MaxDocuments)
    BY <2>1 DEF UploadsInv, Cap
  <2>3. PrivateInv' /\ Caps(MaxDocuments)'
    BY <2>1, <2>2, PrivateSteps, CapsSteps
  <2> QED
    BY <2>1, <2>3 DEF UploadsInv, Cap
<1>2. CASE TightStep
  <2>1. focus = "tight" /\ focus' = focus /\ Tight!Next
    BY <1>2 DEF TightStep
  <2>2. PrivateInv /\ Caps(1)
    BY <2>1 DEF UploadsInv, Cap
  <2>3. PrivateInv' /\ Caps(1)'
    BY <2>1, <2>2, TightIsPrivate, PrivateSteps, TightCapsSteps
  <2> QED
    BY <2>1, <2>3 DEF UploadsInv, Cap
<1>3. CASE ReferenceStep \/ IndexStep \/ FolderStep \/ ChattingStep \/ AbuseStep \/ PageStep \/ SearchStep
  BY <1>3 DEF ReferenceStep, IndexStep, FolderStep, ChattingStep, AbuseStep, PageStep, SearchStep,
     UploadsInv
<1>4. CASE UNCHANGED everything
  <2>1. UNCHANGED <<focus, private, uploading>>
    BY <1>4 DEF everything
  <2>2. UNCHANGED <<focus, pieces, request, announced, owner, texts, codes, origin>>
    BY <2>1 DEF private, uploading
  <2>3. PrivateInv => PrivateInv'
    <3>1. ChunksTyped => ChunksTyped'
      BY <2>2 DEF ChunksTyped
    <3>2. PrivateTyped => PrivateTyped'
      BY <2>2 DEF PrivateTyped
    <3>3. \A u \in Uploads : StoredWhole(u) => StoredWhole(u)'
      BY <2>2 DEF StoredWhole, Private!Piecewise
    <3>4. Private!OneCopyUnlessClaimed => Private!OneCopyUnlessClaimed'
      BY <2>2 DEF Private!OneCopyUnlessClaimed, Private!Documents
    <3>5. ChunksTyped /\ RequestsInv => RequestsInv'
      BY <2>2 DEF ChunksTyped, RequestsInv, StoredWhole, Private!Doing, Private!Piecewise
    <3> QED
      BY <2>2, <3>1, <3>2, <3>3, <3>4, <3>5 DEF PrivateInv
  <2>4. Caps(Cap) => Caps(Cap)'
    BY <2>2 DEF Caps, Cap, Private!Visible, Private!Documents
  <2> QED
    BY <2>2, <2>3, <2>4 DEF UploadsInv
<1> QED
  BY <1>1, <1>2, <1>3, <1>4 DEF Next

\* A document reaches another browser by a code only.
LEMMA MovesAreHandovers ==
  ASSUME LibraryConstants, PrivateInv, Private!Next, NEW u \in Uploads,
         owner'[u] \notin {owner[u], None}, owner'[u] # announced[u].owner
  PROVE  Private!Handed(u)
<1> USE DEF PrivateInv, PrivateTyped
<1>1. ~UNCHANGED owner
  OBVIOUS
<1>2. ASSUME NEW r \in Requests, Private!Save(r) PROVE FALSE
  <2>1. request[r].upload \in Uploads
    BY <1>2 DEF Private!Save, Private!Doing, ChunksTyped, Errand
  <2> QED
    BY <1>1, <1>2, <2>1 DEF Private!Save
<1>3. ASSUME NEW v \in Uploads, Private!Remove(v) PROVE FALSE
  BY <1>3 DEF Private!Remove
<1>4. ASSUME NEW o \in Owners, NEW k \in Codes, Private!Claim(o, k) PROVE Private!Handed(u)
  <2>1. u \in Private!Transferred(k)
    BY <1>4 DEF Private!Claim
  <2>2. u \in codes[k].documents /\ codes[k].owner = owner[u] /\ codes[k].status = "live"
    BY <1>4, <2>1 DEF Private!Transferred, Private!Visible, Private!Claim
  <2>3. codes'[k].status = "gone"
    BY <1>4 DEF Private!Claim, Code
  <2> QED
    BY <2>2, <2>3 DEF Private!Handed
<1> QED
  BY <1>1, <1>2, <1>3, <1>4
  DEF Private!Next, Private!Start, Private!Send, Private!Finish, Private!Read, Private!Store,
      Private!Keep, Private!Abandon, Private!ExpireUpload, Private!Handoff, Private!ExpireCode,
      Private!state

LEMMA UploadsFollow == ASSUME LibraryConstants, UploadsInv PROVE UploadsAreWhole
<1> SUFFICES ASSUME focus \in {"private", "tight"}
             PROVE  /\ Private!WithinCaps /\ (focus = "tight" => Tight!WithinCaps)
                    /\ Private!OneCopyUnlessClaimed
                    /\ Private!DocumentsAreWhole
  BY DEF UploadsAreWhole
<1>1. PrivateInv /\ Caps(Cap)
  BY DEF UploadsInv
<1>2. Private!WithinCaps
  <2>1. /\ \A o \in Owners : Cardinality(Private!Visible(o)) <= Cap /\ Cardinality(Private!Visible(o)) \in Nat
        /\ Cap \in Nat /\ Cap <= MaxDocuments /\ MaxDocuments \in Nat
    BY <1>1, SetsAreFinite DEF Caps, Cap, LibraryConstants
  <2> QED
    BY <1>1, <2>1, SameCardinality DEF Private!WithinCaps, Caps
<1>3. ASSUME focus = "tight" PROVE Tight!WithinCaps
  <2>1. Tight!Documents = Private!Documents /\ \A o : Tight!Visible(o) = Private!Visible(o)
    BY DEF Tight!Documents, Private!Documents, Tight!Visible, Private!Visible
  <2> QED
    BY <1>1, <1>3, <2>1, SameCardinality DEF Tight!WithinCaps, Caps, Cap
<1>4. Private!DocumentsAreWhole
  BY <1>1 DEF PrivateInv, StoredWhole, Private!DocumentsAreWhole, Private!Found, Private!Index,
     Private!Visible, LibraryConstants
<1> QED
  BY <1>1, <1>2, <1>3, <1>4 DEF PrivateInv

(* For any number of browsers, uploads, parts, files and requests: no       *)
(* browser and no library holds more documents than its cap, each document  *)
(* is the file that was announced, and a browser has a file twice only if   *)
(* one of the two was handed to it (core/private_library.py: parts are sent *)
(* at once, uploads are finished twice, removed and claimed in between).    *)
THEOREM UploadsStayWhole ==
  ASSUME LibraryConstants PROVE Spec => []UploadsAreWhole
<1> QED
  BY UploadsStart, UploadsSteps, UploadsFollow, PTL DEF Spec, everything

(* A document comes to a browser that did not upload it only by a live code *)
(* of the browser that has it, and the code is used up with it.             *)
THEOREM CodesMoveAll ==
  ASSUME LibraryConstants PROVE Spec => OnlyCodesMove
<1>1. ASSUME UploadsInv, [Next]_everything
      PROVE  [\A u \in Uploads :
                (owner'[u] \notin {owner[u], None} /\ owner'[u] # announced[u].owner)
                  => Private!Handed(u)]_(Private!vars)
  <2>1. CASE UNCHANGED owner
    BY <2>1
  <2>2. CASE PrivateStep
    BY <1>1, <2>2, MovesAreHandovers DEF PrivateStep, UploadsInv
  <2>3. CASE TightStep
    BY <1>1, <2>3, TightIsPrivate, MovesAreHandovers DEF TightStep, UploadsInv
  <2> QED
    BY <1>1, <2>1, <2>2, <2>3
    DEF Next, everything, private, ReferenceStep, IndexStep, FolderStep, ChattingStep, AbuseStep,
        PageStep, SearchStep
<1> QED
  BY <1>1, UploadsStart, UploadsSteps, PTL DEF Spec, everything, OnlyCodesMove, Private!OnlyCodesMove
-----------------------------------------------------------------------------
(* The imports of the reference library.                                    *)
Import == [release : Contents, expected : Contents \cup {None}, live : BOOLEAN]

\* Of the constants: None is no row of the reference library.
ReleaseConstants == None \notin Errand \cup Import

\* A publication under way knows its import, and its archive once it is stored.
PublicationsInv ==
  \A r \in Requests : request[r] # None =>
    /\ request[r].task # "send" => imports[request[r].upload] # None
    /\ request[r].task \in {"compare", "swap", "log"} => Reference!Release(r) \in archives

ImportsInv ==
  /\ ChunksTyped
  /\ imports \in [Uploads -> Import \cup {None}]
  /\ archives \subseteq Contents
  /\ lineage \in Seq(Contents \cup {None}) /\ lineage # <<>>
  /\ PublicationsInv
  /\ Reference!HeadsFollow

\* A row keeps its release and the head it expects, an archive stays stored.
ImportsStand ==
  /\ archives \subseteq archives'
  /\ \A u \in Uploads : imports[u] # None =>
       /\ imports'[u] # None
       /\ imports'[u].release = imports[u].release
       /\ imports'[u].expected = imports[u].expected

LEMMA HeadsStay ==
  ASSUME ImportsInv, ImportsStand, UNCHANGED <<head, lineage>>
  PROVE  Reference!HeadsFollow'
<1>1. ASSUME NEW i \in 2..Len(lineage)
      PROVE  /\ lineage[i] \in archives'
             /\ \E u \in Uploads : /\ imports'[u] # None
                                   /\ imports'[u].release = lineage[i]
                                   /\ imports'[u].expected = lineage[i - 1]
  BY DEF ImportsInv, ImportsStand, Reference!HeadsFollow
<1>2. head = lineage[Len(lineage)]
  BY DEF ImportsInv, Reference!HeadsFollow
<1> QED
  BY <1>1, <1>2 DEF Reference!HeadsFollow

LEMMA PublicationsGoOn ==
  ASSUME ImportsInv, ImportsStand, NEW r \in Requests,
         \A q \in Requests : q # r => request'[q] = request[q],
         request'[r] # None =>
           /\ request'[r].task # "send" => imports'[request'[r].upload] # None
           /\ request'[r].task \in {"compare", "swap", "log"} => Reference!Release(r)' \in archives'
  PROVE  PublicationsInv'
<1> SUFFICES ASSUME NEW q \in Requests, q # r, request'[q] # None
             PROVE  /\ request'[q].task # "send" => imports'[request'[q].upload] # None
                    /\ request'[q].task \in {"compare", "swap", "log"} => Reference!Release(q)' \in archives'
  BY DEF PublicationsInv
<1>1. request'[q] = request[q] /\ request[q] \in Errand
  BY DEF ImportsInv, ChunksTyped
<1>2. request[q].upload \in Uploads
  BY <1>1 DEF Errand
<1>3. /\ request[q].task # "send" => imports[request[q].upload] # None
      /\ request[q].task \in {"compare", "swap", "log"} => Reference!Release(q) \in archives
  BY <1>1 DEF ImportsInv, PublicationsInv
<1> QED
  BY <1>1, <1>2, <1>3 DEF ImportsStand, Reference!Release

\* The same parts of uploads as in the private library.
LEMMA SameChunks ==
  ASSUME NEW r \in Requests
  PROVE  /\ \A u \in Uploads, n \in Parts, c \in Contents :
              Reference!SendPart(r, u, n, c) = Private!SendPart(r, u, n, c)
         /\ Reference!StorePart(r) = Private!StorePart(r)
         /\ \A u \in Uploads : Reference!Gather(r, u) = Private!Gather(r, u)
         /\ \A n \in Parts : Reference!ReadPart(r, n) = Private!ReadPart(r, n)
         /\ Reference!GiveUp(r) = Private!GiveUp(r)
BY DEF Reference!SendPart, Private!SendPart, Reference!StorePart, Private!StorePart, Reference!Gather,
       Private!Gather, Reference!ReadPart, Private!ReadPart, Reference!GiveUp, Private!GiveUp,
       Reference!Doing, Private!Doing

ImportingParts(r) ==
  \/ \E u \in Uploads, n \in Parts, c \in Contents : Reference!Send(r, u, n, c)
  \/ \E u \in Uploads : Reference!Publish(r, u)
  \/ \E n \in Parts : Reference!Read(r, n)
  \/ Reference!Store(r) \/ Reference!Abandon(r)

LEMMA ImportingPartsSteps ==
  ASSUME ReleaseConstants, ImportsInv, NEW r \in Requests, ImportingParts(r)
  PROVE  ImportsInv'
<1>1. Chunk(r)
  BY SameChunks
  DEF ImportingParts, Chunk, Reference!Send, Reference!Publish, Reference!Read, Reference!Store,
      Reference!Abandon
<1>2. UNCHANGED <<imports, archives, head, lineage, audit>>
  BY DEF ImportingParts, Reference!Send, Reference!Publish, Reference!Read, Reference!Store,
         Reference!Abandon, Reference!state
<1>3. ChunksTyped'
  BY <1>1, ChunksStayTyped DEF ImportsInv
<1>4. ImportsStand
  BY <1>2 DEF ImportsStand
<1>5. /\ \A q \in Requests : q # r => request'[q] = request[q]
      /\ request'[r] # None =>
           \/ request'[r].task = "send"
           \/ request'[r].task = "gather" /\ imports'[request'[r].upload] # None
  <2>0. request \in [Requests -> Errand \cup {None}]
    BY DEF ImportsInv, ChunksTyped
  <2>1. ASSUME NEW u \in Uploads, NEW n \in Parts, NEW c \in Contents, Reference!Send(r, u, n, c)
        PROVE  <1>5
    BY <2>0, <2>1 DEF Reference!Send, Reference!SendPart
  <2>2. ASSUME Reference!Store(r) \/ Reference!Abandon(r) PROVE <1>5
    BY <2>0, <2>2 DEF Reference!Store, Reference!StorePart, Reference!Abandon, Reference!GiveUp
  <2>3. ASSUME NEW u \in Uploads, Reference!Publish(r, u) PROVE <1>5
    BY <2>0, <2>3, <1>2 DEF Reference!Publish, Reference!Gather, Reference!Live
  <2>4. ASSUME NEW n \in Parts, Reference!Read(r, n) PROVE <1>5
    <3>1. request[r] \in [task : {"gather"}, upload : Uploads, got : [Parts -> Contents \cup {None}]]
      BY <2>0, <2>4 DEF Reference!Read, Reference!ReadPart, Reference!Doing, Errand
    <3>2. PICK next : next = [request[r] EXCEPT !.got[n] = pieces[request[r].upload][n]]
      OBVIOUS
    <3>3. next.task = "gather" /\ next.upload = request[r].upload
      BY <3>1, <3>2
    <3>4. request' = [request EXCEPT ![r] = next]
      BY <2>4, <3>2 DEF Reference!Read, Reference!ReadPart
    <3>5. imports[request[r].upload] # None
      BY <2>4, <3>1 DEF Reference!Read, Reference!ReadPart, Reference!Doing, ImportsInv, PublicationsInv
    <3> QED
      BY <2>0, <3>3, <3>4, <3>5, <1>2
  <2> QED
    BY <2>1, <2>2, <2>3, <2>4 DEF ImportingParts
<1>6. PublicationsInv'
  BY <1>4, <1>5, PublicationsGoOn
<1>7. Reference!HeadsFollow'
  BY <1>2, <1>4, HeadsStay
<1> QED
  BY <1>2, <1>3, <1>6, <1>7 DEF ImportsInv

LEMMA ImportRowsSteps ==
  ASSUME ReleaseConstants, ImportsInv, NEW u \in Uploads,
         (\E c \in Contents : Reference!Start(u, c)) \/ Reference!Expire(u)
  PROVE  ImportsInv'
<1>1. imports' \in [Uploads -> Import \cup {None}] /\ ImportsStand
  <2>1. ASSUME NEW c \in Contents, Reference!Start(u, c) PROVE <1>1
    <3>1. head \in Contents \cup {None}
      BY DEF ImportsInv, Reference!HeadsFollow
    <3>2. [release |-> c, expected |-> head, live |-> TRUE] \in Import
      BY <3>1 DEF Import
    <3> QED
      BY <2>1, <3>2 DEF Reference!Start, ImportsInv, ImportsStand
  <2>2. ASSUME Reference!Expire(u) PROVE <1>1
    <3>1. imports[u] \in Import
      BY <2>2 DEF Reference!Expire, Reference!Live, ImportsInv
    <3>2. PICK next : next = [imports[u] EXCEPT !.live = FALSE]
      OBVIOUS
    <3>3. /\ next \in Import
          /\ next.release = imports[u].release /\ next.expected = imports[u].expected
      BY <3>1, <3>2 DEF Import
    <3>4. imports' = [imports EXCEPT ![u] = next]
      BY <2>2, <3>2 DEF Reference!Expire
    <3>5. next # None
      BY <3>3 DEF ReleaseConstants
    <3> QED
      BY <2>2, <3>3, <3>4, <3>5 DEF Reference!Expire, ImportsInv, ImportsStand
  <2> QED
    BY <2>1, <2>2
<1>2. UNCHANGED <<pieces, request, archives, head, lineage, audit>>
  BY DEF Reference!Start, Reference!Expire
<1>3. PublicationsInv'
  <2> SUFFICES ASSUME NEW q \in Requests, request[q] # None
               PROVE  /\ request[q].task # "send" => imports'[request[q].upload] # None
                      /\ request[q].task \in {"compare", "swap", "log"} => Reference!Release(q)' \in archives
    BY <1>2 DEF PublicationsInv
  <2>1. request[q].upload \in Uploads
    BY DEF ImportsInv, ChunksTyped, Errand
  <2>2. request[q].task \in {"compare", "swap", "log"} => request[q].task # "send"
    OBVIOUS
  <2> QED
    BY <1>1, <1>2, <2>1, <2>2 DEF ImportsInv, PublicationsInv, ImportsStand, Reference!Release
<1>4. Reference!HeadsFollow'
  BY <1>1, <1>2, HeadsStay
<1> QED
  BY <1>1, <1>2, <1>3, <1>4 DEF ImportsInv, ChunksTyped

\* A publication that goes on keeps its upload.
LEMMA TurnKeeps ==
  ASSUME ImportsInv, NEW r \in Requests, request[r] # None,
         NEW turn \in {"compare", "swap", "log"}, Reference!Turn(r, turn), UNCHANGED pieces
  PROVE  /\ ChunksTyped'
         /\ request'[r].task = turn /\ request'[r].upload = request[r].upload
         /\ \A q \in Requests : q # r => request'[q] = request[q]
<1>1. request[r].upload \in Uploads
  BY DEF ImportsInv, ChunksTyped, Errand
<1>2. PICK next : next = [task |-> turn, upload |-> request[r].upload]
  OBVIOUS
<1>3. next \in Errand
  BY <1>1, <1>2 DEF Errand
<1>4. request' = [request EXCEPT ![r] = next]
  BY <1>2 DEF Reference!Turn
<1> QED
  BY <1>1, <1>2, <1>3, <1>4 DEF ImportsInv, ChunksTyped

LEMMA PublishingSteps ==
  ASSUME ReleaseConstants, ImportsInv, NEW r \in Requests,
         Reference!Archive(r) \/ Reference!Compare(r) \/ Reference!Swap(r) \/ Reference!Log(r)
  PROVE  ImportsInv'
<1> DEFINE u == request[r].upload
<1>0. /\ request[r] # None /\ request[r] \in Errand /\ u \in Uploads
      /\ request[r].task # "send"
      /\ imports[u] # None /\ imports[u] \in Import
  <2>1. request[r] # None /\ request[r].task # "send"
    BY DEF Reference!Archive, Reference!Compare, Reference!Swap, Reference!Log, Reference!Doing
  <2>2. request[r] \in Errand
    BY <2>1 DEF ImportsInv, ChunksTyped
  <2>3. u \in Uploads
    BY <2>2 DEF Errand
  <2> QED
    BY <2>1, <2>2, <2>3 DEF ImportsInv, PublicationsInv
<1>1. Reference!Release(r) \in Contents
  BY <1>0 DEF Reference!Release, Import
<1>2. UNCHANGED <<pieces, imports>>
  BY DEF Reference!Archive, Reference!Compare, Reference!Swap, Reference!Log, Reference!state
<1>3. CASE Reference!Archive(r)
  <2>1. archives' = archives \cup {Reference!Release(r)} /\ UNCHANGED <<head, lineage>>
    BY <1>3 DEF Reference!Archive
  <2>2. ImportsStand
    BY <1>2, <2>1 DEF ImportsStand
  <2>3. /\ ChunksTyped' /\ request'[r].task = "compare" /\ request'[r].upload = u
        /\ \A q \in Requests : q # r => request'[q] = request[q]
    BY <1>0, <1>2, <1>3, TurnKeeps DEF Reference!Archive
  <2>4. PublicationsInv'
    BY <1>0, <1>2, <2>1, <2>2, <2>3, PublicationsGoOn DEF Reference!Release
  <2>5. Reference!HeadsFollow'
    BY <2>1, <2>2, HeadsStay
  <2> QED
    BY <1>1, <1>2, <2>1, <2>3, <2>4, <2>5 DEF ImportsInv
<1>4. CASE Reference!Compare(r)
  <2>1. UNCHANGED <<archives, head, lineage>>
    BY <1>4 DEF Reference!Compare, Reference!state
  <2>2. ImportsStand
    BY <1>2, <2>1 DEF ImportsStand
  <2>3. PICK turn \in {"swap", "log"} : Reference!Turn(r, turn)
    BY <1>4 DEF Reference!Compare
  <2>4. /\ ChunksTyped' /\ request'[r].task = turn /\ request'[r].upload = u
        /\ \A q \in Requests : q # r => request'[q] = request[q]
    BY <1>0, <1>2, <2>3, TurnKeeps
  <2>5. Reference!Release(r) \in archives
    BY <1>0, <1>4 DEF Reference!Compare, Reference!Doing, ImportsInv, PublicationsInv
  <2>6. PublicationsInv'
    BY <1>0, <1>2, <2>1, <2>2, <2>4, <2>5, PublicationsGoOn DEF Reference!Release
  <2>7. Reference!HeadsFollow'
    BY <2>1, <2>2, HeadsStay
  <2> QED
    BY <1>2, <2>1, <2>4, <2>6, <2>7 DEF ImportsInv
<1>5. CASE Reference!Swap(r)
  <2>1. /\ UNCHANGED archives
        /\ head' = Reference!Release(r) /\ lineage' = Append(lineage, Reference!Release(r))
        /\ head = imports[u].expected
    BY <1>5 DEF Reference!Swap, Reference!Expected
  <2>2. ImportsStand
    BY <1>2, <2>1 DEF ImportsStand
  <2>4. /\ ChunksTyped' /\ request'[r].task = "log" /\ request'[r].upload = u
        /\ \A q \in Requests : q # r => request'[q] = request[q]
    BY <1>0, <1>2, <1>5, TurnKeeps DEF Reference!Swap
  <2>5. Reference!Release(r) \in archives
    BY <1>0, <1>5 DEF Reference!Swap, Reference!Doing, ImportsInv, PublicationsInv
  <2>6. PublicationsInv'
    BY <1>0, <1>2, <2>1, <2>2, <2>4, <2>5, PublicationsGoOn DEF Reference!Release
  <2>7. lineage' \in Seq(Contents \cup {None}) /\ lineage' # <<>>
    BY <1>1, <2>1 DEF ImportsInv
  <2>8. Reference!HeadsFollow'
    <3>1. lineage \in Seq(Contents \cup {None}) /\ Len(lineage) \in Nat \ {0}
      BY DEF ImportsInv
    <3>2. PICK new : new = Reference!Release(r)
      OBVIOUS
    <3>3. /\ Len(lineage') = Len(lineage) + 1
          /\ lineage'[Len(lineage) + 1] = new /\ head' = new /\ new \in archives'
          /\ \A i \in 1..Len(lineage) : lineage'[i] = lineage[i]
      BY <1>1, <2>1, <2>5, <3>1, <3>2
    <3>4. imports'[u].release = new /\ imports'[u].expected = lineage[Len(lineage)] /\ imports'[u] # None
      BY <1>0, <1>2, <2>1, <3>2 DEF ImportsInv, Reference!HeadsFollow, Reference!Release
    <3>5. ASSUME NEW i \in 2..Len(lineage')
          PROVE  /\ lineage'[i] \in archives'
                 /\ \E v \in Uploads : /\ imports'[v] # None
                                       /\ imports'[v].release = lineage'[i]
                                       /\ imports'[v].expected = lineage'[i - 1]
      <4>1. CASE i = Len(lineage) + 1
        BY <1>0, <3>1, <3>3, <3>4, <4>1
      <4>2. CASE i \in 2..Len(lineage)
        <5>1. i - 1 \in 1..Len(lineage) /\ i \in 1..Len(lineage)
          BY <3>1, <4>2
        <5>2. lineage'[i] = lineage[i] /\ lineage'[i - 1] = lineage[i - 1]
          BY <3>3, <5>1
        <5> QED
          BY <1>2, <2>1, <4>2, <5>2 DEF ImportsInv, Reference!HeadsFollow
      <4> QED
        BY <3>1, <3>3, <4>1, <4>2
    <3> QED
      BY <3>1, <3>3, <3>5 DEF Reference!HeadsFollow
  <2> QED
    BY <1>2, <2>1, <2>4, <2>6, <2>7, <2>8 DEF ImportsInv
<1>6. CASE Reference!Log(r)
  <2>1. UNCHANGED <<archives, head, lineage>> /\ request' = [request EXCEPT ![r] = None]
    BY <1>6 DEF Reference!Log
  <2>2. ImportsStand
    BY <1>2, <2>1 DEF ImportsStand
  <2>3. ChunksTyped' /\ request'[r] = None /\ \A q \in Requests : q # r => request'[q] = request[q]
    BY <1>2, <2>1 DEF ImportsInv, ChunksTyped
  <2>4. PublicationsInv'
    BY <2>2, <2>3, PublicationsGoOn
  <2>5. Reference!HeadsFollow'
    BY <2>1, <2>2, HeadsStay
  <2> QED
    BY <1>2, <2>1, <2>3, <2>4, <2>5 DEF ImportsInv
<1> QED
  BY <1>3, <1>4, <1>5, <1>6

LEMMA ImportsSteps ==
  ASSUME ReleaseConstants, ImportsInv, Reference!Importing
  PROVE  ImportsInv'
BY ImportingPartsSteps, ImportRowsSteps, PublishingSteps DEF Reference!Importing, ImportingParts
-----------------------------------------------------------------------------
(* The index of the release in force.                                       *)
Load == [release : Contents, stage : {"index", "save"}, payload : Payloads \cup {None},
         written : SUBSET Slices]

\* Of the constants: None is no load.
IndexConstants == None \notin Load \cup Contents

IndexInv ==
  /\ archives \subseteq Contents
  /\ head \in archives \cup {None}
  /\ manifests \in [Contents -> Payloads \cup {None}]
  /\ load \in [Servers -> Load \cup {None}]
  /\ \A p \in Servers : Reference!Loading(p, "index") => load[p].written = {}
  /\ Reference!ManifestsAreComplete

\* What was written of a load is stored.
Stored(row, parts) == \A n \in row.written : <<row.release, row.payload, n>> \in parts

\* The load of one server changes; nothing is taken away.
LEMMA LoadChanges ==
  ASSUME IndexConstants, IndexInv, NEW p \in Servers, NEW next \in Load \cup {None},
         load' = [load EXCEPT ![p] = next],
         next # None => /\ next.release \in archives /\ Stored(next, slices')
                        /\ next.stage = "index" => next.written = {},
         UNCHANGED <<archives, head>>,
         slices \subseteq slices',
         manifests' \in [Contents -> Payloads \cup {None}],
         \A c \in Contents : manifests'[c] # None =>
           \A n \in Slices : <<c, manifests'[c], n>> \in slices'
  PROVE  IndexInv'
<1> USE DEF IndexInv
<1>1. load' \in [Servers -> Load \cup {None}]
  OBVIOUS
<1>2. \A q \in Servers : Reference!Loading(q, "index")' => load'[q].written = {}
  BY DEF Reference!Loading
<1>3. \A c \in Contents : Reference!Complete(c)'
  BY DEF Reference!Complete
<1>4. ASSUME NEW q \in Servers, load'[q] # None
      PROVE  /\ load'[q].release \in archives'
             /\ load'[q].written \subseteq Slices
             /\ \A n \in load'[q].written :
                  <<load'[q].release, load'[q].payload, n>> \in slices'
  <2>1. CASE q = p
    BY <1>4, <2>1 DEF Load, Stored
  <2>2. CASE q # p
    BY <1>4, <2>2 DEF Reference!ManifestsAreComplete
  <2> QED
    BY <2>1, <2>2
<1>5. Reference!ManifestsAreComplete'
  BY <1>3, <1>4 DEF Reference!ManifestsAreComplete
<1> QED
  BY <1>1, <1>2, <1>5

LEMMA ManifestsStay ==
  ASSUME IndexInv, slices \subseteq slices', UNCHANGED manifests
  PROVE  /\ manifests' \in [Contents -> Payloads \cup {None}]
         /\ \A c \in Contents : manifests'[c] # None =>
              \A n \in Slices : <<c, manifests'[c], n>> \in slices'
BY DEF IndexInv, Reference!ManifestsAreComplete, Reference!Complete

LEMMA IndexSteps ==
  ASSUME IndexConstants, IndexInv, Reference!Indexing
  PROVE  IndexInv'
<1> USE DEF IndexInv
<1>1. ASSUME NEW c \in Contents, Reference!Archived(c) \/ Reference!Swapped(c) PROVE IndexInv'
  BY <1>1 DEF Reference!Archived, Reference!Swapped, Reference!ManifestsAreComplete,
     Reference!Complete, Reference!Loading
<1>2. ASSUME NEW p \in Servers, Reference!Search(p) PROVE IndexInv'
  <2>1. PICK next : next = [release |-> head, stage |-> "index", payload |-> None, written |-> {}]
    OBVIOUS
  <2>2. next \in Load /\ next.release \in archives /\ next.written = {} /\ Stored(next, slices)
    BY <1>2, <2>1 DEF Reference!Search, Load, Stored
  <2>3. load' = [load EXCEPT ![p] = next] /\ UNCHANGED <<archives, head, slices, manifests>>
    BY <1>2, <2>1 DEF Reference!Search, Reference!Turned
  <2> QED
    BY <2>2, <2>3, LoadChanges, ManifestsStay
<1>3. ASSUME NEW p \in Servers,
             \/ Reference!UseMemory(p) \/ Reference!UseSnapshot(p)
             \/ \E alive \in BOOLEAN : Reference!Stop(p, alive)
      PROVE  IndexInv'
  <2>1. load' = [load EXCEPT ![p] = None] /\ UNCHANGED <<archives, head, slices, manifests>>
    BY <1>3 DEF Reference!UseMemory, Reference!UseSnapshot, Reference!Stop, Reference!Turned
  <2> QED
    BY <2>1, LoadChanges, ManifestsStay
<1>4. ASSUME NEW p \in Servers, NEW payload \in Payloads, Reference!Rebuild(p, payload)
      PROVE  IndexInv'
  <2>1. PICK next : next = [load[p] EXCEPT !.stage = "save", !.payload = payload]
    OBVIOUS
  <2>2. load[p] \in Load /\ load[p].written = {} /\ load[p].release \in archives
    BY <1>4 DEF Reference!Rebuild, Reference!Loading
  <2>3. next \in Load /\ next.release \in archives /\ next.written = {} /\ Stored(next, slices)
    BY <2>1, <2>2 DEF Load, Stored
  <2>4. load' = [load EXCEPT ![p] = next] /\ UNCHANGED <<archives, head, slices, manifests>>
    BY <1>4, <2>1 DEF Reference!Rebuild, Reference!Turned
  <2> QED
    BY <2>3, <2>4, LoadChanges, ManifestsStay
<1>5. ASSUME NEW p \in Servers, NEW n \in Slices, Reference!SaveSlice(p, n)
      PROVE  IndexInv'
  <2>1. PICK next : next = [load[p] EXCEPT !.written = @ \cup {n}]
    OBVIOUS
  <2>2. /\ load[p] # None /\ load[p] \in Load /\ load[p].stage = "save"
        /\ load[p].release \in archives /\ Stored(load[p], slices)
    BY <1>5 DEF Reference!SaveSlice, Reference!Loading, Reference!ManifestsAreComplete, Stored
  <2>3. /\ next \in Load /\ next.stage = "save" /\ next.release = load[p].release
        /\ next.payload = load[p].payload /\ next.written = load[p].written \cup {n}
    BY <2>1, <2>2 DEF Load
  <2>4. /\ load' = [load EXCEPT ![p] = next] /\ UNCHANGED <<archives, head, manifests>>
        /\ slices' = slices \cup {<<load[p].release, load[p].payload, n>>}
    BY <1>5, <2>1 DEF Reference!SaveSlice, Reference!Turned
  <2>5. Stored(next, slices') /\ slices \subseteq slices'
    BY <2>2, <2>3, <2>4 DEF Stored
  <2>6. /\ manifests' \in [Contents -> Payloads \cup {None}]
        /\ \A c \in Contents : manifests'[c] # None =>
             \A m \in Slices : <<c, manifests'[c], m>> \in slices'
    BY <2>4, <2>5, ManifestsStay
  <2> QED
    BY <2>2, <2>3, <2>4, <2>5, <2>6, LoadChanges
<1>6. ASSUME NEW p \in Servers, Reference!SaveManifest(p) PROVE IndexInv'
  <2>1. /\ load[p] # None /\ load[p] \in Load /\ Stored(load[p], slices) /\ load[p].written = Slices
    BY <1>6 DEF Reference!SaveManifest, Reference!Loading, Reference!ManifestsAreComplete, Stored
  <2>2. load[p].release \in Contents /\ load[p].payload \in Payloads \cup {None}
    BY <2>1 DEF Load
  <2>3. /\ load' = [load EXCEPT ![p] = None] /\ UNCHANGED <<archives, head, slices>>
        /\ manifests' = [manifests EXCEPT ![load[p].release] = load[p].payload]
    BY <1>6 DEF Reference!SaveManifest, Reference!Turned
  <2>4. /\ manifests' \in [Contents -> Payloads \cup {None}]
        /\ \A c \in Contents : manifests'[c] # None =>
             \A m \in Slices : <<c, manifests'[c], m>> \in slices'
    BY <2>1, <2>2, <2>3 DEF Reference!ManifestsAreComplete, Reference!Complete, Stored
  <2> QED
    BY <2>3, <2>4, LoadChanges
<1> QED
  BY <1>1, <1>2, <1>3, <1>4, <1>5, <1>6 DEF Reference!Indexing
-----------------------------------------------------------------------------
(* The local folder.                                                        *)
File == [text : Texts, stamp : Nat, there : BOOLEAN]
Row == [text : Texts \cup {None}, stamp : Nat, error : BOOLEAN]
Opening == [path : Paths, file : File]
Scan == [left : SUBSET Paths, opened : Opening \cup {None}, prepared : [Paths -> Row \cup {None}]]

\* Of the constants: None is nothing else.
FolderConstants == None \notin Row \cup Scan \cup Opening \cup Roots

\* A row is not newer than its file, and has its text if it is as new.
EntryStands(row, file) ==
  (row # None /\ ~row.error) =>
    /\ row.stamp <= file.stamp
    /\ row.stamp = file.stamp => row.text = file.text

EntriesStand(entries) ==
  root # None => \A f \in Paths : EntryStands(entries[f], files[root][f])

FolderInv ==
  /\ root \in Roots \cup {None}
  /\ files \in [Roots -> [Paths -> File]]
  /\ rows \in [Paths -> Row \cup {None}]
  /\ scan \in Scan \cup {None}
  /\ EntriesStand(rows)
  /\ scan # None => root # None /\ EntriesStand(scan.prepared)

LEMMA FolderSteps ==
  ASSUME FolderConstants, FolderInv, Folder!Next
  PROVE  FolderInv'
<1> USE DEF FolderInv
<1>0. Folder!NoRows \in [Paths -> Row \cup {None}] /\ \A file : EntryStands(None, file)
  BY DEF Folder!NoRows, EntryStands
<1>1. Folder!Failed \in Row /\ \A file : EntryStands(Folder!Failed, file)
  BY DEF Folder!Failed, Row, EntryStands
<1>2. ASSUME NEW d \in Roots, NEW f \in Paths, NEW t \in Texts, NEW there \in BOOLEAN,
             Folder!Edit(d, f, t, there)
      PROVE  FolderInv'
  <2>1. files[d][f] \in File
    OBVIOUS
  <2>2. PICK next : next = [text |-> t, stamp |-> files[d][f].stamp + 1, there |-> there]
    OBVIOUS
  <2>3. next \in File /\ next.stamp = files[d][f].stamp + 1 /\ files[d][f].stamp \in Nat
    BY <2>1, <2>2 DEF File
  <2>4. /\ files' = [files EXCEPT ![d][f] = next]
        /\ UNCHANGED <<root, rows, merged, scan>>
    BY <1>2, <2>2 DEF Folder!Edit
  <2>5. files' \in [Roots -> [Paths -> File]]
    BY <2>3, <2>4
  <2>6. ASSUME NEW row \in Row \cup {None}, NEW g \in Paths, root # None, EntryStands(row, files[root][g])
        PROVE  EntryStands(row, files'[root][g])
    <3>1. CASE root = d /\ g = f
      <4>1. files'[root][g] = next
        BY <2>4, <3>1
      <4>2. row # None => row.stamp \in Nat
        BY DEF Row
      <4> QED
        BY <2>3, <2>6, <3>1, <4>1, <4>2 DEF EntryStands
    <3>2. CASE ~(root = d /\ g = f)
      BY <2>4, <2>6, <3>2
    <3> QED
      BY <3>1, <3>2
  <2>7. EntriesStand(rows)'
    BY <2>4, <2>6 DEF EntriesStand
  <2>8. ASSUME scan # None PROVE root # None /\ EntriesStand(scan.prepared)'
    <3>1. scan.prepared \in [Paths -> Row \cup {None}]
      BY <2>8 DEF Scan
    <3> QED
      BY <2>4, <2>6, <2>8, <3>1 DEF EntriesStand
  <2> QED
    BY <2>4, <2>5, <2>7, <2>8
<1>3. ASSUME NEW d \in Roots, Folder!Configure(d) PROVE FolderInv'
  <2>1. EntriesStand(rows)'
    BY <1>0, <1>3 DEF Folder!Configure, EntriesStand, Folder!NoRows
  <2> QED
    BY <1>0, <1>3, <2>1 DEF Folder!Configure
<1>4. ASSUME NEW listed \in SUBSET Paths, Folder!StartScan(listed) PROVE FolderInv'
  <2>1. PICK next : next = [left |-> listed, opened |-> None, prepared |-> Folder!NoRows]
    OBVIOUS
  <2>2. next \in Scan /\ next.prepared = Folder!NoRows
    BY <1>0, <2>1 DEF Scan
  <2>3. scan' = next /\ root # None /\ UNCHANGED <<root, files, rows>>
    BY <1>4, <2>1 DEF Folder!StartScan
  <2>4. EntriesStand(scan.prepared)'
    BY <1>0, <2>2, <2>3 DEF EntriesStand, Folder!NoRows
  <2> QED
    BY <2>2, <2>3, <2>4 DEF EntriesStand
<1>5. ASSUME NEW f \in Paths, Folder!Open(f) PROVE FolderInv'
  <2>1. scan \in Scan /\ root \in Roots /\ files[root][f] \in File /\ UNCHANGED <<root, files, rows>>
    BY <1>5 DEF Folder!Open
  <2>2. CASE files[root][f].there
    <3>1. PICK next : next = [scan EXCEPT !.left = @ \ {f},
                                          !.opened = [path |-> f, file |-> files[root][f]]]
      OBVIOUS
    <3>2. next \in Scan /\ next.prepared = scan.prepared
      BY <2>1, <3>1 DEF Scan, Opening
    <3>3. scan' = next
      BY <1>5, <2>2, <3>1 DEF Folder!Open
    <3> QED
      BY <1>5, <2>1, <3>2, <3>3 DEF EntriesStand, Folder!Open
  <2>3. CASE ~files[root][f].there
    <3>1. PICK next : next = [scan EXCEPT !.left = @ \ {f}, !.prepared[f] = Folder!Failed]
      OBVIOUS
    <3>2. next \in Scan /\ next.prepared = [scan.prepared EXCEPT ![f] = Folder!Failed]
      BY <1>1, <2>1, <3>1 DEF Scan
    <3>3. scan' = next
      BY <1>5, <2>3, <3>1 DEF Folder!Open
    <3>4. \A g \in Paths : EntryStands(next.prepared[g], files[root][g])
      <4>1. scan.prepared \in [Paths -> Row \cup {None}] /\ EntriesStand(scan.prepared)
        BY <1>5, <2>1 DEF Scan, Folder!Open
      <4> QED
        BY <1>1, <1>5, <3>2, <4>1 DEF EntriesStand, Folder!Open
    <3> QED
      BY <1>5, <2>1, <3>2, <3>3, <3>4 DEF EntriesStand, Folder!Open
  <2> QED
    BY <2>2, <2>3
<1>6. ASSUME NEW t \in Texts, Folder!Close(t) PROVE FolderInv'
  <2> DEFINE f == scan.opened.path
             before == scan.opened.file
             seen == files[root][f]
  <2>1. scan \in Scan /\ scan.opened \in Opening /\ root \in Roots /\ UNCHANGED <<root, files, rows>>
    BY <1>6 DEF Folder!Close, Scan
  <2>2. f \in Paths /\ seen \in File
    BY <2>1 DEF Opening
  <2>3. PICK row : row = Folder!Prepared(before, seen, t)
    OBVIOUS
  <2>4. row \in Row /\ EntryStands(row, seen)
    <3>1. CASE before = seen /\ Readable(t)
      <4>1. row = [text |-> t, stamp |-> seen.stamp, error |-> FALSE]
        BY <2>3, <3>1 DEF Folder!Prepared
      <4>2. t = seen.text /\ seen.stamp \in Nat
        BY <1>6, <2>2, <3>1 DEF Folder!Close, File
      <4> QED
        BY <4>1, <4>2 DEF Row, EntryStands
    <3>2. CASE ~(before = seen /\ Readable(t))
      BY <1>1, <2>3, <3>2 DEF Folder!Prepared
    <3> QED
      BY <3>1, <3>2
  <2>5. PICK next : next = [scan EXCEPT !.opened = None, !.prepared[f] = row]
    OBVIOUS
  <2>6. next \in Scan /\ next.prepared = [scan.prepared EXCEPT ![f] = row]
    BY <2>1, <2>2, <2>4, <2>5 DEF Scan
  <2>7. scan' = next
    BY <1>6, <2>3, <2>5 DEF Folder!Close
  <2>8. \A g \in Paths : EntryStands(next.prepared[g], files[root][g])
    <3>1. scan.prepared \in [Paths -> Row \cup {None}] /\ EntriesStand(scan.prepared) /\ root # None
      BY <1>6, <2>1 DEF Scan, Folder!Close
    <3> QED
      BY <2>4, <2>6, <3>1 DEF EntriesStand
  <2> QED
    BY <1>6, <2>1, <2>6, <2>7, <2>8 DEF EntriesStand, Folder!Close
<1>7. CASE Folder!Replace
  BY <1>7 DEF Folder!Replace, Scan, EntriesStand
<1>8. CASE Folder!Search \/ Folder!Die
  BY <1>8 DEF Folder!Search, Folder!Die, EntriesStand
<1> QED
  BY <1>2, <1>3, <1>4, <1>5, <1>6, <1>7, <1>8 DEF Folder!Next

LEMMA FolderFollows == ASSUME FolderConstants, FolderInv PROVE Folder!FoundIsCurrent
<1>1. ASSUME NEW f \in Paths, Folder!Current(f)
      PROVE  rows[f].text = files[root][f].text
  BY <1>1 DEF Folder!Current, FolderInv, EntriesStand, EntryStands
<1>2. Folder!Found = Folder!TextsOf(Folder!CurrentRows)
  BY DEF Folder!Found, Folder!KeptForRows
<1>3. ASSUME NEW f \in DOMAIN Folder!TextsOf(Folder!CurrentRows)
      PROVE  Folder!TextsOf(Folder!CurrentRows)[f] = files[root][f].text
  BY <1>1, <1>3 DEF Folder!TextsOf, Folder!CurrentRows
<1> QED
  BY <1>1, <1>2, <1>3 DEF Folder!FoundIsCurrent, Folder!Verified, Folder!Page, Folder!Export
-----------------------------------------------------------------------------
(* The requests of the chat.                                                *)
Stages == {"order", "rerank", "ask", "answer", "private", "local", "reference", "governed",
           "done", "failed"}
Held == UNION {[S -> Nat] : S \in SUBSET Sources}
Answering == [stage : Stages, form : Forms, sources : Held, model : [Sources -> Nat] \cup {None}]

Origins == {"private", "local", "reference", "governed"}

\* Of the constants: a source comes from one of the libraries, and there are only
\* so many requests.
ChatConstants ==
  /\ None \notin Answering \cup [Sources -> Nat]
  /\ IsFiniteSet(Chats)
  /\ \A s \in Sources : Origin(s) \in Origins
  /\ \A form \in Forms : form.governed \in BOOLEAN

\* The libraries whose sources were looked at again when a request is at a stage.
Checked(stage) ==
  CASE stage = "local" -> {"private"}
    [] stage = "reference" -> {"private", "local"}
    [] stage = "governed" -> {"private", "local", "reference"}
    [] stage = "done" -> Origins
    [] OTHER -> {}

\* What a request read is not newer than what the model answered from, and that
\* is not newer than the source is now; a source looked at again did not change.
AnswerStands(row, versions) ==
  /\ \A s \in DOMAIN row.sources : row.sources[s] <= versions[s]
  /\ \A s \in DOMAIN row.sources :
       Origin(s) \in {"reference", "governed"} => row.form.governed
  /\ row.stage \in {"private", "local", "reference", "governed"} =>
       /\ row.model # None
       /\ \A s \in DOMAIN row.sources :
            row.sources[s] <= row.model[s] /\ row.model[s] <= versions[s]
  /\ \A s \in DOMAIN row.sources :
       Origin(s) \in Checked(row.stage) => row.model[s] = row.sources[s]

ChatInv ==
  /\ version \in [Sources -> Nat]
  /\ chat \in [Chats -> Answering \cup {None}]
  /\ \A q \in Chats : chat[q] # None => AnswerStands(chat[q], version)
  /\ active \in 0..2
  /\ Requesting!SlotsAreCalls

LEMMA SameCount == \A S : Requesting!Cardinality(S) = Cardinality(S)
BY DEF Requesting!Cardinality, Cardinality, Requesting!IsFiniteSet, IsFiniteSet

\* A request changes, and with it the calls under way.
LEMMA ChatChanges ==
  ASSUME ChatConstants, ChatInv, NEW q \in Chats, NEW next \in Answering,
         chat' = [chat EXCEPT ![q] = next], UNCHANGED version,
         AnswerStands(next, version),
         active' = active + (IF next.stage \in {"rerank", "answer"} THEN 1 ELSE 0)
                          - (IF Requesting!Calling(q) THEN 1 ELSE 0),
         active' \in 0..2
  PROVE  ChatInv'
<1> USE DEF ChatInv
<1>1. /\ \A p \in Chats : chat'[p] = IF p = q THEN next ELSE chat[p]
      /\ chat' \in [Chats -> Answering \cup {None}]
      /\ next # None
  BY DEF ChatConstants
<1>2. \A p \in Chats : chat'[p] # None => AnswerStands(chat'[p], version)
  BY <1>1
<1>3. PICK S : S = Requesting!CallsUnderWay
  OBVIOUS
<1>4. \A p \in Chats : p \in S <=> chat[p] # None /\ chat[p].stage \in {"rerank", "answer"}
  BY <1>3 DEF Requesting!CallsUnderWay, Requesting!Calling, Requesting!At
<1>5. S \in SUBSET Chats /\ IsFiniteSet(S) /\ Cardinality(S) \in Nat /\ active = Cardinality(S)
  BY <1>3, FS_Subset, FS_CardinalityType, SameCount
  DEF Requesting!CallsUnderWay, Requesting!SlotsAreCalls, ChatConstants
<1>6. Requesting!CallsUnderWay' = IF next.stage \in {"rerank", "answer"} THEN S \cup {q} ELSE S \ {q}
  BY <1>1, <1>4, <1>5 DEF Requesting!CallsUnderWay, Requesting!Calling, Requesting!At
<1>7. Requesting!Calling(q) <=> q \in S
  BY <1>3 DEF Requesting!CallsUnderWay
<1>8. /\ Cardinality(S \cup {q}) = IF q \in S THEN Cardinality(S) ELSE Cardinality(S) + 1
      /\ Cardinality(S \ {q}) = IF q \in S THEN Cardinality(S) - 1 ELSE Cardinality(S)
  BY <1>5, FS_AddElement, FS_RemoveElement
<1>9. active' = Cardinality(Requesting!CallsUnderWay')
  <2>1. CASE next.stage \in {"rerank", "answer"}
    BY <1>5, <1>6, <1>7, <1>8, <2>1
  <2>2. CASE next.stage \notin {"rerank", "answer"}
    BY <1>5, <1>6, <1>7, <1>8, <2>2
  <2> QED
    BY <2>1, <2>2
<1>10. Requesting!SlotsAreCalls'
  BY <1>9, SameCount DEF Requesting!SlotsAreCalls
<1> QED
  BY <1>1, <1>2, <1>10

LEMMA CallsTakeSlots ==
  ASSUME ChatConstants, ChatInv, NEW q \in Chats, Requesting!Calling(q)
  PROVE  active > 0
<1>1. PICK S : S = Requesting!CallsUnderWay
  OBVIOUS
<1>2. S \in SUBSET Chats /\ q \in S
  BY <1>1 DEF Requesting!CallsUnderWay
<1>3. IsFiniteSet(S)
  BY <1>2, FS_Subset DEF ChatConstants
<1>4. Cardinality(S) \in Nat /\ Cardinality(S) # 0
  BY <1>2, <1>3, FS_CardinalityType, FS_EmptySet
<1>5. active = Cardinality(S)
  BY <1>1, SameCount DEF ChatInv, Requesting!SlotsAreCalls
<1> QED
  BY <1>4, <1>5

\* A request whose stage is turned keeps the rest.
LEMMA TurnedRequest ==
  ASSUME NEW row \in Answering, NEW stage \in Stages
  PROVE  \E next \in Answering :
           /\ next = [row EXCEPT !.stage = stage]
           /\ next.stage = stage /\ next.form = row.form
           /\ next.sources = row.sources /\ next.model = row.model
<1>1. PICK next : next = [row EXCEPT !.stage = stage]
  OBVIOUS
<1>2. /\ next \in Answering
      /\ next.stage = stage /\ next.form = row.form
      /\ next.sources = row.sources /\ next.model = row.model
  BY <1>1 DEF Answering
<1> QED
  BY <1>1, <1>2

LEMMA VersionSteps ==
  ASSUME ChatConstants, ChatInv, NEW s \in Sources, Requesting!Change(s)
  PROVE  ChatInv'
<1> USE DEF ChatInv
<1>1. /\ version' = [version EXCEPT ![s] = version[s] + 1]
      /\ UNCHANGED <<chat, active>>
  BY DEF Requesting!Change
<1>2. \A t \in Sources : version'[t] \in Nat /\ version[t] \in Nat /\ version[t] <= version'[t]
  BY <1>1
<1>3. ASSUME NEW q \in Chats, chat[q] # None PROVE AnswerStands(chat[q], version')
  <2>1. /\ chat[q] \in Answering /\ AnswerStands(chat[q], version)
        /\ chat[q].sources \in Held /\ chat[q].model \in [Sources -> Nat] \cup {None}
    BY <1>3 DEF Answering
  <2>2. PICK S \in SUBSET Sources : chat[q].sources \in [S -> Nat]
    BY <2>1 DEF Held
  <2> QED
    BY <1>2, <2>1, <2>2 DEF AnswerStands
<1>4. version' \in [Sources -> Nat]
  BY <1>1
<1> QED
  BY <1>1, <1>3, <1>4 DEF Requesting!SlotsAreCalls, Requesting!CallsUnderWay, Requesting!Calling,
     Requesting!At

LEMMA CollectSteps ==
  ASSUME ChatConstants, ChatInv, NEW q \in Chats, NEW form \in Forms, NEW hits \in SUBSET Sources,
         Requesting!Collect(q, form, hits)
  PROVE  ChatInv'
<1> USE DEF ChatInv
<1>1. PICK stage \in {"done", "order", "ask"} :
        /\ chat' = [chat EXCEPT ![q] =
             [stage |-> stage, form |-> form, sources |-> [s \in hits |-> version[s]],
              model |-> None]]
        /\ stage = "done" => hits = {}
  BY DEF Requesting!Collect
<1>2. PICK next : next = [stage |-> stage, form |-> form, sources |-> [s \in hits |-> version[s]],
                          model |-> None]
  OBVIOUS
<1>3. next \in Answering
  BY <1>2 DEF Answering, Held, Stages
<1>4. AnswerStands(next, version)
  BY <1>1, <1>2 DEF AnswerStands, Checked, Requesting!Collect
<1>5. chat[q] = None /\ ~Requesting!Calling(q) /\ UNCHANGED <<version, active>>
  BY DEF Requesting!Collect, Requesting!Calling, Requesting!At
<1>6. active' = active + (IF next.stage \in {"rerank", "answer"} THEN 1 ELSE 0)
                       - (IF Requesting!Calling(q) THEN 1 ELSE 0)
  BY <1>1, <1>2, <1>5
<1> QED
  BY <1>1, <1>2, <1>3, <1>4, <1>5, <1>6, ChatChanges

LEMMA CallSteps ==
  ASSUME ChatConstants, ChatInv, NEW q \in Chats,
         Requesting!Invoke(q) \/ Requesting!Ordered(q) \/ Requesting!End(q)
  PROVE  ChatInv'
<1> USE DEF ChatInv
<1>1. chat[q] \in Answering /\ AnswerStands(chat[q], version)
  BY DEF Requesting!Invoke, Requesting!Ordered, Requesting!End, Requesting!At
<1>2. ASSUME NEW stage \in {"rerank", "answer", "ask", "failed"}, Requesting!Turn(q, stage),
             UNCHANGED version,
             active' = active + (IF stage \in {"rerank", "answer"} THEN 1 ELSE 0)
                              - (IF Requesting!Calling(q) THEN 1 ELSE 0),
             active' \in 0..2
      PROVE  ChatInv'
  <2>0. stage \in Stages
    BY DEF Stages
  <2>1. PICK next \in Answering :
           /\ next = [chat[q] EXCEPT !.stage = stage]
           /\ next.stage = stage /\ next.form = chat[q].form
           /\ next.sources = chat[q].sources /\ next.model = chat[q].model
    BY <1>1, <2>0, TurnedRequest
  <2>2. chat' = [chat EXCEPT ![q] = next]
    BY <1>2, <2>1 DEF Requesting!Turn
  <2>3. AnswerStands(next, version)
    BY <1>1, <2>1 DEF AnswerStands, Checked
  <2> QED
    BY <1>2, <2>1, <2>2, <2>3, ChatChanges
<1>3. CASE Requesting!Invoke(q)
  <2>1. ~Requesting!Calling(q) /\ UNCHANGED version
    BY <1>3 DEF Requesting!Invoke, Requesting!Calling, Requesting!At
  <2>2. CASE active < 2 /\ active' = active + 1
             /\ Requesting!Turn(q, IF Requesting!At(q, "order") THEN "rerank" ELSE "answer")
    BY <1>2, <2>1, <2>2
  <2>3. CASE Requesting!Turn(q, "failed") /\ UNCHANGED active
    BY <1>2, <2>1, <2>3
  <2> QED
    BY <1>3, <2>2, <2>3 DEF Requesting!Invoke
<1>4. CASE Requesting!Ordered(q)
  <2>1. Requesting!Calling(q) /\ Requesting!Turn(q, "ask") /\ UNCHANGED version /\ Requesting!Release
    BY <1>4 DEF Requesting!Ordered, Requesting!Calling
  <2>2. active > 0
    BY <2>1, CallsTakeSlots
  <2>3. active' = active - 1
    BY <2>1, <2>2 DEF Requesting!Release
  <2> QED
    BY <1>2, <2>1, <2>2, <2>3
<1>5. CASE Requesting!End(q)
  <2>1. Requesting!Turn(q, "failed") /\ UNCHANGED version
    BY <1>5 DEF Requesting!End
  <2>2. CASE Requesting!Calling(q)
    <3>1. active > 0 /\ Requesting!Release
      BY <1>5, <2>2, CallsTakeSlots DEF Requesting!End
    <3>2. active' = active - 1
      BY <3>1 DEF Requesting!Release
    <3> QED
      BY <1>2, <2>1, <2>2, <3>1, <3>2
  <2>3. CASE ~Requesting!Calling(q)
    BY <1>2, <1>5, <2>1, <2>3 DEF Requesting!End
  <2> QED
    BY <2>2, <2>3
<1> QED
  BY <1>3, <1>4, <1>5

LEMMA AnsweredSteps ==
  ASSUME ChatConstants, ChatInv, NEW q \in Chats, NEW valid \in BOOLEAN,
         Requesting!Answered(q, valid)
  PROVE  ChatInv'
<1> USE DEF ChatInv
<1>1. /\ chat[q] \in Answering /\ AnswerStands(chat[q], version)
      /\ Requesting!Calling(q) /\ Requesting!Release /\ UNCHANGED version
  BY DEF Requesting!Answered, Requesting!At, Requesting!Calling
<1>2. active > 0 /\ active' = active - 1
  BY <1>1, CallsTakeSlots DEF Requesting!Release
<1>3. PICK stage \in {"private", "failed"} :
        chat' = [chat EXCEPT ![q].stage = stage, ![q].model = version]
  BY DEF Requesting!Answered
<1>4. PICK next : next = [chat[q] EXCEPT !.stage = stage, !.model = version]
  OBVIOUS
<1>5. /\ next \in Answering /\ next.stage = stage /\ next.form = chat[q].form
      /\ next.sources = chat[q].sources /\ next.model = version
  BY <1>1, <1>4 DEF Answering, Stages
<1>6. chat' = [chat EXCEPT ![q] = next]
  BY <1>1, <1>3, <1>4
<1>7. AnswerStands(next, version)
  <2>1. PICK S \in SUBSET Sources : chat[q].sources \in [S -> Nat]
    BY <1>1 DEF Answering, Held
  <2>2. version # None
    BY DEF ChatConstants
  <2> QED
    BY <1>1, <1>5, <2>1, <2>2 DEF AnswerStands, Checked
<1>8. active' = active + (IF next.stage \in {"rerank", "answer"} THEN 1 ELSE 0)
                       - (IF Requesting!Calling(q) THEN 1 ELSE 0)
  BY <1>1, <1>2, <1>3, <1>5
<1>9. active' \in 0..2
  BY <1>2
<1> QED
  BY <1>1, <1>5, <1>6, <1>7, <1>8, <1>9, ChatChanges

LEMMA VerifySteps ==
  ASSUME ChatConstants, ChatInv, NEW q \in Chats,
         NEW library \in {"private", "local", "reference", "governed"},
         Requesting!Verify(q, library)
  PROVE  ChatInv'
<1> USE DEF ChatInv
<1>1. /\ chat[q] \in Answering /\ AnswerStands(chat[q], version)
      /\ chat[q].stage = library /\ ~Requesting!Calling(q) /\ UNCHANGED <<version, active>>
  BY DEF Requesting!Verify, Requesting!At, Requesting!Calling
<1>2. PICK S \in SUBSET Sources : chat[q].sources \in [S -> Nat]
  BY <1>1 DEF Answering, Held
<1>3. chat[q].model \in [Sources -> Nat]
  BY <1>1 DEF Answering, AnswerStands
<1>4. PICK stage : stage = IF Requesting!AsRead(q, {library})
                           THEN Requesting!After(library, chat[q].form.governed) ELSE "failed"
  OBVIOUS
<1>5. chat[q].form \in Forms /\ chat[q].form.governed \in BOOLEAN
  BY <1>1 DEF Answering, ChatConstants
<1>6. stage \in {"local", "reference", "governed", "done", "failed"}
  BY <1>4, <1>5 DEF Requesting!After
<1>7. PICK next \in Answering :
         /\ next = [chat[q] EXCEPT !.stage = stage]
         /\ next.stage = stage /\ next.form = chat[q].form
         /\ next.sources = chat[q].sources /\ next.model = chat[q].model
  <2>1. stage \in Stages
    BY <1>6 DEF Stages
  <2> QED
    BY <1>1, <2>1, TurnedRequest
<1>8. chat' = [chat EXCEPT ![q] = next]
  BY <1>4, <1>7 DEF Requesting!Verify, Requesting!Turn
<1>9. ASSUME stage # "failed", NEW s \in S, Origin(s) = library
      PROVE  chat[q].model[s] = chat[q].sources[s]
  <2>1. version[s] = chat[q].sources[s]
    BY <1>2, <1>4, <1>9 DEF Requesting!AsRead, Requesting!Held
  <2>2. chat[q].sources[s] <= chat[q].model[s] /\ chat[q].model[s] <= version[s]
    BY <1>1, <1>2 DEF AnswerStands
  <2>3. chat[q].sources[s] \in Nat /\ chat[q].model[s] \in Nat /\ version[s] \in Nat
    BY <1>2, <1>3
  <2> QED
    BY <2>1, <2>2, <2>3
<1>10. \A s \in S : Origin(s) \in Checked(stage) => next.model[s] = next.sources[s]
  <2> TAKE s \in S
  <2>1. Origin(s) \in Origins
    BY <1>2 DEF ChatConstants
  <2>2. Origin(s) \in Checked(library) => chat[q].model[s] = chat[q].sources[s]
    BY <1>1, <1>2 DEF AnswerStands
  <2>3. ~chat[q].form.governed => Origin(s) \in {"private", "local"}
    BY <1>1, <1>2, <2>1 DEF AnswerStands, Origins
  <2>4. CASE stage = "failed"
    BY <2>4 DEF Checked
  <2>5. CASE stage # "failed"
    <3>1. stage = Requesting!After(library, chat[q].form.governed)
      BY <1>4, <2>5
    <3>2. Origin(s) \in Checked(stage) =>
            Origin(s) \in Checked(library) \/ Origin(s) = library
      BY <1>5, <2>1, <2>3, <3>1 DEF Requesting!After, Checked, Origins
    <3> QED
      BY <1>7, <1>9, <2>2, <2>5, <3>2
  <2> QED
    BY <2>4, <2>5
<1>11. AnswerStands(next, version)
  BY <1>1, <1>2, <1>6, <1>7, <1>10 DEF AnswerStands
<1>12. active' = active + (IF next.stage \in {"rerank", "answer"} THEN 1 ELSE 0)
                        - (IF Requesting!Calling(q) THEN 1 ELSE 0)
  BY <1>1, <1>6, <1>7
<1> QED
  BY <1>1, <1>7, <1>8, <1>11, <1>12, ChatChanges

LEMMA ChatSteps ==
  ASSUME ChatConstants, ChatInv, Requesting!Chatting
  PROVE  ChatInv'
BY VersionSteps, CollectSteps, CallSteps, AnsweredSteps, VerifySteps DEF Requesting!Chatting

LEMMA ChatStarts ==
  ASSUME ChatConstants, Requesting!ChatInit
  PROVE  ChatInv
<1>1. Requesting!CallsUnderWay = {}
  BY DEF Requesting!ChatInit, Requesting!CallsUnderWay, Requesting!Calling, Requesting!At
<1> QED
  BY <1>1, FS_EmptySet, SameCount
  DEF Requesting!ChatInit, ChatInv, Requesting!SlotsAreCalls, ChatConstants

LEMMA ChatFollows ==
  ASSUME ChatConstants, ChatInv
  PROVE  Requesting!AnswersStand /\ Requesting!SlotsAreCalls
<1>1. ASSUME NEW q \in Chats, Requesting!At(q, "done"), NEW s \in DOMAIN chat[q].sources
      PROVE  chat[q].model[s] = chat[q].sources[s]
  <2>1. chat[q] \in Answering /\ AnswerStands(chat[q], version) /\ chat[q].stage = "done"
    BY <1>1 DEF ChatInv, Requesting!At
  <2>2. s \in Sources
    BY <1>1, <2>1 DEF Answering, Held
  <2> QED
    BY <1>1, <2>1, <2>2 DEF AnswerStands, Checked, ChatConstants
<1> QED
  BY <1>1 DEF Requesting!AnswersStand, ChatInv
-----------------------------------------------------------------------------
(* The part whose behavior it is.                                           *)
SourcesConstants ==
  ReleaseConstants /\ IndexConstants /\ FolderConstants /\ ChatConstants

SourcesInv ==
  /\ focus = "reference" => ImportsInv
  /\ focus = "index" => IndexInv
  /\ focus = "folder" => FolderInv
  /\ focus = "chat" => ChatInv

LEMMA SourcesStart == ASSUME SourcesConstants, Init PROVE SourcesInv
<1> USE DEF Init, SourcesConstants
<1>1. ImportsInv
  <2>1. ChunksTyped /\ PublicationsInv
    BY DEF Reference!Init, Reference!ChunksInit, ChunksTyped, PublicationsInv
  <2>2. lineage \in Seq(Contents \cup {None}) /\ lineage # <<>> /\ Len(lineage) = 1
    BY DEF Reference!Init
  <2> QED
    BY <2>1, <2>2 DEF Reference!Init, ImportsInv, Reference!HeadsFollow
<1>2. IndexInv
  BY DEF Reference!Init, IndexInv, Reference!ManifestsAreComplete, Reference!Complete,
     Reference!Loading
<1>3. FolderInv
  <2>1. files \in [Roots -> [Paths -> File]]
    <3>1. ASSUME NEW file \in [text : Texts, stamp : {0}, there : {TRUE}] PROVE file \in File
      <4>1. PICK t \in Texts : file = [text |-> t, stamp |-> 0, there |-> TRUE]
        BY <3>1
      <4> QED
        BY <4>1 DEF File
    <3> QED
      BY <3>1 DEF Folder!Init
  <2> QED
    BY <2>1 DEF Folder!Init, Folder!NoRows, FolderInv, EntriesStand
<1>4. ChatInv
  BY ChatStarts
<1> QED
  BY <1>1, <1>2, <1>3, <1>4 DEF SourcesInv

LEMMA SourcesSteps ==
  ASSUME SourcesConstants, SourcesInv, [Next]_everything
  PROVE  SourcesInv'
<1> USE DEF SourcesConstants
<1>1. CASE ReferenceStep
  BY <1>1, ImportsSteps DEF ReferenceStep, SourcesInv
<1>2. CASE IndexStep
  BY <1>2, IndexSteps DEF IndexStep, SourcesInv
<1>3. CASE FolderStep
  BY <1>3, FolderSteps DEF FolderStep, SourcesInv
<1>4. CASE ChattingStep
  BY <1>4, ChatSteps DEF ChattingStep, SourcesInv
<1>5. CASE PrivateStep \/ TightStep \/ AbuseStep \/ PageStep \/ SearchStep
  BY <1>5 DEF PrivateStep, TightStep, AbuseStep, PageStep, SearchStep, SourcesInv
<1>6. CASE UNCHANGED everything
  <2>1. UNCHANGED <<focus, uploading, reference, index, folder, chatting>>
    BY <1>6 DEF everything, private
  <2>2. /\ UNCHANGED <<focus, pieces, request, imports, lineage, audit, archives, head>>
        /\ UNCHANGED <<manifests, slices, load, cache, root, files, rows, merged, scan>>
        /\ UNCHANGED <<version, chat, active>>
    BY <2>1 DEF uploading, reference, importing, releases, index, folder, chatting
  <2>3. ImportsInv => ImportsInv'
    BY <2>2 DEF ImportsInv, ChunksTyped, PublicationsInv, Reference!HeadsFollow, Reference!Release
  <2>4. IndexInv => IndexInv'
    BY <2>2 DEF IndexInv, Reference!ManifestsAreComplete, Reference!Complete, Reference!Loading
  <2>5. FolderInv => FolderInv'
    BY <2>2 DEF FolderInv, EntriesStand
  <2>6. ChatInv => ChatInv'
    BY <2>2 DEF ChatInv, Requesting!SlotsAreCalls, Requesting!CallsUnderWay, Requesting!Calling,
       Requesting!At
  <2> QED
    BY <2>2, <2>3, <2>4, <2>5, <2>6 DEF SourcesInv
<1> QED
  BY <1>1, <1>2, <1>3, <1>4, <1>5, <1>6 DEF Next

LEMMA SourcesFollow == ASSUME SourcesConstants, SourcesInv PROVE SourcesStand
BY FolderFollows, ChatFollows DEF SourcesConstants, SourcesInv, SourcesStand, ImportsInv, IndexInv

(* For any number of imports, servers, files, requests and sources: the     *)
(* head of the reference pack follows one that its import was started on,   *)
(* and its archive is stored; a manifest names complete indexes only; what  *)
(* is found in the local folder is what its files hold now; and an answer   *)
(* is returned only with sources that stood while the model answered.       *)
THEOREM SourcesAlwaysStand ==
  ASSUME SourcesConstants PROVE Spec => []SourcesStand
<1> QED
  BY SourcesStart, SourcesSteps, SourcesFollow, PTL DEF Spec, everything
-----------------------------------------------------------------------------
(* The budget of the calls.                                                 *)
BudgetConstants ==
  Minute \in Nat /\ Hour \in Nat /\ MinuteLimit \in Nat /\ HourLimit \in Nat

Orderly(times, t) ==
  /\ times \in Seq(Nat)
  /\ \A i \in 1..Len(times) : times[i] <= t
  /\ \A i, j \in 1..Len(times) : i <= j => times[i] <= times[j]

\* A queue holds the last of the times; the others are out of the window.
Remembers(q, times, window, t) ==
  /\ q \in Seq(Nat)
  /\ \E d \in 0..Len(times) :
       /\ Len(q) = Len(times) - d
       /\ \A i \in 1..Len(q) : q[i] = times[d + i]
       /\ \A i \in 1..d : t - times[i] >= window

Counted(q, times, window, limit) ==
  /\ Orderly(times, now)
  /\ Remembers(q, times, window, now)
  /\ Requesting!Within(times, window, limit)

BudgetInv ==
  /\ now \in Nat
  /\ DOMAIN queue = Clients /\ DOMAIN made = Clients
  /\ queue = [c \in Clients |-> queue[c]] /\ made = [c \in Clients |-> made[c]]
  /\ \A c \in Clients : Counted(queue[c], made[c], Minute, MinuteLimit)
  /\ Counted(hourly, modelled, Hour, HourLimit)
  /\ taken \in Nat /\ taken = open

LEMMA Least ==
  ASSUME NEW T \in SUBSET Nat, T # {}
  PROVE  \E n \in T : \A m \in T : n <= m
<1>1. \A R : \A S : IsWellFoundedOn(R, S) =>
        \A U \in SUBSET S : U # {} => \E v \in U : \A w \in U : <<w, v>> \notin R
  BY WFMin
<1>2. IsWellFoundedOn({ss \in Nat \X Nat : ss[1] < ss[2]}, Nat)
  BY NatLessThanWellFounded DEF OpToRel
<1>3. PICK v \in T : \A w \in T : <<w, v>> \notin {ss \in Nat \X Nat : ss[1] < ss[2]}
  BY <1>1, <1>2
<1>4. \A w \in T : ~(w < v)
  BY <1>3
<1> QED
  BY <1>4

\* There are calls to drop: those before the first in the window.
LEMMA SomeAreDropped ==
  ASSUME now \in Nat, NEW window \in Nat, NEW q \in Seq(Nat)
  PROVE  \E k \in 0..Len(q) : Requesting!Dropped(q, window, k)
<1>1. PICK T : T = {k \in 0..Len(q) : k < Len(q) => now - q[k + 1] < window}
  OBVIOUS
<1>2. T \in SUBSET Nat /\ Len(q) \in T
  BY <1>1
<1>3. PICK k \in T : \A m \in T : k <= m
  BY <1>2, Least
<1>4. ASSUME NEW i \in 1..k PROVE now - q[i] >= window
  <2>1. k \in 0..Len(q) /\ i - 1 \in 0..Len(q) /\ i - 1 \notin T
    BY <1>1, <1>3
  <2>2. i - 1 < Len(q) /\ ~(now - q[(i - 1) + 1] < window)
    BY <1>1, <2>1
  <2>3. (i - 1) + 1 = i /\ q[i] \in Nat
    BY <2>1
  <2> QED
    BY <2>2, <2>3
<1>5. k \in 0..Len(q) /\ (k < Len(q) => now - q[k + 1] < window)
  BY <1>1
<1> QED
  BY <1>4, <1>5 DEF Requesting!Dropped

LEMMA TrimmedRemembers ==
  ASSUME now \in Nat, NEW window \in Nat, NEW times, Orderly(times, now),
         NEW q, Remembers(q, times, window, now)
  PROVE  Remembers(Requesting!Trimmed(q, window), times, window, now)
<1>0. q \in Seq(Nat) /\ times \in Seq(Nat)
  BY DEF Remembers, Orderly
<1>1. PICK k : k = CHOOSE j \in 0..Len(q) : Requesting!Dropped(q, window, j)
  OBVIOUS
<1>2. k \in 0..Len(q) /\ Requesting!Dropped(q, window, k)
  BY <1>0, <1>1, SomeAreDropped
<1>3. PICK s : s = SubSeq(q, k + 1, Len(q))
  OBVIOUS
<1>4. Requesting!Trimmed(q, window) = s
  BY <1>1, <1>3 DEF Requesting!Trimmed
<1>5. /\ s \in Seq(Nat) /\ Len(s) = Len(q) - k
      /\ \A i \in 1..Len(s) : s[i] = q[k + i]
  <2>1. Len(q) \in Nat /\ k \in Nat /\ k <= Len(q) /\ \A i \in k + 1 .. Len(q) : q[i] \in Nat
    BY <1>0, <1>2
  <2>2. /\ s \in Seq(Nat)
        /\ Len(s) = IF k + 1 <= Len(q) THEN Len(q) - (k + 1) + 1 ELSE 0
        /\ \A i \in 1 .. Len(q) - (k + 1) + 1 : s[i] = q[k + 1 + i - 1]
    <3>1. k + 1 \in Int /\ Len(q) \in Int
      BY <2>1
    <3> QED
      BY <1>3, <2>1, <3>1, SubSeqProperties
  <2>3. Len(s) = Len(q) - k
    BY <2>1, <2>2
  <2>4. ASSUME NEW i \in 1..Len(s) PROVE s[i] = q[k + i]
    <3>1. i \in 1 .. Len(q) - (k + 1) + 1 /\ k + 1 + i - 1 = k + i
      BY <2>1, <2>3
    <3> QED
      BY <2>2, <3>1
  <2> QED
    BY <2>2, <2>3, <2>4
<1>6. PICK d \in 0..Len(times) :
        /\ Len(q) = Len(times) - d
        /\ \A i \in 1..Len(q) : q[i] = times[d + i]
        /\ \A i \in 1..d : now - times[i] >= window
  BY DEF Remembers
<1>7. d + k \in 0..Len(times) /\ Len(s) = Len(times) - (d + k)
  BY <1>0, <1>2, <1>5, <1>6
<1>8. ASSUME NEW i \in 1..Len(s) PROVE s[i] = times[(d + k) + i]
  <2>1. k + i \in 1..Len(q) /\ s[i] = q[k + i]
    <3>1. i \in 1..Len(q) - k
      BY <1>5
    <3>2. k \in Nat /\ Len(q) \in Nat /\ i \in Nat /\ i >= 1 /\ i <= Len(q) - k
      BY <1>0, <1>2, <3>1
    <3>3. k + i \in 1..Len(q)
      BY <3>2
    <3> QED
      BY <1>5, <3>3
  <2>2. d + (k + i) = (d + k) + i
    BY <1>2
  <2> QED
    BY <1>6, <2>1, <2>2
<1>9. ASSUME NEW i \in 1..(d + k) PROVE now - times[i] >= window
  <2>1. CASE i <= d
    BY <1>6, <2>1
  <2>2. CASE i > d
    <3>1. i - d \in 1..k /\ i - d \in 1..Len(q) /\ d + (i - d) = i
      BY <1>2, <2>2
    <3>2. now - q[i - d] >= window
      BY <1>2, <3>1 DEF Requesting!Dropped
    <3> QED
      BY <1>6, <3>1, <3>2
  <2> QED
    BY <1>2, <2>1, <2>2
<1> QED
  BY <1>4, <1>5, <1>7, <1>8, <1>9 DEF Remembers

LEMMA ForgottenRemembers ==
  ASSUME now \in Nat, NEW window \in Nat, NEW times, Orderly(times, now),
         NEW q, Remembers(q, times, window, now),
         q # <<>> => now - q[Len(q)] >= window
  PROVE  Remembers(<<>>, times, window, now)
<1>0. q \in Seq(Nat) /\ times \in Seq(Nat)
  BY DEF Remembers, Orderly
<1>1. PICK d \in 0..Len(times) :
        /\ Len(q) = Len(times) - d
        /\ \A i \in 1..Len(q) : q[i] = times[d + i]
        /\ \A i \in 1..d : now - times[i] >= window
  BY DEF Remembers
<1>2. ASSUME NEW i \in 1..Len(times) PROVE now - times[i] >= window
  <2>1. CASE i <= d
    BY <1>1, <2>1
  <2>2. CASE i > d
    <3>0. Len(q) \in Nat /\ Len(times) \in Nat
      BY <1>0
    <3>1. Len(q) > 0 /\ q # <<>> /\ Len(q) \in Nat /\ Len(times) \in Nat
      <4>1. i <= Len(times) /\ d < i /\ Len(q) = Len(times) - d
        BY <1>1, <2>2
      <4>2. Len(q) > 0
        BY <3>0, <4>1
      <4> QED
        BY <3>0, <4>2
    <3>2. q[Len(q)] = times[Len(times)]
      <4>1. Len(q) \in 1..Len(q) /\ d + Len(q) = Len(times)
        BY <1>1, <3>1
      <4> QED
        BY <1>1, <4>1
    <3>3. times[i] <= times[Len(times)] /\ times[i] \in Nat /\ times[Len(times)] \in Nat
      <4>1. Len(times) \in 1..Len(times) /\ i <= Len(times)
        BY <3>1
      <4>2. times[i] <= times[Len(times)]
        BY <4>1 DEF Orderly
      <4> QED
        <5>1. times[i] \in Nat /\ times[Len(times)] \in Nat
          <6>1. i \in 1..Len(times)
            OBVIOUS
          <6> QED
            BY <1>0, <4>1, <6>1
        <5> QED
          BY <4>2, <5>1
    <3> QED
      BY <3>1, <3>2, <3>3
  <2> QED
    BY <2>1, <2>2
<1>3. Len(times) \in 0..Len(times) /\ Len(<<>>) = Len(times) - Len(times) /\ <<>> \in Seq(Nat)
  BY <1>0
<1> QED
  BY <1>2, <1>3 DEF Remembers

LEMMA CallRemembered ==
  ASSUME now \in Nat, NEW window \in Nat, NEW limit \in Nat, NEW times, Orderly(times, now),
         Requesting!Within(times, window, limit),
         NEW q, Remembers(q, times, window, now), Len(q) < limit
  PROVE  Counted(Append(q, now), Append(times, now), window, limit)
<1>0. q \in Seq(Nat) /\ times \in Seq(Nat) /\ Len(times) \in Nat /\ Len(q) \in Nat
  BY DEF Remembers, Orderly
<1>1. PICK d \in 0..Len(times) :
        /\ Len(q) = Len(times) - d
        /\ \A i \in 1..Len(q) : q[i] = times[d + i]
        /\ \A i \in 1..d : now - times[i] >= window
  BY DEF Remembers
<1>n. PICK n \in Nat : n = Len(times)
  BY <1>0
<1>k. PICK k \in Nat : k = Len(q)
  BY <1>0
<1>d. d \in Nat /\ d + k = n
  BY <1>0, <1>1, <1>n, <1>k
<1>2. PICK all : all = Append(times, now)
  OBVIOUS
<1>3. /\ all \in Seq(Nat) /\ Len(all) = n + 1
      /\ \A i \in 1..n : all[i] = times[i]
      /\ all[n + 1] = now
  BY <1>0, <1>2, <1>n
<1>4. PICK some : some = Append(q, now)
  OBVIOUS
<1>5. /\ some \in Seq(Nat) /\ Len(some) = k + 1
      /\ \A i \in 1..k : some[i] = q[i]
      /\ some[k + 1] = now
  BY <1>0, <1>4, <1>k
<1>6. Orderly(all, now)
  <2>1. ASSUME NEW i \in 1..(n + 1) PROVE all[i] <= now
    <3>1. CASE i = n + 1
      BY <1>3, <3>1
    <3>2. CASE i # n + 1
      <4>1. i \in 1..n /\ i \in 1..Len(times)
        BY <1>n, <3>2
      <4>2. times[i] <= now /\ all[i] = times[i]
        BY <1>3, <4>1 DEF Orderly
      <4> QED
        BY <4>2
    <3> QED
      BY <3>1, <3>2
  <2>2. ASSUME NEW i \in 1..(n + 1), NEW j \in 1..(n + 1), i <= j PROVE all[i] <= all[j]
    <3>1. CASE j = n + 1
      BY <1>3, <2>1, <3>1
    <3>2. CASE j # n + 1
      <4>1. i \in 1..n /\ j \in 1..n
        BY <2>2, <3>2
      <4> QED
        BY <1>3, <1>n, <2>2, <4>1 DEF Orderly
    <3> QED
      BY <3>1, <3>2
  <2> QED
    BY <1>3, <2>1, <2>2 DEF Orderly
<1>7. Remembers(some, all, window, now)
  <2>1. d \in 0..(n + 1) /\ k + 1 = (n + 1) - d
    BY <1>d
  <2>2. ASSUME NEW i \in 1..(k + 1) PROVE some[i] = all[d + i]
    <3>1. CASE i = k + 1
      <4>1. d + i = n + 1
        BY <1>d, <3>1
      <4> QED
        BY <1>3, <1>5, <3>1, <4>1
    <3>2. CASE i # k + 1
      <4>1. i \in 1..k /\ d + i \in 1..n
        BY <1>d, <3>2
      <4> QED
        BY <1>1, <1>3, <1>5, <1>k, <4>1
    <3> QED
      BY <3>1, <3>2
  <2>3. ASSUME NEW i \in 1..d PROVE now - all[i] >= window
    <3>1. i \in 1..n
      BY <1>d
    <3> QED
      BY <1>1, <1>3, <3>1
  <2> QED
    BY <1>3, <1>5, <2>1, <2>2, <2>3 DEF Remembers
<1>8. Requesting!Within(all, window, limit)
  <2>1. ASSUME NEW i \in 1..(n + 1), i > limit PROVE all[i] - all[i - limit] >= window
    <3>0. k < limit
      BY <1>k
    <3>1. CASE i = n + 1
      <4>1. i - limit \in 1..d /\ i - limit \in 1..n
        BY <1>d, <2>1, <3>0, <3>1
      <4> QED
        BY <1>1, <1>3, <3>1, <4>1
    <3>2. CASE i # n + 1
      <4>1. i \in 1..n /\ i - limit \in 1..n
        BY <2>1, <3>0, <3>2
      <4> QED
        BY <1>3, <1>n, <2>1, <4>1 DEF Requesting!Within
    <3> QED
      BY <3>1, <3>2
  <2> QED
    BY <1>3, <2>1 DEF Requesting!Within
<1> QED
  BY <1>2, <1>4, <1>6, <1>7, <1>8 DEF Counted

\* Time passes; nothing is remembered less.
LEMMA CountedLater ==
  ASSUME now \in Nat, NEW q, NEW times, NEW window \in Nat, NEW limit \in Nat,
         Counted(q, times, window, limit)
  PROVE  /\ Orderly(times, now + 1) /\ Remembers(q, times, window, now + 1)
         /\ Requesting!Within(times, window, limit)
<1>1. times \in Seq(Nat) /\ \A i \in 1..Len(times) : times[i] \in Nat
  BY DEF Counted, Orderly
<1>2. Orderly(times, now + 1)
  BY <1>1 DEF Counted, Orderly
<1>3. PICK d \in 0..Len(times) :
        /\ Len(q) = Len(times) - d
        /\ \A i \in 1..Len(q) : q[i] = times[d + i]
        /\ \A i \in 1..d : now - times[i] >= window
  BY DEF Counted, Remembers
<1>4. ASSUME NEW i \in 1..d PROVE (now + 1) - times[i] >= window
  <2>1. i \in 1..Len(times)
    BY <1>1, <1>3
  <2>2. times[i] \in Nat /\ now - times[i] >= window
    BY <1>1, <1>3, <2>1
  <2>3. PICK t \in Nat : t = times[i]
    BY <2>2
  <2> QED
    BY <2>2, <2>3
<1> QED
  BY <1>2, <1>3, <1>4 DEF Counted, Remembers

LEMMA KeptRemembers ==
  ASSUME BudgetConstants, BudgetInv, NEW c \in Clients
  PROVE  /\ Counted(Requesting!Kept(c), made[c], Minute, MinuteLimit)
         /\ Counted(Requesting!Remembered(c), made[c], Minute, MinuteLimit)
<1>1. /\ now \in Nat /\ Minute \in Nat /\ Orderly(made[c], now)
      /\ Remembers(queue[c], made[c], Minute, now)
      /\ Requesting!Within(made[c], Minute, MinuteLimit)
  BY DEF BudgetInv, BudgetConstants, Counted
<1>2. PICK q : q = queue[c]
  OBVIOUS
<1>3. Remembers(Requesting!Kept(c), made[c], Minute, now)
  <2>1. CASE q # <<>> /\ now - q[Len(q)] < Minute
    BY <1>1, <1>2, <2>1 DEF Requesting!Kept
  <2>2. CASE ~(q # <<>> /\ now - q[Len(q)] < Minute)
    <3>1. q \in Seq(Nat) /\ (q # <<>> => q[Len(q)] \in Nat)
      BY <1>1, <1>2 DEF Remembers
    <3>2. q # <<>> => now - q[Len(q)] >= Minute
      BY <1>1, <2>2, <3>1
    <3>3. Remembers(<<>>, made[c], Minute, now)
      BY <1>1, <1>2, <3>2, ForgottenRemembers
    <3> QED
      BY <1>2, <2>2, <3>3 DEF Requesting!Kept
  <2> QED
    BY <2>1, <2>2
<1>4. Remembers(Requesting!Remembered(c), made[c], Minute, now)
  BY <1>1, <1>3, TrimmedRemembers DEF Requesting!Remembered
<1> QED
  BY <1>1, <1>3, <1>4 DEF Counted

LEMMA HourRemembers ==
  ASSUME BudgetConstants, BudgetInv
  PROVE  Counted(Requesting!Trimmed(hourly, Hour), modelled, Hour, HourLimit)
<1>1. /\ now \in Nat /\ Hour \in Nat /\ Orderly(modelled, now)
      /\ Remembers(hourly, modelled, Hour, now)
      /\ Requesting!Within(modelled, Hour, HourLimit)
  BY DEF BudgetInv, BudgetConstants, Counted
<1> QED
  BY <1>1, TrimmedRemembers DEF Counted

LEMMA BudgetSteps ==
  ASSUME BudgetConstants, BudgetInv, Requesting!Budgeting
  PROVE  BudgetInv'
<1>0. /\ now \in Nat /\ taken \in Nat /\ taken = open
      /\ DOMAIN queue = Clients /\ DOMAIN made = Clients
      /\ queue = [c \in Clients |-> queue[c]] /\ made = [c \in Clients |-> made[c]]
      /\ \A c \in Clients : Counted(queue[c], made[c], Minute, MinuteLimit)
      /\ Counted(hourly, modelled, Hour, HourLimit)
      /\ Minute \in Nat /\ Hour \in Nat /\ MinuteLimit \in Nat /\ HourLimit \in Nat
  BY DEF BudgetInv, BudgetConstants
<1>1. CASE Requesting!Tick
  <2>1. now' = now + 1 /\ UNCHANGED <<queue, hourly, taken, open, made, modelled>>
    BY <1>1 DEF Requesting!Tick
  <2>2. \A c \in Clients : Counted(queue[c], made[c], Minute, MinuteLimit)'
    BY <1>0, <2>1, CountedLater DEF Counted, Requesting!Within
  <2>3. Counted(hourly, modelled, Hour, HourLimit)'
    BY <1>0, <2>1, CountedLater DEF Counted, Requesting!Within
  <2> QED
    BY <1>0, <2>1, <2>2, <2>3 DEF BudgetInv
<1>2. ASSUME NEW c \in Clients, Requesting!Consume(c) PROVE BudgetInv'
  <2>1. /\ UNCHANGED now /\ DOMAIN made' = Clients
        /\ queue' = [d \in Clients |->
             IF d = c THEN Append(Requesting!Remembered(d), now) ELSE Requesting!Kept(d)]
        /\ made' = [made EXCEPT ![c] = Append(made[c], now)]
    BY <1>0, <1>2 DEF Requesting!Consume
  <2>2. ASSUME NEW d \in Clients PROVE Counted(queue'[d], made'[d], Minute, MinuteLimit)
    <3>1. CASE d = c
      <4>1. Len(Requesting!Remembered(c)) < MinuteLimit
        BY <1>2 DEF Requesting!Consume, Requesting!Allowed, Requesting!Few
      <4>2. Counted(Requesting!Remembered(c), made[c], Minute, MinuteLimit)
        BY KeptRemembers
      <4>3. Counted(Append(Requesting!Remembered(c), now), Append(made[c], now), Minute, MinuteLimit)
        BY <1>0, <4>1, <4>2, CallRemembered DEF Counted
      <4>4. queue'[c] = Append(Requesting!Remembered(c), now) /\ made'[c] = Append(made[c], now)
        BY <1>0, <2>1
      <4> QED
        BY <3>1, <4>3, <4>4
    <3>2. CASE d # c
      <4>1. queue'[d] = Requesting!Kept(d) /\ made'[d] = made[d]
        BY <1>0, <2>1, <3>2
      <4> QED
        BY <4>1, KeptRemembers
    <3> QED
      BY <3>1, <3>2
  <2>3. Counted(hourly', modelled', Hour, HourLimit) /\ taken' \in Nat /\ taken' = open'
    <3>1. CASE c \in Askers
      <4>1. Len(Requesting!Trimmed(hourly, Hour)) < HourLimit
        BY <1>2, <3>1 DEF Requesting!Consume, Requesting!Allowed
      <4>2. Counted(Requesting!Trimmed(hourly, Hour), modelled, Hour, HourLimit)
        BY HourRemembers
      <4>3. Counted(Append(Requesting!Trimmed(hourly, Hour), now), Append(modelled, now), Hour, HourLimit)
        BY <1>0, <4>1, <4>2, CallRemembered DEF Counted
      <4>4. /\ hourly' = Append(Requesting!Trimmed(hourly, Hour), now)
            /\ modelled' = Append(modelled, now)
        BY <1>2, <3>1 DEF Requesting!Consume
      <4>5. taken' = taken + 1 /\ open' = open + 1
        BY <1>2, <3>1 DEF Requesting!Consume
      <4>6. taken' \in Nat /\ taken' = open'
        BY <1>0, <4>5
      <4> QED
        BY <4>3, <4>4, <4>6
    <3>2. CASE c \notin Askers
      BY <1>0, <1>2, <3>2, HourRemembers DEF Requesting!Consume
    <3> QED
      BY <3>1, <3>2
  <2> QED
    BY <1>0, <2>1, <2>2, <2>3 DEF BudgetInv, Counted, Requesting!Within
<1>3. ASSUME NEW c \in Clients, Requesting!Refuse(c) PROVE BudgetInv'
  <2>1. /\ UNCHANGED <<now, taken, open, made, modelled>>
        /\ queue' = [d \in Clients |->
             IF d = c THEN Requesting!Remembered(d) ELSE Requesting!Kept(d)]
        /\ hourly' = IF Requesting!Few(c) THEN Requesting!Trimmed(hourly, Hour) ELSE hourly
    BY <1>3 DEF Requesting!Refuse
  <2>2. \A d \in Clients : Counted(queue'[d], made[d], Minute, MinuteLimit)
    BY <2>1, KeptRemembers
  <2>3. Counted(hourly', modelled, Hour, HourLimit)
    BY <1>0, <2>1, HourRemembers
  <2> QED
    BY <1>0, <2>1, <2>2, <2>3 DEF BudgetInv, Counted, Requesting!Within
<1>4. CASE Requesting!GiveBack
  <2>1. taken' \in Nat /\ taken' = open' /\ UNCHANGED <<now, queue, hourly, made, modelled>>
    BY <1>0, <1>4 DEF Requesting!GiveBack
  <2> QED
    BY <1>0, <2>1 DEF BudgetInv, Counted, Requesting!Within
<1> QED
  BY <1>1, <1>2, <1>3, <1>4 DEF Requesting!Budgeting

LEMMA BudgetStarts ==
  ASSUME BudgetConstants, Requesting!BudgetInit
  PROVE  BudgetInv
<1>1. Counted(<<>>, <<>>, Minute, MinuteLimit) /\ Counted(<<>>, <<>>, Hour, HourLimit)
  BY DEF Counted, Orderly, Remembers, Requesting!Within
<1> QED
  BY <1>1 DEF Requesting!BudgetInit, BudgetInv

LimitsInv ==
  /\ focus = "budget" => BudgetInv
  /\ focus = "chat" => ChatInv

LEMMA LimitsSteps ==
  ASSUME BudgetConstants, ChatConstants, LimitsInv, [Next]_everything
  PROVE  LimitsInv'
<1>1. CASE AbuseStep
  BY <1>1, BudgetSteps DEF AbuseStep, LimitsInv
<1>2. CASE ChattingStep
  BY <1>2, ChatSteps DEF ChattingStep, LimitsInv
<1>3. CASE PrivateStep \/ TightStep \/ ReferenceStep \/ IndexStep \/ FolderStep \/ PageStep
             \/ SearchStep
  BY <1>3 DEF PrivateStep, TightStep, ReferenceStep, IndexStep, FolderStep, PageStep, SearchStep,
     LimitsInv
<1>4. CASE UNCHANGED everything
  <2>1. UNCHANGED <<focus, version, chat, active, now, queue, hourly, taken, open, made, modelled>>
    BY <1>4 DEF everything, chatting, abuse
  <2>2. BudgetInv => BudgetInv'
    BY <2>1 DEF BudgetInv, Counted, Requesting!Within
  <2>3. ChatInv => ChatInv'
    BY <2>1 DEF ChatInv, Requesting!SlotsAreCalls, Requesting!CallsUnderWay, Requesting!Calling,
       Requesting!At
  <2> QED
    BY <2>1, <2>2, <2>3 DEF LimitsInv
<1> QED
  BY <1>1, <1>2, <1>3, <1>4 DEF Next

(* For any number of clients and calls and any limits and windows: no       *)
(* window holds more calls than its limit wherever it begins, though calls  *)
(* are trimmed and clients forgotten in between, and the slots taken are    *)
(* the calls under way (core/security.py, and the requests of core/app.py). *)
THEOREM LimitsAlwaysHold ==
  ASSUME BudgetConstants, ChatConstants PROVE Spec => []LimitsHold
<1>1. Init => LimitsInv
  BY BudgetStarts, ChatStarts DEF Init, LimitsInv
<1>2. LimitsInv => LimitsHold
  BY ChatFollows DEF LimitsInv, LimitsHold, BudgetInv, Counted, Requesting!LimitsHold
<1> QED
  BY <1>1, <1>2, LimitsSteps, PTL DEF Spec, everything
-----------------------------------------------------------------------------
(* The task of the page.                                                    *)
Results == Params \cup {None}
Approval == [input : Int, seen : Results]
TaskRow == [params : Params, input : Int, request : Int,
            status : {"draft", "running", "failed", "needs_review", "approved", "exported"},
            result : Results, approval : Approval \cup {None}]
Doing == [op : {"run", "confirm", "export"}, at : {"begun", "executed", "ticket"},
          request : Int, input : Int, params : Params, result : Results, seen : Results]

\* Of the constants: None is no approval and no click.
TaskConstants == None \notin Approval \cup Doing

\* A result that may be confirmed is that of the input, a confirmation is of it.
TaskStands(t) ==
  /\ t.status \in {"approved", "exported"} <=> t.approval # None
  /\ t.status \in {"needs_review", "approved", "exported"} =>
       t.result = t.params /\ t.params \notin Faulty
  /\ t.approval # None => t.approval.seen = t.result

\* A click of the request of the task is the run of it, or came after the run.
ClickStands(row, t) ==
  /\ row.request <= t.request
  /\ row.request = t.request /\ row.op = "run" => t.status = "running" /\ row.params = t.params
  /\ row.request = t.request /\ row.op = "confirm" =>
       /\ t.status \in {"needs_review", "approved", "exported"}
       /\ row.result = t.result
  /\ row.op = "run" /\ row.at = "executed" => row.result = row.params /\ row.params \notin Faulty
  /\ row.op = "export" => row.seen = row.result

RunsDiffer(marks) ==
  \A c, d \in Clicks :
    (marks[c] # None /\ marks[d] # None /\ c # d /\ marks[c].op = "run" /\ marks[d].op = "run")
      => marks[c].request # marks[d].request

TaskInv ==
  /\ task \in TaskRow /\ TaskStands(task)
  /\ kept \in TaskRow /\ TaskStands(kept)
  /\ clicked \in [Clicks -> Doing \cup {None}]
  /\ \A c \in Clicks : clicked[c] # None => ClickStands(clicked[c], task)
  /\ RunsDiffer(clicked)
  /\ \A f \in handed : f.result = f.params /\ f.seen = f.result

\* The task goes on under the same request: no other click is disturbed.
LEMMA TaskGoesOn ==
  ASSUME TaskConstants, TaskInv, NEW c \in Clicks, NEW next \in TaskRow, task' = next,
         TaskStands(next), next.request = task.request,
         kept' \in {kept, task'},
         NEW row \in Doing \cup {None}, clicked' = [clicked EXCEPT ![c] = row],
         row # None => /\ clicked[c] # None
                       /\ row.op = clicked[c].op /\ row.request = clicked[c].request
                       /\ ClickStands(row, next),
         \A d \in Clicks : (d # c /\ clicked[d] # None) => ClickStands(clicked[d], next),
         \A f \in handed' : f.result = f.params /\ f.seen = f.result
  PROVE  TaskInv'
<1> USE DEF TaskInv
<1>1. \A d \in Clicks : clicked'[d] = IF d = c THEN row ELSE clicked[d]
  OBVIOUS
<1>2. \A d \in Clicks : clicked'[d] # None => ClickStands(clicked'[d], next)
  BY <1>1
<1>3. RunsDiffer(clicked')
  BY <1>1 DEF RunsDiffer
<1>4. clicked' \in [Clicks -> Doing \cup {None}]
  OBVIOUS
<1>5. kept' \in TaskRow /\ TaskStands(kept')
  OBVIOUS
<1> QED
  BY <1>2, <1>3, <1>4, <1>5

\* The task takes another request: what is under way is of an earlier one.
LEMMA TaskAnew ==
  ASSUME TaskConstants, TaskInv, NEW next \in TaskRow, task' = next, TaskStands(next),
         next.request = task.request + 1, UNCHANGED <<clicked, handed>>,
         kept' \in {kept, task'}
  PROVE  TaskInv'
<1> USE DEF TaskInv
<1>1. \A d \in Clicks : clicked[d] # None => clicked[d] \in Doing /\ ClickStands(clicked[d], task)
  OBVIOUS
<1>2. ASSUME NEW d \in Clicks, clicked[d] # None PROVE ClickStands(clicked[d], next)
  <2>1. /\ clicked[d].request \in Int /\ task.request \in Int
        /\ clicked[d].request <= task.request
    BY <1>1, <1>2 DEF ClickStands, Doing, TaskRow
  <2>2. clicked[d].request <= next.request /\ clicked[d].request # next.request
    BY <2>1
  <2> QED
    BY <1>1, <1>2, <2>2 DEF ClickStands
<1>3. kept' \in TaskRow /\ TaskStands(kept')
  OBVIOUS
<1> QED
  BY <1>2, <1>3 DEF RunsDiffer

LEMMA TaskEdits ==
  ASSUME TaskConstants, TaskInv, (\E p \in Params : Page!Edit(p)) \/ Page!Type \/ Page!Reload
  PROVE  TaskInv'
<1> USE DEF TaskInv
<1>1. ASSUME NEW p \in Params, Page!Edit(p) PROVE TaskInv'
  <2>1. PICK next : next = [Page!NoTask(p) EXCEPT !.input = task.input + 1, !.request = task.request + 1]
    OBVIOUS
  <2>2. /\ next \in TaskRow /\ next.status = "draft" /\ next.approval = None
        /\ next.request = task.request + 1
    <3>1. task.input + 1 \in Int /\ task.request + 1 \in Int
      BY DEF TaskRow
    <3>2. next = [params |-> p, input |-> task.input + 1, request |-> task.request + 1,
                  status |-> "draft", result |-> None, approval |-> None]
      BY <2>1 DEF Page!NoTask
    <3> QED
      BY <3>1, <3>2 DEF TaskRow, Results
  <2>3. TaskStands(next)
    BY <2>2 DEF TaskStands
  <2>4. task' = next /\ UNCHANGED <<clicked, handed>> /\ kept' \in {kept, task'}
    BY <1>1, <2>1 DEF Page!Edit, Page!Saved
  <2> QED
    BY <2>2, <2>3, <2>4, TaskAnew
<1>2. CASE Page!Type
  <2>1. PICK next : next = [task EXCEPT !.request = task.request + 1, !.status = "draft",
                                        !.result = None, !.approval = None]
    OBVIOUS
  <2>2. /\ next \in TaskRow /\ next.status = "draft" /\ next.approval = None
        /\ next.request = task.request + 1
    <3>1. task.params \in Params /\ task.input \in Int /\ task.request + 1 \in Int
      BY DEF TaskRow
    <3>2. next = [params |-> task.params, input |-> task.input, request |-> task.request + 1,
                  status |-> "draft", result |-> None, approval |-> None]
      BY <2>1 DEF TaskRow
    <3> QED
      BY <3>1, <3>2 DEF TaskRow, Results
  <2>3. TaskStands(next)
    BY <2>2 DEF TaskStands
  <2>4. task' = next /\ UNCHANGED <<clicked, handed>> /\ kept' \in {kept, task'}
    BY <1>2, <2>1 DEF Page!Type
  <2> QED
    BY <2>2, <2>3, <2>4, TaskAnew
<1>3. CASE Page!Reload
  <2>1. PICK next : next = [kept EXCEPT !.status = "failed", !.request = kept.request + 1]
    OBVIOUS
  <2>2. /\ next \in TaskRow /\ next.status = "failed" /\ next.approval = kept.approval
        /\ next.result = kept.result /\ next.params = kept.params
    <3>1. /\ kept.params \in Params /\ kept.input \in Int /\ kept.request + 1 \in Int
          /\ kept.result \in Results /\ kept.approval \in Approval \cup {None}
      BY DEF TaskRow
    <3>2. next = [params |-> kept.params, input |-> kept.input, request |-> kept.request + 1,
                  status |-> "failed", result |-> kept.result, approval |-> kept.approval]
      BY <2>1 DEF TaskRow
    <3> QED
      BY <3>1, <3>2 DEF TaskRow
  <2>3. kept.status = "running" => TaskStands(next)
    BY <2>2 DEF TaskStands
  <2>4. /\ task' = IF kept.status = "running" THEN next ELSE kept
        /\ clicked' = [c \in Clicks |-> None] /\ UNCHANGED <<kept, handed>>
    BY <1>3, <2>1 DEF Page!Reload
  <2> QED
    BY <2>2, <2>3, <2>4 DEF RunsDiffer
<1> QED
  BY <1>1, <1>2, <1>3

LEMMA RunSteps ==
  ASSUME TaskConstants, TaskInv, NEW c \in Clicks, Page!Run(c) \/ Page!Execute(c) \/ Page!Finish(c)
  PROVE  TaskInv'
<1> USE DEF TaskInv
<1>0. clicked[c] # None => clicked[c] \in Doing /\ ClickStands(clicked[c], task)
  OBVIOUS
<1>1. CASE Page!Run(c)
  <2>1. PICK next : next = [task EXCEPT !.request = task.request + 1, !.status = "running",
                                        !.approval = None, !.result = None]
    OBVIOUS
  <2>2. /\ next \in TaskRow /\ next.status = "running" /\ next.approval = None
        /\ next.request = task.request + 1 /\ next.params = task.params
        /\ task.request \in Int
    <3>1. /\ task.params \in Params /\ task.input \in Int
          /\ task.request \in Int /\ task.request + 1 \in Int
      BY DEF TaskRow
    <3>2. next = [params |-> task.params, input |-> task.input, request |-> task.request + 1,
                  status |-> "running", result |-> None, approval |-> None]
      BY <2>1 DEF TaskRow
    <3> QED
      BY <3>1, <3>2 DEF TaskRow, Results
  <2>3. TaskStands(next) /\ task' = next /\ clicked[c] = None /\ UNCHANGED <<kept, handed>>
    BY <1>1, <2>1, <2>2 DEF TaskStands, Page!Run
  <2>4. PICK row : row = [op |-> "run", at |-> "begun", request |-> next.request,
                          input |-> task.input, params |-> task.params, result |-> None, seen |-> None]
    OBVIOUS
  <2>5. row \in Doing /\ ClickStands(row, next) /\ row.request = next.request
    BY <2>2, <2>4 DEF Doing, TaskRow, Results, ClickStands
  <2>6. clicked' = [clicked EXCEPT ![c] = row]
    <3>1. clicked' = [clicked EXCEPT ![c] = [Page!Begun("run") EXCEPT !.request = task'.request,
                                                                      !.result = None]]
      BY <1>1 DEF Page!Run
    <3>2. [Page!Begun("run") EXCEPT !.request = next.request, !.result = None] = row
      <4>1. PICK begun : begun = [op |-> "run", at |-> "begun", request |-> task.request,
                                  input |-> task.input, params |-> task.params,
                                  result |-> task.result, seen |-> None]
        OBVIOUS
      <4>2. PICK later : later = [begun EXCEPT !.request = next.request]
        OBVIOUS
      <4>3. later = [op |-> "run", at |-> "begun", request |-> next.request,
                     input |-> task.input, params |-> task.params,
                     result |-> task.result, seen |-> None]
        BY <4>1, <4>2
      <4>4. [later EXCEPT !.result = None] = row
        BY <2>4, <4>3
      <4>5. Page!Begun("run") = begun
        BY <4>1 DEF Page!Begun
      <4> QED
        BY <4>2, <4>4, <4>5
    <3> QED
      BY <2>3, <3>1, <3>2
  <2>7. ASSUME NEW d \in Clicks, clicked[d] # None
        PROVE  ClickStands(clicked[d], next) /\ clicked[d].request < next.request
    <3>1. /\ clicked[d].request \in Int /\ clicked[d].request <= task.request
          /\ clicked[d] \in Doing /\ ClickStands(clicked[d], task)
      BY <2>7 DEF ClickStands, Doing
    <3>2. clicked[d].request < next.request
      BY <2>2, <3>1
    <3>3. clicked[d].request <= next.request /\ clicked[d].request # next.request
      BY <2>2, <3>1, <3>2
    <3> QED
      BY <3>1, <3>2, <3>3 DEF ClickStands
  <2>8. \A d \in Clicks : clicked'[d] = IF d = c THEN row ELSE clicked[d]
    BY <2>6
  <2>9. RunsDiffer(clicked')
    <3>1. \A d \in Clicks : clicked[d] # None => clicked[d].request # row.request
      BY <2>2, <2>5, <2>7, TaskConstants DEF Doing
    <3> QED
      BY <2>3, <2>8, <3>1 DEF RunsDiffer
  <2> QED
    BY <2>2, <2>3, <2>5, <2>6, <2>7, <2>8, <2>9
<1>2. CASE Page!Execute(c)
  <2>0. /\ clicked[c] # None /\ clicked[c].op = "run" /\ clicked[c] \in Doing
        /\ ClickStands(clicked[c], task)
    BY <1>0, <1>2 DEF Page!Execute
  <2>1. CASE Page!Current(c) /\ clicked[c].params \notin Faulty
    <3>1. PICK row : row = [clicked[c] EXCEPT !.at = "executed", !.result = clicked[c].params]
      OBVIOUS
    <3>2. /\ row \in Doing /\ row.op = clicked[c].op /\ row.request = clicked[c].request
          /\ row.params = clicked[c].params /\ row.result = clicked[c].params
      BY <2>0, <3>1 DEF Doing, Results
    <3>3. ClickStands(row, task)
      BY <2>0, <2>1, <3>2 DEF ClickStands
    <3>4. clicked' = [clicked EXCEPT ![c] = row] /\ UNCHANGED <<task, kept, handed>>
      BY <1>2, <2>0, <2>1, <3>1 DEF Page!Execute
    <3> QED
      BY <2>0, <3>2, <3>3, <3>4, TaskGoesOn
  <2>2. CASE ~(Page!Current(c) /\ clicked[c].params \notin Faulty)
    <3>1. PICK next : next = IF Page!Current(c) THEN [task EXCEPT !.status = "failed"] ELSE task
      OBVIOUS
    <3>2. /\ next \in TaskRow /\ next.request = task.request /\ next.approval = task.approval
          /\ next.result = task.result /\ next.params = task.params
          /\ next.status = IF Page!Current(c) THEN "failed" ELSE task.status
      BY <3>1 DEF TaskRow
    <3>3. Page!Current(c) => task.status = "running" /\ clicked[c].request = task.request
      BY <2>0 DEF ClickStands, Page!Current, Page!Same
    <3>4. TaskStands(next)
      BY <3>1, <3>2, <3>3 DEF TaskStands
    <3>5. task' = next /\ UNCHANGED handed /\ kept' \in {kept, task'}
          /\ clicked' = [clicked EXCEPT ![c] = None]
      BY <1>2, <2>2, <3>1 DEF Page!Execute, Page!Ends, Page!Saved
    <3>6. ASSUME NEW d \in Clicks, d # c, clicked[d] # None PROVE ClickStands(clicked[d], next)
      <4>1. Page!Current(c) =>
              ~(clicked[d].request = task.request /\ clicked[d].op \in {"run", "confirm"})
        BY <2>0, <3>3, <3>6 DEF RunsDiffer, ClickStands
      <4> QED
        BY <3>1, <3>2, <3>6, <4>1 DEF ClickStands
    <3> QED
      BY <3>2, <3>4, <3>5, <3>6, TaskGoesOn
  <2> QED
    BY <2>1, <2>2
<1>3. CASE Page!Finish(c)
  <2>0. /\ clicked[c] # None /\ clicked[c].op = "run" /\ clicked[c].at = "executed"
        /\ clicked[c] \in Doing /\ ClickStands(clicked[c], task)
    BY <1>0, <1>3 DEF Page!Finish
  <2>1. PICK next : next = IF Page!Current(c)
                           THEN [task EXCEPT !.result = clicked[c].result, !.status = "needs_review"]
                           ELSE task
    OBVIOUS
  <2>2. /\ next \in TaskRow /\ next.request = task.request /\ next.approval = task.approval
        /\ next.params = task.params
        /\ next.result = IF Page!Current(c) THEN clicked[c].result ELSE task.result
        /\ next.status = IF Page!Current(c) THEN "needs_review" ELSE task.status
    BY <2>0, <2>1 DEF TaskRow, Doing
  <2>3. Page!Current(c) => /\ task.status = "running" /\ clicked[c].request = task.request
                           /\ clicked[c].result = task.params /\ task.params \notin Faulty
    BY <2>0 DEF ClickStands, Page!Current, Page!Same
  <2>4. TaskStands(next)
    BY <2>1, <2>2, <2>3 DEF TaskStands
  <2>5. task' = next /\ UNCHANGED handed /\ kept' \in {kept, task'}
        /\ clicked' = [clicked EXCEPT ![c] = None]
    BY <1>3, <2>1 DEF Page!Finish, Page!Ends, Page!Saved
  <2>6. ASSUME NEW d \in Clicks, d # c, clicked[d] # None PROVE ClickStands(clicked[d], next)
    <3>1. Page!Current(c) =>
            ~(clicked[d].request = task.request /\ clicked[d].op \in {"run", "confirm"})
      BY <2>0, <2>3, <2>6 DEF RunsDiffer, ClickStands
    <3> QED
      BY <2>1, <2>2, <2>6, <3>1 DEF ClickStands
  <2> QED
    BY <2>2, <2>4, <2>5, <2>6, TaskGoesOn
<1> QED
  BY <1>1, <1>2, <1>3

\* A click begins; it is no run.
LEMMA ClickBegins ==
  ASSUME TaskConstants, TaskInv, NEW c \in Clicks, NEW op \in {"confirm", "export"},
         NEW row \in Doing, row.op = op, ClickStands(row, task),
         clicked' = [clicked EXCEPT ![c] = row], UNCHANGED <<task, kept, handed>>
  PROVE  TaskInv'
<1> USE DEF TaskInv
<1>1. \A d \in Clicks : clicked'[d] = IF d = c THEN row ELSE clicked[d]
  OBVIOUS
<1> QED
  BY <1>1 DEF RunsDiffer

LEMMA ConfirmSteps ==
  ASSUME TaskConstants, TaskInv, NEW c \in Clicks, Page!Confirm(c) \/ Page!Approve(c)
  PROVE  TaskInv'
<1> USE DEF TaskInv
<1>0. clicked[c] # None => clicked[c] \in Doing /\ ClickStands(clicked[c], task)
  OBVIOUS
<1>1. CASE Page!Confirm(c)
  <2>1. PICK row : row = [op |-> "confirm", at |-> "begun", request |-> task.request,
                          input |-> task.input, params |-> task.params,
                          result |-> task.result, seen |-> None]
    OBVIOUS
  <2>2. row \in Doing /\ row.op = "confirm"
    BY <2>1 DEF Doing, TaskRow, Results
  <2>3. ClickStands(row, task)
    BY <1>1, <2>1 DEF ClickStands, TaskRow, Page!Confirm
  <2>4. clicked' = [clicked EXCEPT ![c] = row] /\ UNCHANGED <<task, kept, handed>>
    BY <1>1, <2>1 DEF Page!Confirm, Page!Begun
  <2> QED
    BY <2>2, <2>3, <2>4, ClickBegins
<1>2. CASE Page!Approve(c)
  <2>0. /\ clicked[c] # None /\ clicked[c].op = "confirm" /\ clicked[c] \in Doing
        /\ ClickStands(clicked[c], task)
    BY <1>0, <1>2 DEF Page!Approve
  <2>1. PICK next : next = IF Page!Same(c)
                           THEN [task EXCEPT !.status = "approved",
                                   !.approval = [input |-> task.input, seen |-> clicked[c].result]]
                           ELSE task
    OBVIOUS
  <2>2. Page!Same(c) => /\ task.status \in {"needs_review", "approved", "exported"}
                        /\ clicked[c].request = task.request /\ clicked[c].result = task.result
    BY <2>0 DEF ClickStands, Page!Same
  <2>3. [input |-> task.input, seen |-> clicked[c].result] \in Approval
    BY <2>0 DEF Approval, Doing, TaskRow
  <2>4. /\ next \in TaskRow /\ next.request = task.request /\ next.params = task.params
        /\ next.result = task.result
        /\ next.status = IF Page!Same(c) THEN "approved" ELSE task.status
        /\ Page!Same(c) => next.approval # None /\ next.approval.seen = task.result
    BY <2>1, <2>2, <2>3 DEF TaskRow, TaskConstants
  <2>5. TaskStands(next)
    BY <2>1, <2>2, <2>4 DEF TaskStands
  <2>6. task' = next /\ UNCHANGED handed /\ kept' \in {kept, task'}
        /\ clicked' = [clicked EXCEPT ![c] = None]
    BY <1>2, <2>1 DEF Page!Approve, Page!Ends, Page!Saved
  <2>7. ASSUME NEW d \in Clicks, d # c, clicked[d] # None PROVE ClickStands(clicked[d], next)
    BY <2>1, <2>2, <2>4, <2>7 DEF ClickStands
  <2> QED
    BY <2>4, <2>5, <2>6, <2>7, TaskGoesOn
<1> QED
  BY <1>1, <1>2

LEMMA ExportSteps ==
  ASSUME TaskConstants, TaskInv, NEW c \in Clicks,
         Page!Export(c) \/ Page!Ticket(c) \/ Page!HandOut(c)
  PROVE  TaskInv'
<1> USE DEF TaskInv
<1>0. clicked[c] # None => clicked[c] \in Doing /\ ClickStands(clicked[c], task)
  OBVIOUS
<1>1. CASE Page!Export(c)
  <2>0. task.approval # None /\ task.approval.seen = task.result /\ task.result \in Results
    BY <1>1 DEF Page!Export, Page!Prepared, TaskStands, TaskRow
  <2>1. PICK row : row = [op |-> "export", at |-> "begun", request |-> task.request,
                          input |-> task.input, params |-> task.params,
                          result |-> task.result, seen |-> task.approval.seen]
    OBVIOUS
  <2>2. row \in Doing /\ row.op = "export"
    BY <2>0, <2>1 DEF Doing, TaskRow
  <2>3. ClickStands(row, task)
    BY <2>0, <2>1 DEF ClickStands, TaskRow
  <2>4. clicked' = [clicked EXCEPT ![c] = row] /\ UNCHANGED <<task, kept, handed>>
    <3>1. /\ clicked' = [clicked EXCEPT ![c] = [Page!Begun("export") EXCEPT
                                                    !.seen = task.approval.seen]]
          /\ UNCHANGED <<task, kept, handed>>
      BY <1>1 DEF Page!Export
    <3>2. [Page!Begun("export") EXCEPT !.seen = task.approval.seen] = row
      BY <2>1 DEF Page!Begun
    <3> QED
      BY <3>1, <3>2
  <2> QED
    BY <2>2, <2>3, <2>4, ClickBegins
<1>2. CASE Page!Ticket(c)
  <2>0. /\ clicked[c] # None /\ clicked[c].op = "export" /\ clicked[c] \in Doing
        /\ ClickStands(clicked[c], task)
    BY <1>0, <1>2 DEF Page!Ticket
  <2>1. PICK row : row = [clicked[c] EXCEPT !.at = "ticket"]
    OBVIOUS
  <2>2. /\ row \in Doing /\ row.op = clicked[c].op /\ row.request = clicked[c].request
        /\ row.seen = clicked[c].seen /\ row.result = clicked[c].result
    BY <2>0, <2>1 DEF Doing
  <2>3. ClickStands(row, task)
    BY <2>0, <2>2 DEF ClickStands
  <2>4. /\ clicked' = [clicked EXCEPT ![c] = row] \/ clicked' = [clicked EXCEPT ![c] = None]
        /\ UNCHANGED <<task, kept, handed>>
    BY <1>2, <2>1 DEF Page!Ticket, Page!Goes, Page!Ends
  <2> QED
    BY <2>0, <2>2, <2>3, <2>4, TaskGoesOn
<1>3. CASE Page!HandOut(c)
  <2>0. /\ clicked[c] # None /\ clicked[c].op = "export" /\ clicked[c] \in Doing
        /\ clicked[c].seen = clicked[c].result
        /\ clicked' = [clicked EXCEPT ![c] = None]
    BY <1>0, <1>3 DEF Page!HandOut, ClickStands, Page!Ends
  <2>1. CASE Page!Honoured(c)
    <3>1. /\ task.approval # None /\ task.status \in {"approved", "exported"}
          /\ task.result = task.params /\ task.result = clicked[c].result
      BY <2>1 DEF Page!Honoured, TaskStands
    <3>2. PICK next : next = [task EXCEPT !.status = "exported"]
      OBVIOUS
    <3>3. /\ next \in TaskRow /\ next.request = task.request /\ next.params = task.params
          /\ next.result = task.result /\ next.status = "exported" /\ next.approval = task.approval
      BY <3>2 DEF TaskRow
    <3>4. TaskStands(next)
      BY <3>1, <3>3 DEF TaskStands
    <3>5. /\ task' = next /\ kept' \in {kept, task'}
          /\ handed' = handed \cup {[result |-> clicked[c].result, params |-> task.params,
                                     seen |-> clicked[c].seen]}
      BY <1>3, <2>1, <3>2 DEF Page!HandOut, Page!Saved
    <3>6. \A f \in handed' : f.result = f.params /\ f.seen = f.result
      <4>1. PICK file : file = [result |-> clicked[c].result, params |-> task.params,
                                seen |-> clicked[c].seen]
        OBVIOUS
      <4>2. file.result = file.params /\ file.seen = file.result
        BY <2>0, <3>1, <4>1
      <4> QED
        BY <3>5, <4>1, <4>2
    <3>7. ASSUME NEW d \in Clicks, d # c, clicked[d] # None PROVE ClickStands(clicked[d], next)
      BY <3>1, <3>3, <3>7 DEF ClickStands
    <3> QED
      BY <2>0, <3>3, <3>4, <3>5, <3>6, <3>7, TaskGoesOn
  <2>2. CASE ~Page!Honoured(c)
    <3>1. UNCHANGED <<handed, task, kept>>
      BY <1>3, <2>2 DEF Page!HandOut
    <3> QED
      BY <2>0, <3>1, TaskGoesOn
  <2> QED
    BY <2>1, <2>2
<1> QED
  BY <1>1, <1>2, <1>3

LEMMA TaskSteps == ASSUME TaskConstants, TaskInv, Page!Tasks PROVE TaskInv'
BY TaskEdits, RunSteps, ConfirmSteps, ExportSteps DEF Page!Tasks
-----------------------------------------------------------------------------
(* The policy of the page.                                                  *)
Versions == Policies \cup {"base", None}
Prints == [corpus : {"old", "new"}, cases : Int, baseline : Versions]
Candidate ==
  [status : {"pending", "ready_for_review", "failed", "active", "replaced", "rolled_back"},
   base : Versions, prints : Prints \cup {None}, previous : Versions]
Judgement == [op : {"propose", "revalidate", "publish"}, c : Policies,
         at : {"judged", "confirmed", "sampled", "compared"}, rows : {"old", "new"}, traces : Int,
         passed : BOOLEAN, cases : Int, expected : Prints \cup {None}]

\* Of the constants: None is no version, and no candidate is the base.
PolicyConstants == None \notin Candidate \cup Judgement \cup Policies \cup {"base"} /\ "base" \notin Policies

\* What is judged, in force or replaced is a candidate or the base.
Known(v) == v \in Policies => policy[v] # None

CandidateStands(c, row) ==
  /\ row.status = "active" => inforce = c
  /\ row.previous # None => row.previous = row.base
  /\ row.base # c

PolicyInv ==
  /\ inforce \in Versions /\ Known(inforce)
  /\ policy \in [Policies -> Candidate \cup {None}]
  /\ \A c \in Policies : policy[c] # None =>
       CandidateStands(c, policy[c]) /\ Known(policy[c].previous)
  /\ judging \in [Clicks -> Judgement \cup {None}]
  /\ \A k \in Clicks : judging[k] # None => Known(judging[k].c)
  /\ corpus \in {"old", "new"} /\ asked \in Int

\* A click goes on; candidates do not go away.
LEMMA JudgingGoesOn ==
  ASSUME PolicyConstants, PolicyInv, NEW k \in Clicks, NEW row \in Judgement \cup {None},
         judging' = [judging EXCEPT ![k] = row], row # None => policy'[row.c] # None,
         UNCHANGED <<corpus, asked>>,
         inforce' \in Versions, Known(inforce)',
         policy' \in [Policies -> Candidate \cup {None}],
         \A c \in Policies : policy[c] # None => policy'[c] # None,
         \A c \in Policies : policy'[c] # None =>
           /\ policy'[c].status = "active" => inforce' = c
           /\ policy'[c].previous # None => policy'[c].previous = policy'[c].base
           /\ policy'[c].base # c
           /\ policy'[c].previous \in Policies => policy'[policy'[c].previous] # None
  PROVE  PolicyInv'
<1> USE DEF PolicyInv
<1>1. \A j \in Clicks : judging'[j] = IF j = k THEN row ELSE judging[j]
  OBVIOUS
<1>2. ASSUME NEW j \in Clicks, judging'[j] # None
      PROVE  judging'[j].c \in Policies => policy'[judging'[j].c] # None
  BY <1>1, <1>2 DEF Known
<1>3. judging' \in [Clicks -> Judgement \cup {None}]
  OBVIOUS
<1> QED
  BY <1>2, <1>3 DEF Known, CandidateStands

\* The candidate of a click changes.
LEMMA CandidateChanges ==
  ASSUME PolicyConstants, PolicyInv, NEW c \in Policies, NEW next \in Candidate,
         policy' = [policy EXCEPT ![c] = next], UNCHANGED inforce,
         CandidateStands(c, next), next.previous \in Policies => policy'[next.previous] # None
  PROVE  /\ policy' \in [Policies -> Candidate \cup {None}]
         /\ \A q \in Policies : policy[q] # None => policy'[q] # None
         /\ inforce' \in Versions /\ Known(inforce)'
         /\ \A q \in Policies : policy'[q] # None =>
              /\ policy'[q].status = "active" => inforce' = q
              /\ policy'[q].previous # None => policy'[q].previous = policy'[q].base
              /\ policy'[q].base # q
              /\ policy'[q].previous \in Policies => policy'[policy'[q].previous] # None
<1> USE DEF PolicyInv
<1>1. \A q \in Policies : policy'[q] = IF q = c THEN next ELSE policy[q]
  OBVIOUS
<1>2. next # None
  BY DEF PolicyConstants
<1>3. \A q \in Policies : policy[q] # None => policy'[q] # None
  BY <1>1, <1>2
<1>4. policy' \in [Policies -> Candidate \cup {None}]
  OBVIOUS
<1>5. inforce' \in Versions /\ Known(inforce)'
  BY <1>3 DEF Known
<1>6. ASSUME NEW q \in Policies, policy'[q] # None
      PROVE  /\ policy'[q].status = "active" => inforce' = q
             /\ policy'[q].previous # None => policy'[q].previous = policy'[q].base
             /\ policy'[q].base # q
             /\ policy'[q].previous \in Policies => policy'[policy'[q].previous] # None
  <2>1. CASE q = c
    BY <1>1, <2>1 DEF CandidateStands
  <2>2. CASE q # c
    BY <1>1, <1>3, <1>6, <2>2 DEF CandidateStands, Known
  <2> QED
    BY <2>1, <2>2
<1> QED
  BY <1>3, <1>4, <1>5, <1>6

LEMMA ReplaySteps ==
  ASSUME PolicyConstants, PolicyInv, NEW k \in Clicks, NEW c \in Policies,
         Page!Propose(k, c) \/ Page!Revalidate(k, c) \/ Page!Publish(k, c)
  PROVE  PolicyInv'
<1> USE DEF PolicyInv
<1>0. ASSUME NEW op \in {"propose", "revalidate", "publish"}, NEW at \in {"judged", "confirmed"}
      PROVE  \E row \in Judgement : row.c = c /\ row = [Page!Replay(c, op) EXCEPT !.at = at]
  <2>1. PICK row : row = [op |-> op, c |-> c, at |-> at, rows |-> corpus, traces |-> asked,
                          passed |-> (<<c, corpus>> \in Policies \X {"old", "new"}),
                          cases |-> asked, expected |-> None]
    OBVIOUS
  <2>2. row \in Judgement /\ row.c = c
    BY <2>1 DEF Judgement
  <2>3. row = [Page!Replay(c, op) EXCEPT !.at = at]
    BY <2>1 DEF Page!Replay
  <2> QED
    BY <2>2, <2>3
<1>1. CASE Page!Propose(k, c)
  <2>1. PICK row \in Judgement : row.c = c /\ row = [Page!Replay(c, "propose") EXCEPT !.at = "judged"]
    BY <1>0
  <2>2. judging' = [judging EXCEPT ![k] = row]
    <3>1. [Page!Replay(c, "propose") EXCEPT !.at = "judged"] = Page!Replay(c, "propose")
      BY DEF Page!Replay
    <3> QED
      BY <1>1, <2>1, <3>1 DEF Page!Propose, Page!Turns
  <2>3. PICK next : next = [status |-> "pending", base |-> inforce, prints |-> None, previous |-> None]
    OBVIOUS
  <2>4. next \in Candidate /\ next.status = "pending" /\ next.previous = None
    BY <2>3 DEF Candidate, Versions
  <2>5. policy' = [policy EXCEPT ![c] = next] /\ UNCHANGED <<inforce, corpus, asked>>
    BY <1>1, <2>3 DEF Page!Propose
  <2>6. CandidateStands(c, next) /\ next.previous \notin Policies
    <3>1. policy[c] = None /\ next.base = inforce
      BY <1>1, <2>3 DEF Page!Propose
    <3> QED
      BY <2>4, <3>1 DEF CandidateStands, PolicyConstants, Known
  <2>7. policy'[row.c] # None
    BY <2>1, <2>4, <2>5 DEF PolicyConstants
  <2> QED
    BY <2>1, <2>2, <2>4, <2>5, <2>6, <2>7, CandidateChanges, JudgingGoesOn
<1>2. CASE Page!Revalidate(k, c)
  <2>1. PICK row \in Judgement : row.c = c /\ row = [Page!Replay(c, "revalidate") EXCEPT !.at = "judged"]
    BY <1>0
  <2>2. judging' = [judging EXCEPT ![k] = row]
    <3>1. [Page!Replay(c, "revalidate") EXCEPT !.at = "judged"] = Page!Replay(c, "revalidate")
      BY DEF Page!Replay
    <3> QED
      BY <1>2, <2>1, <3>1 DEF Page!Revalidate, Page!Turns
  <2>3. policy[c] # None /\ UNCHANGED <<inforce, policy, corpus, asked>>
    BY <1>2 DEF Page!Revalidate, Page!Reviewed
  <2> QED
    BY <2>1, <2>2, <2>3, JudgingGoesOn DEF Known, CandidateStands
<1>3. CASE Page!Publish(k, c)
  <2>1. PICK row \in Judgement : row.c = c /\ row = [Page!Replay(c, "publish") EXCEPT !.at = "confirmed"]
    BY <1>0
  <2>2. judging' = [judging EXCEPT ![k] = row]
    BY <1>3, <2>1 DEF Page!Publish, Page!Turns
  <2>3. policy[c] # None /\ UNCHANGED <<inforce, policy, corpus, asked>>
    BY <1>3 DEF Page!Publish, Page!Reviewed
  <2> QED
    BY <2>1, <2>2, <2>3, JudgingGoesOn DEF Known, CandidateStands
<1> QED
  BY <1>1, <1>2, <1>3

LEMMA JudgingSteps ==
  ASSUME PolicyConstants, PolicyInv, NEW k \in Clicks, Page!Rejudge(k) \/ Page!Sample(k)
  PROVE  PolicyInv'
<1> USE DEF PolicyInv
<1>1. /\ judging[k] # None /\ judging[k] \in Judgement /\ judging[k].c \in Policies
      /\ policy[judging[k].c] # None
      /\ UNCHANGED <<inforce, policy, corpus, asked>>
  <2>1. judging[k] # None /\ UNCHANGED <<inforce, policy, corpus, asked>>
    BY DEF Page!Rejudge, Page!Sample, Page!Under
  <2> QED
    BY <2>1 DEF Judgement, Known
<1>2. policy[judging[k].c].prints \in Prints \cup {None}
  BY <1>1 DEF Candidate
<1>3. PICK row \in Judgement : row.c = judging[k].c /\ judging' = [judging EXCEPT ![k] = row]
  <2>1. CASE Page!Rejudge(k)
    <3>1. PICK row : row = [judging[k] EXCEPT !.at = "judged",
                 !.passed = <<judging[k].c, judging[k].rows>> \in Policies \X {"old", "new"},
                 !.expected = policy[judging[k].c].prints]
      OBVIOUS
    <3>2. row \in Judgement /\ row.c = judging[k].c
      BY <1>1, <1>2, <3>1 DEF Judgement
    <3>3. judging' = [judging EXCEPT ![k] = row]
      BY <2>1, <3>1 DEF Page!Rejudge, Page!Turns
    <3> QED
      BY <3>2, <3>3
  <2>2. CASE Page!Sample(k)
    <3>1. PICK n \in Int : n = IF asked > judging[k].traces THEN judging[k].traces + 1 ELSE asked
      BY <1>1 DEF Judgement
    <3>2. PICK row : row = [judging[k] EXCEPT !.at = "sampled", !.cases = n]
      OBVIOUS
    <3>3. row \in Judgement /\ row.c = judging[k].c
      BY <1>1, <3>2 DEF Judgement
    <3>4. judging' = [judging EXCEPT ![k] = row]
      BY <2>2, <3>1, <3>2 DEF Page!Sample, Page!Turns
    <3> QED
      BY <3>3, <3>4
  <2> QED
    BY <2>1, <2>2
<1> QED
  BY <1>1, <1>3, JudgingGoesOn DEF Known, CandidateStands

LEMMA FingerprintSteps ==
  ASSUME PolicyConstants, PolicyInv, NEW k \in Clicks, Page!Fingerprint(k)
  PROVE  PolicyInv'
<1> USE DEF PolicyInv
<1>1. PICK c \in Policies : c = judging[k].c /\ policy[c] # None /\ judging[k] \in Judgement
  <2>1. judging[k] # None
    BY DEF Page!Fingerprint, Page!Under
  <2> QED
    BY <2>1 DEF Judgement, Known
<1>2. UNCHANGED <<inforce, corpus, asked>>
  BY DEF Page!Fingerprint
<1>3. PICK prints : prints = [corpus |-> judging[k].rows, cases |-> judging[k].cases, baseline |-> inforce]
  OBVIOUS
<1>4. prints \in Prints
  BY <1>1, <1>3 DEF Judgement, Prints
<1>5. CASE judging[k].op # "publish"
  <2>1. PICK status \in {"ready_for_review", "failed"} :
          status = IF judging[k].passed THEN "ready_for_review" ELSE "failed"
    OBVIOUS
  <2>2. PICK next : next = [policy[c] EXCEPT !.prints = prints, !.status = status]
    OBVIOUS
  <2>3. /\ next \in Candidate /\ next.status = status /\ next.base = policy[c].base
        /\ next.previous = policy[c].previous
    BY <1>1, <1>4, <2>2 DEF Candidate
  <2>4. policy' = [policy EXCEPT ![c] = next]
    <3>1. policy' = [policy EXCEPT ![c].prints = prints, ![c].status = status]
      BY <1>1, <1>3, <1>5, <2>1 DEF Page!Fingerprint
    <3> QED
      BY <2>2, <3>1
  <2>5. CandidateStands(c, next)
    BY <1>1, <2>3 DEF CandidateStands
  <2>6. \A q \in Policies : policy[q] # None => policy'[q] # None
    BY <2>3, <2>4 DEF PolicyConstants
  <2>7. next.previous \in Policies => policy'[next.previous] # None
    BY <1>1, <2>3, <2>6 DEF Known
  <2>8. judging' = [judging EXCEPT ![k] = None]
    BY <1>5 DEF Page!Fingerprint, Page!Turns
  <2> QED
    BY <1>2, <2>3, <2>4, <2>5, <2>7, <2>8, CandidateChanges, JudgingGoesOn
<1>6. CASE judging[k].op = "publish"
  <2>1. PICK row : row = [judging[k] EXCEPT !.at = "compared"]
    OBVIOUS
  <2>2. row \in Judgement /\ row.c = c
    BY <1>1, <2>1 DEF Judgement
  <2>3. judging' = [judging EXCEPT ![k] = row] \/ judging' = [judging EXCEPT ![k] = None]
    BY <1>6, <2>1 DEF Page!Fingerprint, Page!Turns
  <2>4. UNCHANGED policy
    BY <1>6 DEF Page!Fingerprint
  <2> QED
    BY <1>1, <1>2, <2>2, <2>3, <2>4, JudgingGoesOn DEF Known, CandidateStands
<1> QED
  BY <1>5, <1>6

LEMMA DeploySteps ==
  ASSUME PolicyConstants, PolicyInv, NEW k \in Clicks, Page!Deploy(k)
  PROVE  PolicyInv'
<1> USE DEF PolicyInv
<1>1. PICK c \in Policies : c = judging[k].c /\ policy[c] # None
  <2>1. judging[k] # None
    BY DEF Page!Deploy, Page!Under
  <2> QED
    BY <2>1 DEF Judgement, Known
<1>2. UNCHANGED <<corpus, asked>> /\ judging' = [judging EXCEPT ![k] = None]
  BY DEF Page!Deploy, Page!Turns
<1>3. CASE Page!StillBase(c)
  <2>1. PICK others : others = Page!Replacing(c)
    OBVIOUS
  <2>2. /\ others = [q \in Policies |-> IF policy[q] # None /\ policy[q].status = "active"
                                     THEN [policy[q] EXCEPT !.status = "replaced"] ELSE policy[q]]
        /\ policy' = [others EXCEPT ![c].status = "active", ![c].previous = inforce]
        /\ inforce' = c /\ inforce = policy[c].base
    BY <1>1, <1>3, <2>1 DEF Page!Deploy, Page!Replacing, Page!StillBase
  <2>3. ASSUME NEW q \in Policies
        PROVE  /\ others[q] \in Candidate \cup {None}
               /\ policy[q] = None => others[q] = None
               /\ policy[q] # None => /\ others[q] # None /\ others[q].status # "active"
                                      /\ others[q].base = policy[q].base
                                      /\ others[q].previous = policy[q].previous
    <3>1. PICK row : row = [policy[q] EXCEPT !.status = "replaced"]
      OBVIOUS
    <3>2. policy[q] # None => /\ row \in Candidate /\ row.status = "replaced"
                              /\ row.base = policy[q].base /\ row.previous = policy[q].previous
      BY <3>1 DEF Candidate
    <3>3. others[q] = IF policy[q] # None /\ policy[q].status = "active" THEN row ELSE policy[q]
      BY <2>2, <3>1
    <3> QED
      BY <3>2, <3>3 DEF PolicyConstants
  <2>4. PICK next : next = [others[c] EXCEPT !.status = "active", !.previous = inforce]
    OBVIOUS
  <2>5. /\ next \in Candidate /\ next.base = policy[c].base /\ next.previous = inforce
    BY <1>1, <2>3, <2>4 DEF Candidate, PolicyConstants
  <2>6. policy' = [others EXCEPT ![c] = next]
    BY <2>2, <2>4
  <2>7. DOMAIN others = Policies
    BY <2>2
  <2>8. \A q \in Policies : policy'[q] = IF q = c THEN next ELSE others[q]
    BY <2>6, <2>7
  <2>9. policy' \in [Policies -> Candidate \cup {None}]
    <3>1. policy' = [q \in Policies |-> IF q = c THEN next ELSE others[q]]
      BY <2>6, <2>7, <2>2
    <3> QED
      BY <2>3, <2>5, <3>1
  <2>10. \A q \in Policies : policy[q] # None => policy'[q] # None
    BY <2>3, <2>5, <2>8 DEF PolicyConstants
  <2>11. inforce' \in Versions /\ Known(inforce)'
    BY <1>1, <2>2, <2>10 DEF Known, Versions
  <2>12. ASSUME NEW q \in Policies, policy'[q] # None
         PROVE  /\ policy'[q].status = "active" => inforce' = q
                /\ policy'[q].previous # None => policy'[q].previous = policy'[q].base
                /\ policy'[q].base # q
                /\ policy'[q].previous \in Policies => policy'[policy'[q].previous] # None
    <3>1. CASE q = c
      <4>1. policy'[q] = next /\ next.previous = next.base /\ next.base # c
        BY <1>1, <2>2, <2>5, <2>8, <3>1 DEF CandidateStands
      <4>2. inforce \in Policies => policy'[inforce] # None
        BY <2>10 DEF Known
      <4> QED
        BY <2>2, <2>5, <3>1, <4>1, <4>2
    <3>2. CASE q # c
      <4>1. policy'[q] = others[q] /\ policy[q] # None
        BY <2>3, <2>8, <2>12, <3>2
      <4> QED
        BY <2>3, <2>10, <4>1 DEF CandidateStands, Known
    <3> QED
      BY <3>1, <3>2
  <2> QED
    BY <1>2, <2>9, <2>10, <2>11, <2>12, JudgingGoesOn
<1>4. CASE ~Page!StillBase(c)
  <2>1. UNCHANGED <<policy, inforce>>
    BY <1>1, <1>4 DEF Page!Deploy
  <2> QED
    BY <1>2, <2>1, JudgingGoesOn DEF Known, CandidateStands
<1> QED
  BY <1>3, <1>4

LEMMA RollbackSteps ==
  ASSUME PolicyConstants, PolicyInv, NEW c \in Policies, Page!Rollback(c)
  PROVE  PolicyInv'
<1> USE DEF PolicyInv
<1>1. /\ policy[c] # None /\ policy[c] \in Candidate /\ inforce = c
      /\ inforce' = policy[c].previous /\ UNCHANGED <<judging, corpus, asked>>
      /\ policy' = [q \in Policies |->
                  CASE q = c -> [policy[c] EXCEPT !.status = "rolled_back"]
                    [] q = policy[c].previous -> [policy[q] EXCEPT !.status = "active"]
                    [] OTHER -> policy[q]]
  BY DEF Page!Rollback
<1>2. policy[c].previous \in Versions /\ Known(policy[c].previous)
  BY <1>1 DEF Candidate
<1>3. ASSUME NEW q \in Policies, policy[q] # None
      PROVE  /\ policy'[q] \in Candidate
             /\ policy'[q].base = policy[q].base /\ policy'[q].previous = policy[q].previous
             /\ policy'[q].status = "active" => policy[c].previous = q
  <2>1. CASE q = c
    <3>1. PICK row : row = [policy[c] EXCEPT !.status = "rolled_back"]
      OBVIOUS
    <3>2. policy'[q] = row
      <4>1. c # policy[c].previous
        BY <1>1, <2>1 DEF CandidateStands, PolicyConstants
      <4> QED
        BY <1>1, <2>1, <3>1, <4>1
    <3> QED
      BY <1>1, <2>1, <3>1, <3>2 DEF Candidate
  <2>2. CASE q # c /\ q = policy[c].previous
    <3>1. PICK row : row = [policy[q] EXCEPT !.status = "active"]
      OBVIOUS
    <3>2. policy'[q] = row /\ policy[q] \in Candidate
      BY <1>1, <1>3, <2>2, <3>1
    <3> QED
      BY <2>2, <3>1, <3>2 DEF Candidate
  <2>3. CASE q # c /\ q # policy[c].previous
    BY <1>1, <1>3, <2>3 DEF CandidateStands
  <2> QED
    BY <2>1, <2>2, <2>3
<1>4. ASSUME NEW q \in Policies, policy[q] = None PROVE policy'[q] = None
  BY <1>1, <1>2, <1>4 DEF Known
<1>5. \A q \in Policies : policy[q] # None <=> policy'[q] # None
  BY <1>3, <1>4 DEF PolicyConstants
<1>6. policy' \in [Policies -> Candidate \cup {None}]
  <2>1. \A q \in Policies : policy'[q] \in Candidate \cup {None}
    BY <1>3, <1>4
  <2>2. policy' = [q \in Policies |-> policy'[q]]
    BY <1>1
  <2> QED
    BY <2>1, <2>2
<1>7. inforce' \in Versions /\ Known(inforce)'
  BY <1>1, <1>2, <1>5 DEF Known
<1>8. ASSUME NEW q \in Policies, policy'[q] # None
      PROVE  /\ policy'[q].status = "active" => inforce' = q
             /\ policy'[q].previous # None => policy'[q].previous = policy'[q].base
             /\ policy'[q].base # q
             /\ policy'[q].previous \in Policies => policy'[policy'[q].previous] # None
  BY <1>1, <1>3, <1>5, <1>8 DEF CandidateStands, Known
<1>9. \A k \in Clicks : judging'[k] # None => Known(judging[k].c)'
  BY <1>1, <1>5 DEF Known
<1> QED
  BY <1>1, <1>6, <1>7, <1>8, <1>9 DEF Known, CandidateStands

LEMMA PolicySteps == ASSUME PolicyConstants, PolicyInv, Page!Deciding PROVE PolicyInv'
<1>1. CASE Page!Change
  <2>1. UNCHANGED <<inforce, policy, judging>> /\ corpus' \in {"old", "new"} /\ asked' \in Int
    BY <1>1 DEF Page!Change, PolicyInv, Page!Corpora
  <2> QED
    BY <2>1 DEF PolicyInv, Known, CandidateStands
<1> QED
  BY <1>1, ReplaySteps, JudgingSteps, FingerprintSteps, DeploySteps, RollbackSteps
  DEF Page!Deciding
-----------------------------------------------------------------------------
(* The answer on display.                                                   *)

\* What the index of the page still holds is in use, or its removal is awaited.
DraftsInv ==
  /\ saving \in Nat
  /\ indexed => enabled \/ saving > 0
  /\ Page!DraftsBelong

LEMMA DraftSteps == ASSUME DraftsInv, Page!Answering PROVE DraftsInv'
<1> USE DEF DraftsInv
<1>1. CASE Page!Ask \/ Page!NewSession \/ (\E t \in traces : Page!View(t))
           \/ (\E c \in Clicks : Page!Prompt(c))
  BY <1>1 DEF Page!Ask, Page!NewSession, Page!View, Page!Prompt, Page!DraftsBelong
<1>2. CASE Page!Toggle
  <2>1. saving' \in Nat /\ saving' > 0
    BY <1>2 DEF Page!Toggle
  <2> QED
    BY <1>2, <2>1 DEF Page!Toggle, Page!DraftsBelong
<1>3. CASE Page!Refresh
  <2>1. saving' \in Nat
    BY <1>3 DEF Page!Refresh
  <2> QED
    BY <1>3, <2>1 DEF Page!Refresh, Page!DraftsBelong
<1>4. ASSUME NEW c \in Clicks, Page!Arrive(c) PROVE DraftsInv'
  <2>1. UNCHANGED <<saving, indexed, enabled>>
    BY <1>4 DEF Page!Arrive
  <2>2. CASE Page!Expected(c) /\ Page!StillCited
    <3>1. PICK draft : draft = [to |-> prompt[c].to, onto |-> shown.id,
                                quoted |-> (enabled \/ saving > 0)]
      OBVIOUS
    <3>2. draft.to = draft.onto /\ draft.quoted
      BY <2>2, <3>1 DEF Page!Expected, Page!StillCited
    <3>3. drafts' = drafts \cup {draft}
      BY <1>4, <2>2, <3>1 DEF Page!Arrive, Page!Expected
    <3> QED
      BY <2>1, <3>2, <3>3 DEF Page!DraftsBelong
  <2>3. CASE ~(Page!Expected(c) /\ Page!StillCited)
    BY <1>4, <2>1, <2>3 DEF Page!Arrive, Page!DraftsBelong
  <2> QED
    BY <2>2, <2>3
<1> QED
  BY <1>1, <1>2, <1>3, <1>4 DEF Page!Answering
-----------------------------------------------------------------------------
PageConstants == TaskConstants /\ PolicyConstants

PageInv ==
  focus \in {"task", "policy", "display"} => TaskInv /\ PolicyInv /\ DraftsInv

LEMMA PageStarts == ASSUME PageConstants, Page!Init PROVE TaskInv /\ PolicyInv /\ DraftsInv
<1> USE DEF PageConstants
<1>1. PICK p \in Params : task = Page!NoTask(p) /\ kept = Page!NoTask(p)
  BY DEF Page!Init
<1>2. task \in TaskRow /\ TaskStands(task)
  BY <1>1 DEF Page!NoTask, TaskRow, Results, TaskStands
<1>3. TaskInv
  BY <1>1, <1>2 DEF Page!Init, TaskInv, RunsDiffer
<1>4. PolicyInv
  BY DEF Page!Init, Page!Base, PolicyInv, PolicyConstants, Known, Versions
<1>5. DraftsInv
  BY DEF Page!Init, DraftsInv, Page!DraftsBelong
<1> QED
  BY <1>3, <1>4, <1>5

LEMMA PageSteps ==
  ASSUME PageConstants, PageInv, [Next]_everything
  PROVE  PageInv'
<1> USE DEF PageConstants
<1>1. ASSUME UNCHANGED piece, TaskInv PROVE TaskInv'
  <2>1. UNCHANGED <<task, kept, clicked, handed>>
    BY <1>1 DEF piece
  <2> QED
    BY <1>1, <2>1 DEF TaskInv
<1>2. ASSUME UNCHANGED policies, PolicyInv PROVE PolicyInv'
  <2>1. UNCHANGED <<inforce, policy, judging, corpus, asked>>
    BY <1>2 DEF policies
  <2> QED
    BY <1>2, <2>1 DEF PolicyInv, Known, CandidateStands
<1>3. ASSUME UNCHANGED display, DraftsInv PROVE DraftsInv'
  <2>1. UNCHANGED <<enabled, indexed, saving, drafts>>
    BY <1>3 DEF display
  <2> QED
    BY <1>3, <2>1 DEF DraftsInv, Page!DraftsBelong
<1>4. CASE UNCHANGED <<focus, page>>
  BY <1>1, <1>2, <1>3, <1>4 DEF page, PageInv
<1>5. CASE PageStep
  BY <1>1, <1>2, <1>3, <1>5, TaskSteps, PolicySteps, DraftSteps DEF PageStep, PageInv
<1> QED
  BY <1>4, <1>5 DEF Next, everything, PrivateStep, TightStep, ReferenceStep, IndexStep, FolderStep,
     ChattingStep, AbuseStep, SearchStep

LEMMA PageFollows == ASSUME PageConstants, PageInv PROVE PageIsSound
<1> SUFFICES ASSUME focus \in {"task", "policy", "display"}
             PROVE  Page!FilesAreConfirmed /\ Page!PoliciesStand /\ Page!DraftsBelong
  BY DEF PageIsSound, Page!PageIsSound
<1>1. TaskInv /\ PolicyInv /\ DraftsInv
  BY DEF PageInv
<1>2. Page!FilesAreConfirmed
  BY <1>1 DEF TaskInv, TaskStands, Page!FilesAreConfirmed
<1>3. Page!PoliciesStand
  BY <1>1 DEF PolicyInv, CandidateStands, Page!PoliciesStand
<1> QED
  BY <1>1, <1>2, <1>3 DEF DraftsInv

(* For any number of clicks under way, inputs and candidates, however one   *)
(* overtakes what another awaits (lite/web): a file handed out is the       *)
(* result that was confirmed of the input it names, the candidate marked    *)
(* active is the one in force, and a draft is added to its own answer.      *)
THEOREM PageStaysSound ==
  ASSUME PageConstants PROVE Spec => []PageIsSound
<1>1. Init => PageInv
  BY PageStarts DEF Init, PageInv
<1> QED
  BY <1>1, PageSteps, PageFollows, PTL DEF Spec, everything
=============================================================================
