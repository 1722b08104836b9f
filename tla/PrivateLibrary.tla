---------------------------- MODULE PrivateLibrary ----------------------------
(***************************************************************************)
(* Documents of one browser (core/private_library.py): uploaded in parts,  *)
(* removed, and handed over to another browser by a code that is used      *)
(* once.  A document has the identifier of its upload, and what is stored  *)
(* of it is named after it; each save is one Store.mutate (FactStore).     *)
(***************************************************************************)
EXTENDS ChunkedUpload

CONSTANTS
  Owners,        \* browsers
  Codes,         \* handoff codes, each issued at most once
  Unreadable,    \* files the parser refuses
  MaxDocuments,  \* 25 documents of an owner
  MaxTotal,      \* 300 documents
  MaxClaims      \* 100 codes not used yet

VARIABLES
  announced,  \* the row of an upload: [owner, sha256, live], or None
  owner,      \* the owner of the document of an upload, or None
  texts,      \* the text and the original stored for one, as read, or None
  codes,      \* of each code: [status, owner, documents]
  origin      \* whether the owner of a document finished or claimed it

state == <<announced, owner, texts, codes, origin>>
vars == <<pieces, request, state>>

Init ==
  /\ ChunksInit
  /\ announced = [u \in Uploads |-> None]
  /\ owner = [u \in Uploads |-> None]
  /\ texts = [u \in Uploads |-> None]
  /\ codes = [k \in Codes |->
                [status |-> "unused", owner |-> None, documents |-> {}]]
  /\ origin = [u \in Uploads |-> None]

Documents == {u \in Uploads : owner[u] # None}
Visible(o) == {u \in Uploads : owner[u] = o}
SameFile(o, c) == {u \in Visible(o) : announced[u].sha256 = c}
Full(o) ==
  Cardinality(Visible(o)) >= MaxDocuments \/ Cardinality(Documents) >= MaxTotal
Live(u) == announced[u] # None /\ announced[u].live

\* The row is written after the documents were looked at, under a name nobody
\* knows before the answer: one step.
Start(o, u, c) ==
  /\ announced[u] = None
  /\ SameFile(o, c) = {}
  /\ ~Full(o)
  /\ announced' = [announced EXCEPT ![u] = [owner |-> o, sha256 |-> c, live |-> TRUE]]
  /\ UNCHANGED <<pieces, request, owner, texts, codes, origin>>

Send(r, u, n, c) == Live(u) /\ SendPart(r, u, n, c) /\ UNCHANGED state
Store(r) == StorePart(r) /\ UNCHANGED state
Finish(r, u) == Live(u) /\ Gather(r, u) /\ UNCHANGED state
Read(r, n) == ReadPart(r, n) /\ UNCHANGED state
Abandon(r) == GiveUp(r) /\ UNCHANGED state

Parsed(c) == c \notin Unreadable

\* The file is parsed and its text and original are stored.
Keep(r) ==
  LET u == request[r].upload
  IN  /\ Doing(r, "gather")
      /\ Whole(r, announced[u].sha256)
      /\ Parsed(announced[u].sha256)
      /\ texts' = [texts EXCEPT ![u] = request[r].got]
      /\ request' = [request EXCEPT ![r] = [task |-> "save", upload |-> u]]
      /\ UNCHANGED <<pieces, announced, owner, codes, origin>>

\* Mutant: the places are counted when the upload is announced.
SaveUncounted(r) ==
  LET u == request[r].upload
      row == announced[u]
  IN  /\ Doing(r, "save")
      /\ IF SameFile(row.owner, row.sha256) # {}
         THEN UNCHANGED <<owner, origin>>
         ELSE /\ owner' = [owner EXCEPT ![u] = row.owner]
              /\ origin' = [origin EXCEPT ![u] = "finished"]
      /\ request' = [request EXCEPT ![r] = None]
      /\ UNCHANGED <<pieces, announced, texts, codes>>

\* The owner's document of the same file stands; otherwise the row is written,
\* whatever the document became since an earlier request finished the upload.
Save(r) ==
  LET u == request[r].upload
      row == announced[u]
  IN  /\ Doing(r, "save")
      /\ IF SameFile(row.owner, row.sha256) # {} \/ Full(row.owner)
         THEN UNCHANGED <<owner, origin>>
         ELSE /\ owner' = [owner EXCEPT ![u] = row.owner]
              /\ origin' = [origin EXCEPT ![u] = "finished"]
      /\ request' = [request EXCEPT ![r] = None]
      /\ UNCHANGED <<pieces, announced, texts, codes>>

Remove(u) ==
  /\ owner[u] # None
  /\ owner' = [owner EXCEPT ![u] = None]
  /\ origin' = [origin EXCEPT ![u] = None]
  /\ UNCHANGED <<pieces, request, announced, texts, codes>>

\* What is served of a document: its index is built from the stored text, if
\* that has the hash of the record.  Indexes are kept by document and hash, and
\* either never changes.
Index(u) ==
  IF texts[u] = Piecewise(announced[u].sha256) THEN texts[u] ELSE None

\* Searches return any of these, a page or an original one of them.
Found(o) == [u \in Visible(o) |-> Index(u)]

Outstanding(k) == codes[k].status \in {"live", "expired"}
Dropped(o) ==
  {k \in Codes : Outstanding(k) /\ (codes[k].owner = o \/ codes[k].status = "expired")}
Kept(o) == {k \in Codes : Outstanding(k)} \ Dropped(o)

\* A new code takes the place of those of the owner and of those expired.
Handoff(o, k) ==
  /\ codes[k].status = "unused"
  /\ Visible(o) # {}
  /\ Cardinality(Kept(o)) < MaxClaims
  /\ codes' = [j \in Codes |->
       IF j = k THEN [status |-> "live", owner |-> o, documents |-> Visible(o)]
       ELSE IF j \in Dropped(o) THEN [codes[j] EXCEPT !.status = "gone"]
       ELSE codes[j]]
  /\ UNCHANGED <<pieces, request, announced, owner, texts, origin>>

Transferred(k) == codes[k].documents \cap Visible(codes[k].owner)

\* Mutant: the code is kept.
ClaimKeepingCode(o, k) ==
  /\ codes[k].status = "live"
  /\ owner' = [u \in Uploads |-> IF u \in Transferred(k) THEN o ELSE owner[u]]
  /\ origin' = [u \in Uploads |->
                  IF u \in Transferred(k) THEN "claimed" ELSE origin[u]]
  /\ UNCHANGED <<pieces, request, announced, texts, codes>>

Claim(o, k) ==
  /\ codes[k].status = "live"
  /\ \/ codes[k].owner = o
     \/ Cardinality(Visible(o)) + Cardinality(Transferred(k)) <= MaxDocuments
  /\ owner' = [u \in Uploads |-> IF u \in Transferred(k) THEN o ELSE owner[u]]
  /\ origin' = [u \in Uploads |->
                  IF u \in Transferred(k) THEN "claimed" ELSE origin[u]]
  /\ codes' = [codes EXCEPT ![k].status = "gone"]
  /\ UNCHANGED <<pieces, request, announced, texts>>

\* An hour after it was announced, or a day after it was issued.
ExpireUpload(u) ==
  /\ Live(u)
  /\ announced' = [announced EXCEPT ![u].live = FALSE]
  /\ UNCHANGED <<pieces, request, owner, texts, codes, origin>>

ExpireCode(k) ==
  /\ codes[k].status = "live"
  /\ codes' = [codes EXCEPT ![k].status = "expired"]
  /\ UNCHANGED <<pieces, request, announced, owner, texts, origin>>

Next ==
  \/ \E o \in Owners, u \in Uploads, c \in Contents : Start(o, u, c)
  \/ \E r \in Requests, u \in Uploads, n \in Parts, c \in Contents : Send(r, u, n, c)
  \/ \E r \in Requests, u \in Uploads : Finish(r, u)
  \/ \E r \in Requests, n \in Parts : Read(r, n)
  \/ \E r \in Requests : Store(r) \/ Keep(r) \/ Save(r) \/ Abandon(r)
  \/ \E u \in Uploads : Remove(u) \/ ExpireUpload(u)
  \/ \E o \in Owners, k \in Codes : Handoff(o, k) \/ Claim(o, k)
  \/ \E k \in Codes : ExpireCode(k)

Spec == Init /\ [][Next]_vars
-----------------------------------------------------------------------------
TypeOK ==
  /\ pieces \in [Uploads -> [Parts -> Contents \cup {None}]]
  /\ announced \in [Uploads ->
       {None} \cup [owner : Owners, sha256 : Contents, live : BOOLEAN]]
  /\ owner \in [Uploads -> Owners \cup {None}]
  /\ texts \in [Uploads -> {None} \cup [Parts -> Contents \cup {None}]]
  /\ codes \in [Codes ->
       [status : {"unused", "live", "expired", "gone"},
        owner : Owners \cup {None}, documents : SUBSET Uploads]]

(* No browser holds more documents than its cap and the library no more than *)
(* its own, whether uploads finish at once or documents are claimed.         *)
WithinCaps ==
  /\ \A o \in Owners : Cardinality(Visible(o)) <= MaxDocuments
  /\ Cardinality(Documents) <= MaxTotal

(* Every document of a browser can be found, and is the file that was       *)
(* announced, though parts of different files are sent at once for one      *)
(* place and uploads are finished twice, handed over and removed.           *)
DocumentsAreWhole ==
  \A o \in Owners : \A u \in Visible(o) :
    Found(o)[u] = Piecewise(announced[u].sha256)

(* A browser has a file twice only if one of the two was handed to it.      *)
OneCopyUnlessClaimed ==
  \A u, v \in Documents :
    (u # v /\ owner[u] = owner[v] /\ announced[u].sha256 = announced[v].sha256)
      => "claimed" \in {origin[u], origin[v]}

Handed(u) ==
  \E k \in Codes : /\ codes[k].status = "live"
                   /\ u \in codes[k].documents
                   /\ codes[k].owner = owner[u]
                   /\ codes'[k].status = "gone"

(* A document comes to a browser that did not upload it only by a live code *)
(* of the browser that has it, and the code goes with it.                   *)
OnlyCodesMove ==
  [][\A u \in Uploads :
       (owner'[u] \notin {owner[u], None} /\ owner'[u] # announced[u].owner)
         => Handed(u)]_vars

(* "After another browser claimed them, this browser no longer has these    *)
(* documents" (the notice of the handoff): from then on only a code brings  *)
(* one back.                                                                *)
HandedOverStays ==
  [][\A u \in Uploads :
       (owner[u] # None /\ owner'[u] \notin {owner[u], None}) => Handed(u)]_vars
=============================================================================
