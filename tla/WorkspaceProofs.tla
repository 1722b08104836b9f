--------------------------- MODULE WorkspaceProofs ---------------------------
(***************************************************************************)
(* Proofs about Workspace, for any people, documents, requests, buckets    *)
(* and bounds.                                                             *)
(***************************************************************************)
EXTENDS Workspace, FiniteSetTheorems, SequenceTheorems, WellFoundedInduction, TLAPS

-----------------------------------------------------------------------------
(* The inductive invariant.                                                *)

\* A sequence of whatever its elements are.
IsSeq(s) == s \in Seq({s[i] : i \in 1..Len(s)})

Doc ==
  [topic : {form.topic : form \in Forms},
   department : {form.department : form \in Forms},
   version : Nat,
   effective : {form.effective : form \in Forms},
   expires : {form.expires : form \in Forms},
   author : {who.username : who \in Principals},
   status : {"pending", "rejected", "active", "archived"},
   external : BOOLEAN]

DocumentsTyped == documents \in Seq(Doc)

\* A version is archived for another that is in force.
ArchivedReplaced ==
  \A j \in 1..Len(documents) : documents[j].status = "archived" =>
    \E i \in 1..Len(documents) :
      documents[i].status = "active" /\ SameTopic(documents[i], documents[j])

DocumentsOK == DocumentsTyped /\ ArchivedReplaced /\ NewestVersionInForce

\* Turns stand in the order of the revisions of their conversation.
ConversationsTyped ==
  /\ DOMAIN conversations = Chats
  /\ \A c \in Chats : Present(c) =>
       /\ DOMAIN conversations[c] = {"owner", "revision", "turns"}
       /\ IsSeq(conversations[c].turns)
       /\ Len(conversations[c].turns) > 0
       /\ conversations[c].revision = Len(conversations[c].turns)

\* A conversation has the name of the request that started it, and is known
\* to others once that one was saved.
RequestsTyped ==
  /\ chat \in [Chats -> {"unused", "underway", "saved", "failed"}]
  /\ DOMAIN context = Chats
  /\ \A c \in Chats : Present(c) => chat[c] = "saved"
  /\ \A q \in Chats : chat[q] = "underway" =>
       /\ context[q].conversation \in Chats
       /\ IF context[q].conversation = q
          THEN context[q].seen = <<>>
          ELSE chat[context[q].conversation] = "saved"

\* What a request has seen of a conversation never deleted is what stands at
\* the revision it carries.
ContextsRemember ==
  \A c \in Chats : Present(c) /\ conversations[c].turns[1].chat = c =>
    \A q \in Chats :
      chat[q] = "underway" /\ context[q].conversation = c =>
        /\ context[q].revision \in Nat
        /\ context[q].revision <= conversations[c].revision
        /\ context[q].revision = conversations[c].revision =>
             context[q].seen = Trace(conversations[c].turns)

ConversationsOK ==
  /\ ConversationsTyped
  /\ RequestsTyped
  /\ ContextsRemember
  /\ AnswersFollowTurns

SkillsTyped ==
  /\ IsSeq(skills)
  /\ \A s \in 1..Len(skills) :
       DOMAIN skills[s] = {"author", "department", "cases", "status",
                           "rollout", "replay", "reviewer"}

SkillsOK == SkillsTyped /\ ActiveIsReviewed

IInv ==
  /\ DocumentsOK
  /\ ConversationsOK
  /\ SkillsOK

LEMMA InitInvariant == Init => IInv
<1> SUFFICES ASSUME Init PROVE IInv
  OBVIOUS
<1>1. \A c \in Chats : ~Present(c)
  BY DEF Init, Present
<1>2. Len(documents) = 0 /\ documents \in Seq(Doc)
  BY DEF Init
<1>3. Len(skills) = 0 /\ IsSeq(skills)
  BY DEF Init, IsSeq
<1>4. DocumentsOK
  BY <1>2 DEF DocumentsOK, DocumentsTyped, ArchivedReplaced, NewestVersionInForce
<1>5. ConversationsTyped /\ ContextsRemember /\ AnswersFollowTurns
  BY <1>1 DEF Init, ConversationsTyped, ContextsRemember, AnswersFollowTurns
<1>6. RequestsTyped
  BY <1>1 DEF Init, RequestsTyped
<1>7. SkillsTyped /\ ActiveIsReviewed
  BY <1>3 DEF SkillsTyped, ActiveIsReviewed
<1> QED BY <1>4, <1>5, <1>6, <1>7 DEF IInv, ConversationsOK, SkillsOK
-----------------------------------------------------------------------------
(* Sequences.                                                              *)

\* A sequence grows by one at its end.
LEMMA Appended ==
  ASSUME NEW s, IsSeq(s), NEW e
  PROVE  /\ Len(s) \in Nat
         /\ IsSeq(Append(s, e))
         /\ Len(Append(s, e)) = Len(s) + 1
         /\ \A i \in 1..Len(s) : Append(s, e)[i] = s[i]
         /\ Append(s, e)[Len(s) + 1] = e
<1> DEFINE S == {s[i] : i \in 1..Len(s)} \cup {e}
           t == Append(s, e)
<1>1. s \in Seq(S)
  BY SeqMonotonic DEF IsSeq
<1>2. /\ Len(s) \in Nat
      /\ t \in Seq(S)
      /\ Len(t) = Len(s) + 1
      /\ \A i \in 1..Len(s) : t[i] = s[i]
      /\ t[Len(s) + 1] = e
  <2> HIDE DEF S
  <2> QED BY <1>1, AppendProperties, LenProperties, e \in S DEF S
<1>3. \A i \in 1..Len(t) : t[i] \in {t[j] : j \in 1..Len(t)}
  OBVIOUS
<1>4. t \in [1..Len(t) -> {t[j] : j \in 1..Len(t)}]
  BY <1>2, <1>3, LenProperties
<1>5. t \in Seq({t[j] : j \in 1..Len(t)})
  BY <1>2, <1>4
<1> QED BY <1>2, <1>5 DEF IsSeq

\* An element of a sequence is replaced.
LEMMA Replaced ==
  ASSUME NEW s, IsSeq(s), NEW k \in 1..Len(s), NEW e,
         NEW new, new = [s EXCEPT ![k] = e]
  PROVE  /\ Len(s) \in Nat
         /\ IsSeq(new)
         /\ Len(new) = Len(s)
         /\ \A i \in 1..Len(s) : new[i] = IF i = k THEN e ELSE s[i]
<1> DEFINE S == {s[i] : i \in 1..Len(s)} \cup {e}
           t == [s EXCEPT ![k] = e]
<1>1. s \in Seq(S)
  BY SeqMonotonic DEF IsSeq
<1>2. /\ Len(s) \in Nat
      /\ t \in Seq(S)
      /\ Len(t) = Len(s)
      /\ \A i \in 1..Len(s) : t[i] = IF i = k THEN e ELSE s[i]
  <2> HIDE DEF S
  <2>1. e \in S
    BY DEF S
  <2> QED BY <1>1, <2>1, ExceptSeq, LenProperties
<1> DEFINE T == {t[j] : j \in 1..Len(s)}
<1>3. \A i \in 1..Len(s) : t[i] \in T
  OBVIOUS
<1>4. t \in Seq(T)
  <2> HIDE DEF T
  <2>1. DOMAIN t = 1..Len(s)
    BY <1>1, LenProperties
  <2>2. t = [j \in 1..Len(s) |-> t[j]]
    BY <2>1
  <2> HIDE DEF t
  <2>3. t \in [1..Len(s) -> T]
    BY <1>3, <2>2
  <2> QED BY <1>2, <2>3
<1>5. T = {t[j] : j \in 1..Len(t)}
  BY <1>2
<1> QED BY <1>2, <1>4, <1>5 DEF IsSeq
-----------------------------------------------------------------------------
(* Documents.                                                              *)

\* The documents change by a submission, a rejection or a publication.
LEMMA DocumentsChange ==
  ASSUME [Next]_vars
  PROVE  \/ documents' = documents
         \/ \E who \in Principals :
              \/ \E form \in Forms : Submit(who, form)
              \/ \E i \in 1..Len(documents) :
                   \/ Reject(who, i)
                   \/ \E external \in BOOLEAN : Publish(who, i, external)
<1>1. CASE UNCHANGED vars
  BY <1>1 DEF vars, store
<1>2. CASE NextDay
  BY <1>2 DEF NextDay, store
<1>3. CASE Documents
  BY <1>3 DEF Documents
<1>4. CASE Conversing
  BY <1>4 DEF Conversing, SaveAnswer, Abandon, Forget, Prepare, store
<1>5. CASE Feeding
  BY <1>5 DEF Feeding, GiveFeedback
<1>6. CASE Releasing
  BY <1>6 DEF Releasing, Propose, Replay, Canary, Promote, Rollback
<1> QED BY <1>1, <1>2, <1>3, <1>4, <1>5, <1>6 DEF Next

\* A submission adds a pending document; the others stay.
LEMMA Submitted ==
  ASSUME DocumentsOK,
         NEW who \in Principals, NEW form \in Forms, Submit(who, form)
  PROVE  DocumentsOK'
<1> DEFINE d == [topic |-> form.topic, department |-> form.department,
                 version |-> form.version, effective |-> form.effective,
                 expires |-> form.expires, author |-> who.username,
                 status |-> "pending", external |-> FALSE]
<1>1. d \in Doc
  BY FormsAssumption DEF Doc
<1>2. documents' = Append(documents, d) /\ d.status = "pending"
  BY DEF Submit
<1> HIDE DEF d
<1>3. /\ documents' \in Seq(Doc)
      /\ Len(documents) \in Nat
      /\ Len(documents') = Len(documents) + 1
      /\ \A i \in 1..Len(documents) : documents'[i] = documents[i]
      /\ documents'[Len(documents) + 1] = d
  BY <1>1, <1>2, AppendProperties, LenProperties DEF DocumentsOK, DocumentsTyped
<1>4. NewestVersionInForce'
  BY <1>2, <1>3 DEF DocumentsOK, NewestVersionInForce, SameTopic
<1>5. ArchivedReplaced'
  BY <1>2, <1>3 DEF DocumentsOK, ArchivedReplaced, SameTopic
<1> QED BY <1>3, <1>4, <1>5 DEF DocumentsOK, DocumentsTyped

\* A rejection changes one status, and not to one of a published document.
LEMMA Rejected ==
  ASSUME DocumentsOK,
         NEW who \in Principals, NEW i \in 1..Len(documents), Reject(who, i)
  PROVE  DocumentsOK'
<1> DEFINE d == [documents[i] EXCEPT !.status = "rejected"]
<1>1. documents[i] \in Doc
  BY ElementOfSeq DEF DocumentsOK, DocumentsTyped
<1>2. /\ d \in Doc
      /\ d.status = "rejected"
      /\ SameTopic(d, documents[i])
      /\ d.version = documents[i].version
  BY <1>1 DEF Doc, SameTopic
<1>3. documents' = [documents EXCEPT ![i] = d]
  BY DEF Reject
<1> HIDE DEF d
<1>4. /\ documents' \in Seq(Doc)
      /\ Len(documents') = Len(documents)
      /\ \A j \in 1..Len(documents) :
           documents'[j] = IF j = i THEN d ELSE documents[j]
  BY <1>2, <1>3, ExceptSeq DEF DocumentsOK, DocumentsTyped
<1>5. documents[i].status = "pending"
  BY DEF Reject, Pending
<1>6. \A j \in 1..Len(documents) :
        /\ SameTopic(documents'[j], documents[j])
        /\ documents'[j].version = documents[j].version
  BY <1>2, <1>4 DEF SameTopic
<1>7. NewestVersionInForce'
  BY <1>2, <1>4, <1>6 DEF DocumentsOK, NewestVersionInForce, SameTopic
<1>8. ArchivedReplaced'
  BY <1>2, <1>4, <1>5, <1>6 DEF DocumentsOK, ArchivedReplaced, SameTopic
<1> QED BY <1>4, <1>7, <1>8 DEF DocumentsOK, DocumentsTyped

\* A publication archives the version in force, which is older.
LEMMA PublishedOne ==
  ASSUME DocumentsOK,
         NEW who \in Principals, NEW i \in 1..Len(documents),
         NEW external \in BOOLEAN, Publish(who, i, external)
  PROVE  DocumentsOK'
<1> DEFINE e(j) == IF j = i THEN [documents[j] EXCEPT !.status = "active",
                                                      !.external = external]
                   ELSE IF j \in Published(documents[i])
                   THEN [documents[j] EXCEPT !.status = "archived"]
                   ELSE documents[j]
           old == Published(documents[i])
<1>1. \A j \in 1..Len(documents) : documents[j] \in Doc
  BY ElementOfSeq DEF DocumentsOK, DocumentsTyped
<1>2. \A j \in 1..Len(documents) :
        /\ e(j) \in Doc
        /\ SameTopic(e(j), documents[j])
        /\ e(j).version = documents[j].version
        /\ e(j).status = IF j = i THEN "active" ELSE IF j \in old
                         THEN "archived" ELSE documents[j].status
  BY <1>1 DEF Doc, SameTopic
<1>3. documents' = [j \in 1..Len(documents) |-> e(j)]
  BY DEF Publish
<1>4. Len(documents) \in Nat
  BY LenProperties DEF DocumentsOK, DocumentsTyped
<1> HIDE DEF e
<1>5. documents' \in [1..Len(documents) -> Doc]
  BY <1>2, <1>3
<1>6. documents' \in Seq(Doc) /\ Len(documents') = Len(documents)
  BY <1>4, <1>5
<1>7. \A j \in old : documents[j].version < documents[i].version
  BY DEF Publish
<1>8. \A j \in 1..Len(documents) :
        j \in old <=> /\ documents[j].status = "active"
                      /\ SameTopic(documents[j], documents[i])
  BY DEF Published
<1>9. ASSUME NEW j \in 1..Len(documents), NEW k \in 1..Len(documents), j # k,
             documents'[j].status = "active",
             documents'[k].status \in {"active", "archived"},
             SameTopic(documents'[j], documents'[k])
      PROVE  documents'[k].version < documents'[j].version
  <2>1. /\ SameTopic(documents[j], documents[k])
        /\ documents'[j].version = documents[j].version
        /\ documents'[k].version = documents[k].version
    BY <1>2, <1>3, <1>9 DEF SameTopic
  <2>2. CASE j = i
    <3>1. documents[k].status \in {"active", "archived"}
      BY <1>2, <1>3, <1>8, <1>9, <2>2
    <3>2. CASE k \in old
      BY <1>7, <2>1, <2>2, <3>2
    <3>3. CASE k \notin old
      <4>1. documents[k].status = "archived"
        BY <1>8, <2>1, <2>2, <3>1, <3>3 DEF SameTopic
      <4>2. PICK l \in 1..Len(documents) :
              /\ documents[l].status = "active"
              /\ SameTopic(documents[l], documents[k])
        BY <4>1 DEF DocumentsOK, ArchivedReplaced
      <4>3. l \in old
        BY <1>8, <2>1, <2>2, <4>2 DEF SameTopic
      <4>4. documents[k].version < documents[l].version
        BY <4>1, <4>2 DEF DocumentsOK, NewestVersionInForce
      <4>5. documents[l].version < documents[i].version
        BY <1>7, <4>3
      <4> QED BY <1>1, <2>1, <2>2, <4>4, <4>5 DEF Doc
    <3> QED BY <3>2, <3>3
  <2>3. CASE j # i
    <3>1. documents[j].status = "active" /\ j \notin old
      BY <1>2, <1>3, <1>9, <2>3
    <3>2. CASE k = i
      BY <1>8, <2>1, <3>1, <3>2 DEF SameTopic
    <3>3. CASE k # i
      BY <1>2, <1>3, <1>8, <1>9, <2>1, <3>1, <3>3 DEF DocumentsOK, NewestVersionInForce
    <3> QED BY <3>2, <3>3
  <2> QED BY <2>2, <2>3
<1>10. NewestVersionInForce'
  BY <1>6, <1>9 DEF NewestVersionInForce, SameTopic
<1>11. ASSUME NEW j \in 1..Len(documents), documents'[j].status = "archived"
       PROVE  \E k \in 1..Len(documents) :
                /\ documents'[k].status = "active"
                /\ SameTopic(documents'[k], documents'[j])
  <2>1. CASE j \in old
    BY <1>2, <1>3, <1>8, <2>1 DEF SameTopic
  <2>2. CASE j \notin old
    <3>1. documents[j].status = "archived"
      BY <1>2, <1>3, <1>11, <2>2
    <3>2. PICK l \in 1..Len(documents) :
            /\ documents[l].status = "active"
            /\ SameTopic(documents[l], documents[j])
      BY <3>1 DEF DocumentsOK, ArchivedReplaced
    <3>3. CASE l \in old
      BY <1>2, <1>3, <1>8, <3>2, <3>3 DEF SameTopic
    <3>4. CASE l \notin old
      BY <1>2, <1>3, <3>2, <3>4 DEF SameTopic
    <3> QED BY <3>3, <3>4
  <2> QED BY <2>1, <2>2
<1>12. ArchivedReplaced'
  BY <1>6, <1>11 DEF ArchivedReplaced, SameTopic
<1> QED BY <1>6, <1>10, <1>12 DEF DocumentsOK, DocumentsTyped
-----------------------------------------------------------------------------
(* Conversations.                                                          *)

\* Conversations and requests change by the steps of a request, or by a
\* deletion.
LEMMA ConversationsChange ==
  ASSUME [Next]_vars
  PROVE  \/ UNCHANGED <<conversations, chat, context>>
         \/ \E q \in Chats : SaveAnswer(q) \/ Abandon(q)
         \/ \E who \in Principals, c \in Chats :
              \/ Forget(who, c)
              \/ \E q \in Chats, d \in Departments : \E sources :
                   Prepare(q, who, c, d, sources)
<1>1. CASE UNCHANGED vars
  BY <1>1 DEF vars, store, requests
<1>2. CASE NextDay
  BY <1>2 DEF NextDay, store, requests
<1>3. CASE Documents
  BY <1>3 DEF Documents, Submit, Reject, Publish, requests
<1>4. CASE Conversing
  BY <1>4 DEF Conversing
<1>5. CASE Feeding
  BY <1>5 DEF Feeding, GiveFeedback, requests
<1>6. CASE Releasing
  BY <1>6 DEF Releasing, Propose, Replay, Canary, Promote, Rollback, requests
<1> QED BY <1>1, <1>2, <1>3, <1>4, <1>5, <1>6 DEF Next

\* Who starts on a conversation sees its turns at its revision.
LEMMA Prepared ==
  ASSUME ConversationsOK, NEW q \in Chats, NEW who \in Principals,
         NEW c \in Chats, NEW d, NEW sources, Prepare(q, who, c, d, sources)
  PROVE  ConversationsOK'
<1>1. /\ conversations' = conversations
      /\ chat[q] = "unused"
      /\ chat' = [chat EXCEPT ![q] = "underway"]
      /\ DOMAIN context' = Chats
      /\ \A r \in Chats : r # q => context'[r] = context[r]
      /\ context'[q].conversation = c
      /\ context'[q].revision = IF Present(c) THEN conversations[c].revision ELSE 0
      /\ context'[q].seen = IF Present(c) THEN Trace(conversations[c].turns) ELSE <<>>
      /\ c = q \/ Present(c)
  BY DEF Prepare, ConversationsOK, RequestsTyped, store
<1>2. ~Present(q)
  BY <1>1 DEF ConversationsOK, RequestsTyped
<1>3. /\ chat' \in [Chats -> {"unused", "underway", "saved", "failed"}]
      /\ \A r \in Chats : chat[r] = "saved" <=> chat'[r] = "saved"
      /\ \A r \in Chats : r # q => chat'[r] = chat[r]
  BY <1>1 DEF ConversationsOK, RequestsTyped
<1>4. ConversationsTyped' /\ AnswersFollowTurns'
  BY <1>1 DEF ConversationsOK, ConversationsTyped, AnswersFollowTurns, Present
<1>5. c # q => chat[c] = "saved"
  BY <1>1 DEF ConversationsOK, RequestsTyped
<1>6. RequestsTyped'
  BY <1>1, <1>2, <1>3, <1>5 DEF ConversationsOK, RequestsTyped, Present
<1>7. ContextsRemember'
  <2> SUFFICES ASSUME NEW k \in Chats, Present(k),
                      conversations[k].turns[1].chat = k,
                      NEW r \in Chats, chat'[r] = "underway",
                      context'[r].conversation = k
               PROVE  /\ context'[r].revision \in Nat
                      /\ context'[r].revision <= conversations[k].revision
                      /\ context'[r].revision = conversations[k].revision =>
                           context'[r].seen = Trace(conversations[k].turns)
    BY <1>1 DEF ContextsRemember, Present
  <2>1. CASE r = q
    <3>1. conversations[k].revision = Len(conversations[k].turns)
          /\ IsSeq(conversations[k].turns)
      BY DEF ConversationsOK, ConversationsTyped
    <3>2. conversations[k].revision \in Nat
      BY <3>1, LenProperties DEF IsSeq
    <3> QED BY <1>1, <2>1, <3>2
  <2>2. CASE r # q
    BY <1>1, <1>3, <2>2 DEF ConversationsOK, ContextsRemember
  <2> QED BY <2>1, <2>2
<1> QED BY <1>4, <1>6, <1>7 DEF ConversationsOK

\* A request that ends without an answer leaves the conversations alone.
LEMMA Abandoned ==
  ASSUME ConversationsOK, NEW q \in Chats, Abandon(q)
  PROVE  ConversationsOK'
<1>1. /\ conversations' = conversations
      /\ chat[q] = "underway"
      /\ chat' = [chat EXCEPT ![q] = "failed"]
      /\ DOMAIN context' = Chats
      /\ \A r \in Chats : r # q => context'[r] = context[r]
  BY DEF Abandon, ConversationsOK, RequestsTyped, store
<1>2. /\ chat' \in [Chats -> {"unused", "underway", "saved", "failed"}]
      /\ \A r \in Chats : chat[r] = "saved" <=> chat'[r] = "saved"
      /\ \A r \in Chats : chat'[r] = "underway" => chat[r] = "underway" /\ r # q
  BY <1>1 DEF ConversationsOK, RequestsTyped
<1>3. ConversationsTyped' /\ AnswersFollowTurns'
  BY <1>1 DEF ConversationsOK, ConversationsTyped, AnswersFollowTurns, Present
<1>4. RequestsTyped'
  BY <1>1, <1>2 DEF ConversationsOK, RequestsTyped, Present
<1>5. ContextsRemember'
  BY <1>1, <1>2 DEF ConversationsOK, ContextsRemember, Present
<1> QED BY <1>3, <1>4, <1>5 DEF ConversationsOK

\* A deletion takes a conversation out, whatever requests are under way.
LEMMA Forgotten ==
  ASSUME ConversationsOK, NEW who \in Principals, NEW c \in Chats,
         Forget(who, c)
  PROVE  ConversationsOK'
<1>1. /\ conversations' = [conversations EXCEPT ![c] = None]
      /\ chat' = chat /\ context' = context
  BY DEF Forget, requests
<1>2. /\ DOMAIN conversations' = Chats
      /\ \A k \in Chats : conversations'[k] # None =>
           Present(k) /\ conversations'[k] = conversations[k]
  BY <1>1 DEF ConversationsOK, ConversationsTyped, Present
<1>3. ConversationsTyped' /\ AnswersFollowTurns'
  BY <1>2 DEF ConversationsOK, ConversationsTyped, AnswersFollowTurns, Present
<1>4. RequestsTyped'
  BY <1>1, <1>2 DEF ConversationsOK, RequestsTyped, Present
<1>5. ContextsRemember'
  BY <1>1, <1>2 DEF ConversationsOK, ContextsRemember, Present
<1> QED BY <1>3, <1>4, <1>5 DEF ConversationsOK

\* An answer adds its turn to a conversation at the revision it was asked at,
\* or makes the conversation.
LEMMA Saved ==
  ASSUME ConversationsOK, NEW q \in Chats, SaveAnswer(q)
  PROVE  ConversationsOK'
<1> DEFINE b == context[q]
           c == b.conversation
           row == IF Present(c) THEN conversations[c]
                  ELSE [owner |-> b.owner, revision |-> 0, turns |-> <<>>]
           new == [row EXCEPT !.revision = @ + 1, !.turns = Append(@, Turn(q))]
           n == Len(row.turns)
<1>1. /\ chat[q] = "underway"
      /\ c \in Chats
      /\ conversations' = [conversations EXCEPT ![c] = new]
      /\ chat' = [chat EXCEPT ![q] = "saved"]
      /\ DOMAIN context' = Chats
      /\ \A r \in Chats : r # q => context'[r] = context[r]
  BY DEF SaveAnswer, ConversationsOK, RequestsTyped
<1>2. /\ chat' \in [Chats -> {"unused", "underway", "saved", "failed"}]
      /\ \A r \in Chats : chat'[r] = "saved" <=> chat[r] = "saved" \/ r = q
      /\ \A r \in Chats : chat'[r] = "underway" => chat[r] = "underway" /\ r # q
  BY <1>1 DEF ConversationsOK, RequestsTyped
<1>3. /\ DOMAIN row = {"owner", "revision", "turns"}
      /\ IsSeq(row.turns)
      /\ row.revision = n
      /\ Present(c) => n > 0 /\ row = conversations[c]
      /\ ~Present(c) => n = 0
  <2>1. CASE Present(c)
    BY <1>1, <2>1 DEF ConversationsOK, ConversationsTyped
  <2>2. CASE ~Present(c)
    BY <2>2 DEF IsSeq
  <2> QED BY <2>1, <2>2
<1>4. /\ DOMAIN new = {"owner", "revision", "turns"}
      /\ new.revision = row.revision + 1
      /\ new.turns = Append(row.turns, Turn(q))
  BY <1>3
<1>5. Turn(q).chat = q /\ Turn(q).seen = b.seen
  BY DEF Turn
<1>6. Present(c) => b.revision = conversations[c].revision
  BY DEF SaveAnswer, Room
<1>7. \A k \in Chats : k # c => conversations'[k] = conversations[k]
  BY <1>1 DEF ConversationsOK, ConversationsTyped
<1>8. /\ DOMAIN conversations' = Chats
      /\ conversations'[c] = new
  BY <1>1 DEF ConversationsOK, ConversationsTyped
<1> HIDE DEF new, row
<1>9. /\ n \in Nat
      /\ IsSeq(new.turns)
      /\ Len(new.turns) = n + 1
      /\ \A i \in 1..n : new.turns[i] = row.turns[i]
      /\ new.turns[n + 1] = Turn(q)
  BY <1>3, <1>4, Appended
<1>10. ConversationsTyped'
  <2> SUFFICES ASSUME NEW k \in Chats, Present(k)'
               PROVE  /\ DOMAIN conversations'[k] = {"owner", "revision", "turns"}
                      /\ IsSeq(conversations'[k].turns)
                      /\ Len(conversations'[k].turns) > 0
                      /\ conversations'[k].revision = Len(conversations'[k].turns)
    BY <1>8, Zenon DEF ConversationsTyped
  <2>1. CASE k = c
    <3>1. conversations'[k] = new
      BY <1>8, <2>1
    <3>2. /\ DOMAIN new = {"owner", "revision", "turns"}
          /\ IsSeq(new.turns)
      BY <1>4, <1>9
    <3>3. Len(new.turns) > 0 /\ new.revision = Len(new.turns)
      BY <1>3, <1>4, <1>9
    <3> QED BY <3>1, <3>2, <3>3, Zenon
  <2>2. CASE k # c
    BY <1>7, <2>2 DEF ConversationsOK, ConversationsTyped, Present
  <2> QED BY <2>1, <2>2
<1>11. chat'[c] = "saved"
  BY <1>1, <1>2 DEF ConversationsOK, RequestsTyped
<1>12. RequestsTyped'
  BY <1>1, <1>2, <1>7, <1>11 DEF ConversationsOK, RequestsTyped, Present
<1>13. CASE ~Present(c)
  <2>1. new.turns[1].chat = q
    BY <1>3, <1>5, <1>9, <1>13
  <2>2. new.turns[1].chat = c =>
          \A r \in Chats : chat'[r] = "underway" => context'[r].conversation # c
    <3> SUFFICES ASSUME c = q, NEW r \in Chats, chat'[r] = "underway",
                        context'[r].conversation = q
                 PROVE  FALSE
      BY <2>1
    <3>1. r # q /\ chat[r] = "underway" /\ context[r].conversation = q
      BY <1>1, <1>2
    <3>2. chat[q] = "saved"
      BY <3>1 DEF ConversationsOK, RequestsTyped
    <3> QED BY <1>1, <3>2
  <2>3. ContextsRemember'
    <3> SUFFICES ASSUME NEW k \in Chats, Present(k)',
                        conversations'[k].turns[1].chat = k,
                        NEW r \in Chats, chat'[r] = "underway",
                        context'[r].conversation = k
                 PROVE  /\ context'[r].revision \in Nat
                        /\ context'[r].revision <= conversations'[k].revision
                        /\ context'[r].revision = conversations'[k].revision =>
                             context'[r].seen = Trace(conversations'[k].turns)
      BY DEF ContextsRemember
    <3>1. k # c
      BY <1>8, <2>2
    <3> QED BY <1>1, <1>2, <1>7, <3>1 DEF ConversationsOK, ContextsRemember, Present
  <2>4. new.turns[1].chat = c => new.turns[1].seen = <<>>
    BY <1>1, <1>3, <1>5, <1>9, <1>13, <2>1 DEF ConversationsOK, RequestsTyped
  <2>5. AnswersFollowTurns'
    <3> SUFFICES ASSUME NEW k \in Chats, Present(k)',
                        conversations'[k].turns[1].chat = k,
                        NEW i \in 1..Len(conversations'[k].turns)
                 PROVE  conversations'[k].turns[i].seen =
                          [j \in 1..(i - 1) |-> conversations'[k].turns[j].chat]
      BY DEF AnswersFollowTurns
    <3>1. CASE k = c
      <4>1. i = 1
        BY <1>3, <1>8, <1>9, <1>13, <3>1
      <4>2. [j \in 1..(i - 1) |-> conversations'[k].turns[j].chat] = <<>>
        BY <4>1
      <4> QED BY <1>8, <2>4, <3>1, <4>1, <4>2
    <3>2. CASE k # c
      BY <1>7, <3>2 DEF ConversationsOK, AnswersFollowTurns, Present
    <3> QED BY <3>1, <3>2
  <2> QED BY <1>10, <1>12, <2>3, <2>5 DEF ConversationsOK
<1>14. CASE Present(c)
  <2>1. n > 0 /\ row = conversations[c]
    BY <1>3, <1>14
  <2>2. new.turns[1] = conversations[c].turns[1]
    BY <1>9, <2>1
  <2>3. ContextsRemember'
    <3> SUFFICES ASSUME NEW k \in Chats, Present(k)',
                        conversations'[k].turns[1].chat = k,
                        NEW r \in Chats, chat'[r] = "underway",
                        context'[r].conversation = k
                 PROVE  /\ context'[r].revision \in Nat
                        /\ context'[r].revision <= conversations'[k].revision
                        /\ context'[r].revision = conversations'[k].revision =>
                             context'[r].seen = Trace(conversations'[k].turns)
      BY DEF ContextsRemember
    <3>1. CASE k # c
      BY <1>1, <1>2, <1>7, <3>1 DEF ConversationsOK, ContextsRemember, Present
    <3>2. CASE k = c
      <4>1. context'[r].revision \in Nat /\ context'[r].revision <= n
        BY <1>1, <1>2, <1>3, <1>8, <1>14, <2>1, <2>2, <3>2
        DEF ConversationsOK, ContextsRemember
      <4> QED BY <1>3, <1>4, <1>8, <1>9, <3>2, <4>1
    <3> QED BY <3>1, <3>2
  <2>4. conversations[c].turns[1].chat = c => b.seen = Trace(conversations[c].turns)
    BY <1>1, <1>6, <1>14 DEF ConversationsOK, ContextsRemember
  <2>5. AnswersFollowTurns'
    <3> SUFFICES ASSUME NEW k \in Chats, Present(k)',
                        conversations'[k].turns[1].chat = k,
                        NEW i \in 1..Len(conversations'[k].turns)
                 PROVE  conversations'[k].turns[i].seen =
                          [j \in 1..(i - 1) |-> conversations'[k].turns[j].chat]
      BY DEF AnswersFollowTurns
    <3>1. CASE k # c
      BY <1>7, <3>1 DEF ConversationsOK, AnswersFollowTurns, Present
    <3>2. CASE k = c
      <4>1. conversations[c].turns[1].chat = c
        BY <1>8, <2>2, <3>2
      <4>2. CASE i = n + 1
        <5>1. new.turns[i].seen = Trace(row.turns)
          BY <1>5, <1>9, <2>1, <2>4, <4>1, <4>2
        <5>2. Trace(row.turns) = [j \in 1..n |-> new.turns[j].chat]
          BY <1>9 DEF Trace
        <5>3. conversations'[k] = new
          BY <1>8, <3>2
        <5>4. i - 1 = n
          BY <1>9, <4>2
        <5> QED BY <5>1, <5>2, <5>3, <5>4, Zenon
      <4>3. CASE i # n + 1
        <5>1. i \in 1..n
          BY <1>8, <1>9, <3>2, <4>3
        <5>2. row.turns[i].seen = [j \in 1..(i - 1) |-> row.turns[j].chat]
          <6>1. AnswersFollowTurns /\ i \in 1..Len(conversations[c].turns)
            BY <2>1, <5>1 DEF ConversationsOK
          <6>2. conversations[c].turns[i].seen =
                  [j \in 1..(i - 1) |-> conversations[c].turns[j].chat]
            BY <1>1, <1>14, <4>1, <6>1, Zenon DEF AnswersFollowTurns
          <6> QED BY <2>1, <6>2
        <5>3. [j \in 1..(i - 1) |-> row.turns[j].chat]
                = [j \in 1..(i - 1) |-> new.turns[j].chat]
          BY <1>9, <5>1
        <5> QED BY <1>8, <1>9, <3>2, <5>1, <5>2, <5>3
      <4> QED BY <4>2, <4>3
    <3> QED BY <3>1, <3>2
  <2> QED BY <1>10, <1>12, <2>3, <2>5 DEF ConversationsOK
<1> QED BY <1>13, <1>14
-----------------------------------------------------------------------------
(* Skills.                                                                 *)

\* What is stopped stays stopped.
StoppedStay ==
  \A s \in 1..Len(skills) :
    skills[s].status = "rolled_back" => skills'[s].status = "rolled_back"

SkillFields ==
  {"author", "department", "cases", "status", "rollout", "replay", "reviewer"}

\* The candidates change by a feedback, a proposal, a replay or a release.
LEMMA SkillsChange ==
  ASSUME [Next]_vars
  PROVE  \/ skills' = skills
         \/ \E s : skills[s].status = "active" /\ skills' = Stopped(s)
         \/ \E who \in Principals :
              \/ \E cases : Propose(who, cases)
              \/ \E s \in 1..Len(skills) :
                   \/ \E passed \in BOOLEAN : Replay(who, s, passed)
                   \/ Canary(who, s) \/ Promote(who, s) \/ Rollback(who, s)
<1>1. CASE UNCHANGED vars
  BY <1>1 DEF vars, store
<1>2. CASE NextDay
  BY <1>2 DEF NextDay, store
<1>3. CASE Documents
  BY <1>3 DEF Documents, Submit, Reject, Publish
<1>4. CASE Conversing
  BY <1>4 DEF Conversing, SaveAnswer, Abandon, Forget, Prepare, store
<1>5. CASE Feeding
  <2>1. PICK who, c, i, resolved, category, expected :
          GiveFeedback(who, c, i, resolved, category, expected)
    BY <1>5 DEF Feeding
  <2>2. \E fb, f : skills' = Guarded(fb, f)
    BY <2>1, Zenon DEF GiveFeedback
  <2> QED BY <2>2 DEF Guarded
<1>6. CASE Releasing
  BY <1>6 DEF Releasing
<1> QED BY <1>1, <1>2, <1>3, <1>4, <1>5, <1>6 DEF Next

\* A candidate changes: what it has to satisfy, and nothing about the others.
LEMMA OneSkill ==
  ASSUME SkillsOK, NEW s \in 1..Len(skills), NEW r,
         skills' = [skills EXCEPT ![s] = r],
         DOMAIN r = SkillFields,
         r.department = skills[s].department,
         r.status = "active" =>
           /\ r.replay.passed
           /\ r.reviewer \notin {None, r.author}
           /\ \A t \in 1..Len(skills) \ {s} :
                skills[t].status = "active" =>
                  skills[t].department # r.department,
         skills[s].status = "rolled_back" => r.status = "rolled_back"
  PROVE  SkillsOK' /\ StoppedStay
<1>1. /\ Len(skills) \in Nat
      /\ IsSeq(skills')
      /\ Len(skills') = Len(skills)
      /\ \A t \in 1..Len(skills) : skills'[t] = IF t = s THEN r ELSE skills[t]
  <2>1. IsSeq(skills)
    BY DEF SkillsOK, SkillsTyped
  <2> DEFINE old == skills
             new == [old EXCEPT ![s] = r]
  <2>2. /\ Len(old) \in Nat
        /\ IsSeq(new)
        /\ Len(new) = Len(old)
        /\ \A t \in 1..Len(old) : new[t] = IF t = s THEN r ELSE old[t]
    <3>1. IsSeq(old) /\ s \in 1..Len(old)
      BY <2>1
    <3> HIDE DEF old
    <3> QED BY <3>1, Replaced
  <2>3. skills' = new
    OBVIOUS
  <2> HIDE DEF new
  <2>4. IsSeq(skills')
    BY <2>2, <2>3, Zenon
  <2> QED BY <2>2, <2>3, <2>4
<1>2. StoppedStay
  BY <1>1 DEF StoppedStay
<1>3. SkillsTyped'
  BY <1>1 DEF SkillsOK, SkillsTyped, SkillFields
<1>4. ActiveIsReviewed'
  <2> SUFFICES ASSUME NEW t \in 1..Len(skills), skills'[t].status = "active"
               PROVE  /\ skills'[t].replay.passed
                      /\ skills'[t].reviewer \notin {None, skills'[t].author}
                      /\ \A u \in 1..Len(skills) \ {t} :
                           skills'[u].status = "active" =>
                             skills'[u].department # skills'[t].department
    BY <1>1 DEF ActiveIsReviewed
  <2>1. CASE t = s
    BY <1>1, <2>1
  <2>2. CASE t # s
    BY <1>1, <2>2 DEF SkillsOK, ActiveIsReviewed
  <2> QED BY <2>1, <2>2
<1> QED BY <1>2, <1>3, <1>4 DEF SkillsOK

\* A stop, by the guardrail or by a reviewer.
LEMMA StoppedOne ==
  ASSUME SkillsOK, NEW s, skills' = Stopped(s)
  PROVE  SkillsOK' /\ StoppedStay
<1>1. CASE s \in 1..Len(skills)
  <2> DEFINE r == [skills[s] EXCEPT !.status = "rolled_back", !.rollout = 0]
  <2>1. DOMAIN skills = 1..Len(skills)
    BY LenProperties DEF SkillsOK, SkillsTyped, IsSeq
  <2>2. skills' = [skills EXCEPT ![s] = r]
    BY <1>1, <2>1 DEF Stopped
  <2>3. DOMAIN skills[s] = SkillFields
    BY <1>1 DEF SkillsOK, SkillsTyped, SkillFields
  <2>4. /\ DOMAIN r = SkillFields
        /\ r.department = skills[s].department
        /\ r.status = "rolled_back"
    BY <2>3 DEF SkillFields
  <2> HIDE DEF r
  <2> QED BY <1>1, <2>2, <2>4, OneSkill
<1>2. CASE s \notin 1..Len(skills)
  <2>1. DOMAIN skills = 1..Len(skills) /\ skills \in [1..Len(skills) -> {skills[i] : i \in 1..Len(skills)}]
    BY LenProperties DEF SkillsOK, SkillsTyped, IsSeq
  <2>2. skills' = skills
    BY <1>2, <2>1 DEF Stopped
  <2> QED BY <2>2 DEF SkillsOK, SkillsTyped, ActiveIsReviewed, StoppedStay
<1> QED BY <1>1, <1>2

\* A proposal adds a draft.
LEMMA Proposed ==
  ASSUME SkillsOK, NEW who, NEW cases, Propose(who, cases)
  PROVE  SkillsOK' /\ StoppedStay
<1>1. PICK d \in Departments :
        skills' = Append(skills,
            [author |-> who.username, department |-> d, cases |-> cases,
             status |-> "draft", rollout |-> 0, replay |-> None,
             reviewer |-> None])
  BY DEF Propose
<1> DEFINE r == [author |-> who.username, department |-> d, cases |-> cases,
                 status |-> "draft", rollout |-> 0, replay |-> None,
                 reviewer |-> None]
<1>2. DOMAIN r = SkillFields /\ r.status = "draft"
  BY DEF SkillFields
<1> HIDE DEF r
<1>3. /\ Len(skills) \in Nat
      /\ IsSeq(skills')
      /\ Len(skills') = Len(skills) + 1
      /\ \A t \in 1..Len(skills) : skills'[t] = skills[t]
      /\ skills'[Len(skills) + 1] = r
  BY <1>1, Appended DEF SkillsOK, SkillsTyped, r
<1>4. \A t \in 1..Len(skills') : t \in 1..Len(skills) \/ t = Len(skills) + 1
  BY <1>3
<1>5. StoppedStay
  BY <1>3 DEF StoppedStay
<1>6. SkillsTyped'
  BY <1>2, <1>3, <1>4 DEF SkillsOK, SkillsTyped, SkillFields
<1>7. ActiveIsReviewed'
  BY <1>2, <1>3, <1>4 DEF SkillsOK, ActiveIsReviewed
<1> QED BY <1>5, <1>6, <1>7 DEF SkillsOK

\* A replay leaves a candidate that is not in use out of it.
LEMMA Replayed ==
  ASSUME SkillsOK, NEW who, NEW s \in 1..Len(skills), NEW passed,
         Replay(who, s, passed)
  PROVE  SkillsOK' /\ StoppedStay
<1> DEFINE v == [passed |-> passed, binding |-> Binding(s)]
           r == [skills[s] EXCEPT !.status = "evaluated", !.replay = v]
<1>1. DOMAIN skills = 1..Len(skills)
  BY LenProperties DEF SkillsOK, SkillsTyped, IsSeq
<1>2. skills' = [skills EXCEPT ![s] = r]
  BY <1>1 DEF Replay
<1>3. DOMAIN skills[s] = SkillFields /\ skills[s].status \in {"draft", "evaluated"}
  BY DEF SkillsOK, SkillsTyped, SkillFields, Replay
<1>4. /\ DOMAIN r = SkillFields
      /\ r.department = skills[s].department
      /\ r.status = "evaluated"
  BY <1>3 DEF SkillFields
<1> HIDE DEF r
<1> QED BY <1>2, <1>3, <1>4, OneSkill

\* A canary passed its replay and is alone in its department.
LEMMA Released ==
  ASSUME SkillsOK, NEW who \in Principals, NEW s \in 1..Len(skills),
         Canary(who, s)
  PROVE  SkillsOK' /\ StoppedStay
<1> DEFINE r == [skills[s] EXCEPT !.status = "active", !.rollout = 5,
                                  !.reviewer = who.username]
<1>1. DOMAIN skills = 1..Len(skills)
  BY LenProperties DEF SkillsOK, SkillsTyped, IsSeq
<1>2. skills' = [skills EXCEPT ![s] = r]
  BY <1>1 DEF Canary
<1>3. /\ DOMAIN skills[s] = SkillFields
      /\ skills[s].status = "evaluated"
      /\ skills[s].replay.passed
      /\ who.username # skills[s].author
      /\ \A t \in 1..Len(skills) \ {s} :
           skills[t].status = "active" =>
             skills[t].department # skills[s].department
  BY DEF SkillsOK, SkillsTyped, SkillFields, Canary, MayRelease
<1>4. /\ DOMAIN r = SkillFields
      /\ r.department = skills[s].department
      /\ r.author = skills[s].author
      /\ r.replay = skills[s].replay
      /\ r.reviewer = who.username
  BY <1>3 DEF SkillFields
<1>5. who.username # None
  BY PeopleAssumption
<1> HIDE DEF r
<1> QED BY <1>2, <1>3, <1>4, <1>5, OneSkill

\* A promotion only widens the share.
LEMMA Promoted ==
  ASSUME SkillsOK, NEW who, NEW s \in 1..Len(skills), Promote(who, s)
  PROVE  SkillsOK' /\ StoppedStay
<1> DEFINE r == [skills[s] EXCEPT !.rollout = NextStep(skills[s].rollout)]
<1>1. DOMAIN skills = 1..Len(skills)
  BY LenProperties DEF SkillsOK, SkillsTyped, IsSeq
<1>2. skills' = [skills EXCEPT ![s] = r]
  BY <1>1 DEF Promote
<1>3. DOMAIN skills[s] = SkillFields /\ skills[s].status = "active"
  BY DEF SkillsOK, SkillsTyped, SkillFields, Promote
<1>4. /\ DOMAIN r = SkillFields
      /\ r.department = skills[s].department
      /\ r.author = skills[s].author
      /\ r.replay = skills[s].replay
      /\ r.reviewer = skills[s].reviewer
  BY <1>3 DEF SkillFields
<1>5. /\ skills[s].replay.passed
      /\ skills[s].reviewer \notin {None, skills[s].author}
      /\ \A t \in 1..Len(skills) \ {s} :
           skills[t].status = "active" =>
             skills[t].department # skills[s].department
  BY <1>3 DEF SkillsOK, ActiveIsReviewed
<1> HIDE DEF r
<1> QED BY <1>2, <1>3, <1>4, <1>5, OneSkill
-----------------------------------------------------------------------------
(* Who was served what, and what the candidates passed on.                  *)

\* Of the constants: None is no conversation and no feedback.
NoneIsNoRow ==
  /\ \A owner, revision, turns : None # [owner |-> owner, revision |-> revision, turns |-> turns]
  /\ \A turn, conversation, owner, resolved, category, expected, department, policy, stamp :
       None # [turn |-> turn, conversation |-> conversation, owner |-> owner,
               resolved |-> resolved, category |-> category, expected |-> expected,
               department |-> department, policy |-> policy, stamp |-> stamp]

\* Nobody is served a candidate that was never released.
Known(policy) ==
  policy.skill # 0 =>
    /\ policy.skill \in 1..Len(skills)
    /\ skills[policy.skill].status \in {"active", "rolled_back"}

\* Every answer was saved by a request of its own.
TurnsOK ==
  /\ \A c \in Chats : Present(c) => \A i \in 1..Len(conversations[c].turns) :
       /\ conversations[c].turns[i].chat \in Chats
       /\ chat[conversations[c].turns[i].chat] = "saved"
       /\ Known(conversations[c].turns[i].policy)
  /\ \A c, d \in Chats : Present(c) /\ Present(d) =>
       \A i \in 1..Len(conversations[c].turns), j \in 1..Len(conversations[d].turns) :
         conversations[c].turns[i].chat = conversations[d].turns[j].chat => c = d /\ i = j
  /\ \A q \in Chats : chat[q] = "underway" => Known(context[q].policy)

\* A feedback is on an answer that stands, and names the candidate it was given by.
FeedbackOK ==
  /\ IsSeq(feedback)
  /\ \A i \in 1..Len(feedback) :
       /\ feedback[i] # None
       /\ feedback[i].conversation \in Chats /\ Present(feedback[i].conversation)
       /\ \E j \in 1..Len(conversations[feedback[i].conversation].turns) :
            /\ conversations[feedback[i].conversation].turns[j].chat = feedback[i].turn
            /\ conversations[feedback[i].conversation].turns[j].policy = feedback[i].policy

\* The cases that were labelled when the binding was made.
LabelledBy(cases, binding) ==
  {t \in cases :
     /\ binding.cases[t] # None
     /\ binding.cases[t].expected # {}
     /\ binding.cases[t].expected \subseteq binding.docs}

\* What passed its replay did so on enough labelled cases.
ReplaysOK ==
  \A s \in 1..Len(skills) :
    /\ skills[s].status \in {"draft", "evaluated", "active", "rolled_back"}
    /\ skills[s].status # "draft" /\ skills[s].replay.passed =>
         Cardinality(LabelledBy(skills[s].cases, skills[s].replay.binding)) >= MinCases

ServedInv == TurnsOK /\ FeedbackOK /\ ReplaysOK

LEMMA Least ==
  ASSUME NEW T \in SUBSET Nat, T # {}
  PROVE  \E n \in T : \A m \in T : n <= m
<1>1. \A R : \A S : IsWellFoundedOn(R, S) =>
        \A U \in SUBSET S : U # {} => \E v \in U : \A w \in U : <<w, v>> \notin R
  BY WFMin
<1>2. IsWellFoundedOn({ss \in Nat \X Nat : ss[1] < ss[2]}, Nat)
  BY NatLessThanWellFounded DEF OpToRel
<1>3. PICK v \in T : \A w \in T : <<w, v>> \notin {ss \in Nat \X Nat : ss[1] < ss[2]}
  BY <1>1, <1>2
<1>4. \A w \in T : ~(w < v)
  BY <1>3
<1> QED
  BY <1>4

\* An increasing list of all the places is the places in their order.
LEMMA InOrderOfAll ==
  ASSUME NEW n \in Nat, NEW f \in [1..n -> 1..n],
         \A i, j \in 1..n : i < j => f[i] < f[j],
         NEW k \in 1..n
  PROVE  f[k] = k
<1> DEFINE Below == {i \in 1..n : f[i] < i}
           Above == {i \in 1..n : n - i \in Nat /\ f[i] > i}
<1>1. Below = {}
  <2> SUFFICES ASSUME Below # {} PROVE FALSE
    OBVIOUS
  <2>1. Below \subseteq Nat
    OBVIOUS
  <2>2. PICK m \in Below : \A i \in Below : m <= i
    BY <2>1, Least
  <2>3. m \in 1..n /\ f[m] < m /\ f[m] \in 1..n
    OBVIOUS
  <2>4. m - 1 \in 1..n /\ m - 1 < m
    BY <2>3
  <2>5. f[m - 1] >= m - 1
    BY <2>2, <2>4
  <2>6. f[m - 1] < f[m] /\ f[m - 1] \in 1..n
    BY <2>3, <2>4
  <2> QED
    BY <2>3, <2>5, <2>6
<1>2. Above = {}
  <2> SUFFICES ASSUME Above # {} PROVE FALSE
    OBVIOUS
  <2> DEFINE Far == {n - i : i \in Above}
  <2>1. Far \subseteq Nat /\ Far # {}
    OBVIOUS
  <2>2. PICK d \in Far : \A e \in Far : d <= e
    BY <2>1, Least
  <2>3. PICK m \in Above : d = n - m
    BY <2>2
  <2>4. m \in 1..n /\ f[m] > m /\ f[m] \in 1..n
    BY <2>3
  <2>5. m + 1 \in 1..n /\ m < m + 1
    BY <2>4
  <2>6. m + 1 \notin Above
    <3> SUFFICES ASSUME m + 1 \in Above PROVE FALSE
      OBVIOUS
    <3>1. n - (m + 1) \in Far
      OBVIOUS
    <3>2. d <= n - (m + 1)
      BY <2>2, <3>1
    <3> HIDE DEF Far, Above
    <3> QED
      BY <2>3, <2>4, <3>2
  <2>7. f[m + 1] \in 1..n /\ f[m] < f[m + 1]
    BY <2>4, <2>5
  <2> QED
    BY <2>4, <2>5, <2>6, <2>7
<1> QED
  <2>1. f[k] \in 1..n /\ n - k \in Nat
    OBVIOUS
  <2>2. ~(f[k] < k) /\ ~(f[k] > k)
    BY <1>1, <1>2, <2>1
  <2> QED
    BY <2>1, <2>2

\* The candidate changes, the others do not.
LEMMA SkillReplaced ==
  ASSUME SkillsOK, NEW s \in 1..Len(skills), NEW r, skills' = [skills EXCEPT ![s] = r]
  PROVE  /\ Len(skills) \in Nat /\ Len(skills') = Len(skills)
         /\ \A t \in 1..Len(skills) : skills'[t] = IF t = s THEN r ELSE skills[t]
<1> DEFINE old == skills
           new == [old EXCEPT ![s] = r]
<1>1. IsSeq(old) /\ s \in 1..Len(old)
  BY DEF SkillsOK, SkillsTyped
<1>2. /\ Len(old) \in Nat
      /\ Len(new) = Len(old)
      /\ \A t \in 1..Len(old) : new[t] = IF t = s THEN r ELSE old[t]
  <2> HIDE DEF old
  <2> QED
    BY <1>1, Replaced
<1>3. skills' = new
  OBVIOUS
<1> HIDE DEF new
<1> QED
  BY <1>2, <1>3

\* What a release, or the guardrail, leaves as it was.
Kept(s) ==
  /\ skills'[s].cases = skills[s].cases
  /\ skills'[s].department = skills[s].department
  /\ skills'[s].replay = skills[s].replay

ReplayedTo(s) ==
  /\ skills[s].status \in {"draft", "evaluated"}
  /\ skills'[s].status = "evaluated"
  /\ skills'[s].cases = skills[s].cases
  /\ \E passed \in BOOLEAN :
       /\ skills'[s].replay = [passed |-> passed, binding |-> Binding(s)]
       /\ passed => Cardinality(Labelled(s)) >= MinCases

\* A candidate stays, is replayed, is released, or goes on in use till it is stopped.
Moves(s) ==
  \/ skills'[s] = skills[s]
  \/ ReplayedTo(s)
  \/ /\ skills[s].status = "evaluated" /\ skills'[s].status = "active"
     /\ Kept(s)
     /\ feedback' = feedback
  \/ /\ skills[s].status = "active" /\ skills'[s].status \in {"active", "rolled_back"}
     /\ Kept(s)

LEMMA OneMoves ==
  ASSUME SkillsOK, NEW s \in 1..Len(skills), NEW r, skills' = [skills EXCEPT ![s] = r],
         skills'[s] = r => Moves(s)
  PROVE  /\ Len(skills) \in Nat /\ Len(skills') = Len(skills)
         /\ \A t \in 1..Len(skills) : Moves(t)
<1>1. /\ Len(skills) \in Nat /\ Len(skills') = Len(skills)
      /\ \A t \in 1..Len(skills) : skills'[t] = IF t = s THEN r ELSE skills[t]
  BY SkillReplaced
<1>2. ASSUME NEW t \in 1..Len(skills) PROVE Moves(t)
  <2>1. CASE t = s
    BY <1>1, <2>1
  <2>2. CASE t # s
    BY <1>1, <2>2 DEF Moves
  <2> QED
    BY <2>1, <2>2
<1> QED
  BY <1>1, <1>2

LEMMA CandidatesMove ==
  ASSUME SkillsOK, [Next]_vars
  PROVE  /\ Len(skills) \in Nat /\ Len(skills') \in Nat
         /\ Len(skills) <= Len(skills')
         /\ \A s \in 1..Len(skills) : Moves(s)
         /\ \A s \in 1..Len(skills') : s \notin 1..Len(skills) => skills'[s].status = "draft"
<1>0. /\ Len(skills) \in Nat /\ IsSeq(skills) /\ DOMAIN skills = 1..Len(skills)
      /\ \A s \in 1..Len(skills) : DOMAIN skills[s] = SkillFields
  BY LenProperties DEF SkillsOK, SkillsTyped, IsSeq, SkillFields
<1>1. CASE skills' = skills
  BY <1>0, <1>1 DEF Moves
<1>2. ASSUME NEW s, skills[s].status = "active", skills' = Stopped(s)
      PROVE  /\ Len(skills') = Len(skills)
             /\ \A t \in 1..Len(skills) : Moves(t)
  <2>1. CASE s \in 1..Len(skills)
    <3>1. PICK r : r = [skills[s] EXCEPT !.status = "rolled_back", !.rollout = 0]
      OBVIOUS
    <3>2. skills' = [skills EXCEPT ![s] = r]
      BY <1>0, <1>2, <2>1, <3>1 DEF Stopped
    <3>3. /\ r.status = "rolled_back" /\ r.cases = skills[s].cases
          /\ r.department = skills[s].department /\ r.replay = skills[s].replay
      BY <1>0, <2>1, <3>1 DEF SkillFields
    <3>4. skills'[s] = r => Moves(s)
      BY <1>2, <3>3 DEF Moves, Kept
    <3> QED
      BY <2>1, <3>2, <3>4, OneMoves
  <2>2. CASE s \notin 1..Len(skills)
    <3>1. skills' = skills
      <4>1. skills \in [1..Len(skills) -> {skills[i] : i \in 1..Len(skills)}]
        BY <1>0, LenProperties DEF IsSeq
      <4> QED
        BY <1>2, <2>2, <4>1 DEF Stopped
    <3> QED
      BY <3>1 DEF Moves
  <2> QED
    BY <2>1, <2>2
<1>3. ASSUME NEW who \in Principals, NEW cases, Propose(who, cases)
      PROVE  /\ Len(skills') = Len(skills) + 1
             /\ \A s \in 1..Len(skills) : skills'[s] = skills[s]
             /\ skills'[Len(skills) + 1].status = "draft"
  <2>1. PICK r : skills' = Append(skills, r) /\ r.status = "draft"
    BY <1>3 DEF Propose
  <2> QED
    BY <1>0, <2>1, Appended
<1>4. ASSUME NEW who \in Principals, NEW s \in 1..Len(skills), NEW passed \in BOOLEAN,
             Replay(who, s, passed)
      PROVE  /\ Len(skills') = Len(skills)
             /\ \A t \in 1..Len(skills) : Moves(t)
  <2>1. PICK v : v = [passed |-> passed, binding |-> Binding(s)]
    OBVIOUS
  <2>2. PICK r : r = [skills[s] EXCEPT !.status = "evaluated", !.replay = v]
    OBVIOUS
  <2>3. skills' = [skills EXCEPT ![s] = r]
    BY <1>0, <1>4, <2>1, <2>2 DEF Replay
  <2>4. r.status = "evaluated" /\ r.cases = skills[s].cases /\ r.replay = v
    BY <1>0, <2>2 DEF SkillFields
  <2>5. skills'[s] = r => ReplayedTo(s)
    BY <1>4, <2>1, <2>4, Zenon DEF Replay, ReplayedTo
  <2>6. skills'[s] = r => Moves(s)
    BY <2>5 DEF Moves
  <2> QED
    BY <2>3, <2>6, OneMoves
<1>5. ASSUME NEW who \in Principals, NEW s \in 1..Len(skills), Canary(who, s)
      PROVE  /\ Len(skills') = Len(skills)
             /\ \A t \in 1..Len(skills) : Moves(t)
  <2>1. PICK r : r = [skills[s] EXCEPT !.status = "active", !.rollout = 5,
                                       !.reviewer = who.username]
    OBVIOUS
  <2>2. skills' = [skills EXCEPT ![s] = r] /\ feedback' = feedback
        /\ skills[s].status = "evaluated"
    BY <1>0, <1>5, <2>1 DEF Canary
  <2>3. /\ r.status = "active" /\ r.cases = skills[s].cases
        /\ r.department = skills[s].department /\ r.replay = skills[s].replay
    BY <1>0, <2>1 DEF SkillFields
  <2>4. skills'[s] = r => Moves(s)
    BY <2>2, <2>3 DEF Moves, Kept
  <2> QED
    BY <2>2, <2>4, OneMoves
<1>6. ASSUME NEW who \in Principals, NEW s \in 1..Len(skills), Promote(who, s)
      PROVE  /\ Len(skills') = Len(skills)
             /\ \A t \in 1..Len(skills) : Moves(t)
  <2>1. PICK r : r = [skills[s] EXCEPT !.rollout = NextStep(skills[s].rollout)]
    OBVIOUS
  <2>2. skills' = [skills EXCEPT ![s] = r] /\ skills[s].status = "active"
    BY <1>0, <1>6, <2>1 DEF Promote
  <2>3. /\ r.status = "active" /\ r.cases = skills[s].cases
        /\ r.department = skills[s].department /\ r.replay = skills[s].replay
    BY <1>0, <2>1, <2>2 DEF SkillFields
  <2>4. skills'[s] = r => Moves(s)
    BY <2>2, <2>3 DEF Moves, Kept
  <2> QED
    BY <2>2, <2>4, OneMoves
<1>7. ASSUME NEW who \in Principals, NEW s \in 1..Len(skills), Rollback(who, s)
      PROVE  /\ Len(skills') = Len(skills)
             /\ \A t \in 1..Len(skills) : Moves(t)
  BY <1>2, <1>7 DEF Rollback
<1>8. CASE /\ Len(skills') = Len(skills)
           /\ \A t \in 1..Len(skills) : Moves(t)
  BY <1>0, <1>8
<1>9. CASE \E who \in Principals : \E cases : Propose(who, cases)
  <2>1. /\ Len(skills') = Len(skills) + 1
        /\ \A s \in 1..Len(skills) : Moves(s)
        /\ skills'[Len(skills) + 1].status = "draft"
    BY <1>3, <1>9 DEF Moves
  <2> QED
    BY <1>0, <2>1
<1> QED
  BY <1>1, <1>2, <1>4, <1>5, <1>6, <1>7, <1>8, <1>9, SkillsChange

LEMMA AnswersChange ==
  ASSUME [Next]_vars
  PROVE  \/ UNCHANGED <<conversations, chat, context, feedback>>
         \/ \E q \in Chats : SaveAnswer(q) \/ Abandon(q)
         \/ \E who \in Principals, c \in Chats :
              \/ Forget(who, c)
              \/ \E q \in Chats, d \in Departments : \E sources :
                   Prepare(q, who, c, d, sources)
              \/ \E i \in 1..MaxRounds, resolved \in BOOLEAN, category \in Categories,
                    expected \in SUBSET (1..Len(documents)) :
                   GiveFeedback(who, c, i, resolved, category, expected)
<1>1. CASE UNCHANGED vars
  BY <1>1 DEF vars, store, requests
<1>2. CASE NextDay
  BY <1>2 DEF NextDay, store, requests
<1>3. CASE Documents
  BY <1>3 DEF Documents, Submit, Reject, Publish, requests
<1>4. CASE Conversing
  BY <1>4 DEF Conversing
<1>5. CASE Feeding
  BY <1>5 DEF Feeding
<1>6. CASE Releasing
  <2>1. \A cases : \A who \in Principals :
          Propose(who, cases) => UNCHANGED <<conversations, feedback, requests>>
    BY DEF Propose
  <2>2. \A s, passed : \A who \in Principals :
          Replay(who, s, passed) => UNCHANGED <<conversations, feedback, requests>>
    BY DEF Replay
  <2>3. \A s : \A who \in Principals :
          Canary(who, s) \/ Promote(who, s) \/ Rollback(who, s) =>
            UNCHANGED <<conversations, feedback, requests>>
    BY DEF Canary, Promote, Rollback
  <2>4. UNCHANGED <<conversations, feedback, requests>>
    BY <1>6, <2>1, <2>2, <2>3 DEF Releasing
  <2> QED BY <2>4 DEF requests
<1> QED
  BY <1>1, <1>2, <1>3, <1>4, <1>5, <1>6 DEF Next

\* Who was released stays so.
LEMMA KnownStay ==
  ASSUME SkillsOK, [Next]_vars, NEW policy, Known(policy)
  PROVE  Known(policy)'
<1>1. /\ Len(skills) \in Nat /\ Len(skills') \in Nat /\ Len(skills) <= Len(skills')
      /\ \A s \in 1..Len(skills) : Moves(s)
  BY CandidatesMove
<1>2. CASE policy.skill = 0
  BY <1>2 DEF Known
<1>3. CASE policy.skill # 0
  <2>1. /\ policy.skill \in 1..Len(skills)
        /\ skills[policy.skill].status \in {"active", "rolled_back"}
    BY <1>3 DEF Known
  <2>2. Moves(policy.skill)
    BY <1>1, <2>1
  <2>3. skills'[policy.skill].status \in {"active", "rolled_back"}
    BY <2>1, <2>2 DEF Moves, ReplayedTo
  <2>4. policy.skill \in 1..Len(skills')
    BY <1>1, <2>1
  <2> QED
    BY <2>1, <2>3, <2>4 DEF Known
<1> QED
  BY <1>2, <1>3

\* Who is served a candidate is served one in use.
LEMMA PolicyKnown ==
  ASSUME SkillsOK, NEW owner, NEW department
  PROVE  LET p == Policy(owner, department)
         IN  /\ Known(p)
             /\ p.skill # 0 => p.skill \in Serving(department)
<1> DEFINE S == Serving(department)
           p == Policy(owner, department)
<1>0. Len(skills) \in Nat
  BY LenProperties DEF SkillsOK, SkillsTyped, IsSeq
<1>1. CASE S = {}
  BY <1>1 DEF Policy, Known
<1>2. CASE S # {}
  <2>1. S \in SUBSET Nat
    BY <1>0 DEF Serving
  <2>2. \E s \in S : \A r \in S : s <= r
    BY <1>2, <2>1, Least
  <2>3. PICK s : s = CHOOSE t \in S : \A r \in S : t <= r
    OBVIOUS
  <2>4. s \in S
    BY <2>2, <2>3
  <2>5. p = [skill |-> s, group |-> IF Bucket(owner, s) < skills[s].rollout
                                    THEN "treatment" ELSE "control"]
    BY <1>2, <2>3 DEF Policy
  <2>6. p.skill = s
    BY <2>5
  <2>7. s \in 1..Len(skills) /\ skills[s].status = "active"
    BY <2>4 DEF Serving
  <2> QED
    BY <2>4, <2>6, <2>7 DEF Known
<1> QED
  BY <1>1, <1>2

\* As long as conversations stand and requests do not go on.
LEMMA TurnsStand ==
  ASSUME TurnsOK, SkillsOK, [Next]_vars, UNCHANGED <<conversations, chat, context>>
  PROVE  TurnsOK'
<1>1. \A policy : Known(policy) => Known(policy)'
  BY KnownStay
<1> QED
  BY <1>1 DEF TurnsOK, Present

LEMMA TurnsPrepared ==
  ASSUME TurnsOK, SkillsOK, ConversationsOK, [Next]_vars,
         NEW q \in Chats, NEW who \in Principals, NEW c \in Chats, NEW d \in Departments,
         NEW sources, Prepare(q, who, c, d, sources)
  PROVE  TurnsOK'
<1>1. /\ UNCHANGED <<conversations, skills>>
      /\ chat[q] = "unused" /\ chat' = [chat EXCEPT ![q] = "underway"]
      /\ \A r \in Chats : r # q => context'[r] = context[r]
      /\ context'[q].policy = Policy(who.owner, d)
      /\ DOMAIN chat = Chats
  BY DEF Prepare, store, ConversationsOK, RequestsTyped
<1>2. \A r \in Chats : chat'[r] = IF r = q THEN "underway" ELSE chat[r]
  BY <1>1
<1>3. \A policy : Known(policy) => Known(policy)'
  BY KnownStay
<1>4. PICK p : p = Policy(who.owner, d)
  OBVIOUS
<1>5. Known(p)'
  BY <1>3, <1>4, PolicyKnown
<1>6. ASSUME NEW r \in Chats, chat'[r] = "underway" PROVE Known(context[r].policy)'
  <2>1. CASE r = q
    BY <1>1, <1>4, <1>5, <2>1 DEF Known
  <2>2. CASE r # q
    <3>1. Known(context[r].policy)
      BY <1>2, <1>6, <2>2 DEF TurnsOK
    <3>2. UNCHANGED skills /\ context'[r] = context[r]
      BY <1>1, <2>2
    <3> QED
      BY <3>1, <3>2 DEF Known
  <2> QED
    BY <2>1, <2>2
<1> QED
  BY <1>1, <1>2, <1>3, <1>6 DEF TurnsOK, Present

LEMMA TurnsAbandoned ==
  ASSUME TurnsOK, SkillsOK, ConversationsOK, [Next]_vars, NEW q \in Chats, Abandon(q)
  PROVE  TurnsOK'
<1>1. /\ UNCHANGED <<conversations, skills>>
      /\ chat[q] = "underway" /\ chat' = [chat EXCEPT ![q] = "failed"]
      /\ \A r \in Chats : r # q => context'[r] = context[r]
      /\ DOMAIN chat = Chats
  BY DEF Abandon, store, ConversationsOK, RequestsTyped
<1>2. \A r \in Chats : chat'[r] = IF r = q THEN "failed" ELSE chat[r]
  BY <1>1
<1>3. \A policy : Known(policy) => Known(policy)'
  BY KnownStay
<1> QED
  BY <1>1, <1>2, <1>3 DEF TurnsOK, Present

LEMMA TurnsForgotten ==
  ASSUME TurnsOK, SkillsOK, ConversationsOK, [Next]_vars, NEW who \in Principals,
         NEW c \in Chats, Forget(who, c)
  PROVE  TurnsOK'
<1>1. UNCHANGED <<chat, context>> /\ conversations' = [conversations EXCEPT ![c] = None]
      /\ DOMAIN conversations = Chats
  BY DEF Forget, requests, ConversationsOK, ConversationsTyped
<1>2. \A k \in Chats : Present(k)' => k # c /\ Present(k) /\ conversations'[k] = conversations[k]
  BY <1>1 DEF Present
<1>3. \A policy : Known(policy) => Known(policy)'
  BY KnownStay
<1> QED
  BY <1>1, <1>2, <1>3 DEF TurnsOK

\* The turn stands behind the n that were there.
Added(q, c, n) ==
  /\ Len(conversations'[c].turns) = n + 1
  /\ conversations'[c].turns[n + 1] = Turn(q)
  /\ Present(c) => n = Len(conversations[c].turns)
  /\ ~Present(c) => n = 0
  /\ \A i \in 1..n : conversations'[c].turns[i] = conversations[c].turns[i]

\* What an answer that is saved does to the conversations.
LEMMA TurnAdded ==
  ASSUME NoneIsNoRow, ConversationsOK, NEW q \in Chats, SaveAnswer(q),
         NEW c, c = context[q].conversation
  PROVE  /\ c \in Chats /\ Present(c)'
         /\ \A k \in Chats : k # c => conversations'[k] = conversations[k]
         /\ \E n \in Nat : Added(q, c, n)
<1>1. PICK row : row = IF Present(c) THEN conversations[c]
                       ELSE [owner |-> context[q].owner, revision |-> 0, turns |-> <<>>]
  OBVIOUS
<1>2. PICK new : new = [row EXCEPT !.revision = @ + 1, !.turns = Append(@, Turn(q))]
  OBVIOUS
<1>3. conversations' = [conversations EXCEPT ![c] = new] /\ chat[q] = "underway"
  BY <1>1, <1>2 DEF SaveAnswer
<1>4. c \in Chats /\ DOMAIN conversations = Chats
  BY <1>3 DEF ConversationsOK, RequestsTyped, ConversationsTyped
<1>5. DOMAIN row = {"owner", "revision", "turns"} /\ IsSeq(row.turns)
  <2>1. CASE Present(c)
    BY <1>1, <1>4, <2>1 DEF ConversationsOK, ConversationsTyped
  <2>2. CASE ~Present(c)
    BY <1>1, <2>2 DEF IsSeq
  <2> QED
    BY <2>1, <2>2
<1>6. new.turns = Append(row.turns, Turn(q))
  BY <1>2, <1>5
<1>7. /\ Len(row.turns) \in Nat /\ Len(new.turns) = Len(row.turns) + 1
      /\ \A i \in 1..Len(row.turns) : new.turns[i] = row.turns[i]
      /\ new.turns[Len(row.turns) + 1] = Turn(q)
  BY <1>5, <1>6, Appended
<1>8. conversations'[c] = new /\ \A k \in Chats : k # c => conversations'[k] = conversations[k]
  BY <1>3, <1>4
<1>9. Present(c)'
  <2>1. PICK o, r, t : new = [owner |-> o, revision |-> r, turns |-> t]
    <3>1. new = [owner |-> row.owner, revision |-> row.revision + 1,
                 turns |-> Append(row.turns, Turn(q))]
      BY <1>2, <1>5
    <3> QED
      BY <3>1
  <2> QED
    BY <1>8, <2>1 DEF Present, NoneIsNoRow
<1>10. /\ Present(c) => Len(row.turns) = Len(conversations[c].turns)
                         /\ row.turns = conversations[c].turns
       /\ ~Present(c) => Len(row.turns) = 0
  BY <1>1
<1>11. \A i \in 1..Len(row.turns) : conversations'[c].turns[i] = conversations[c].turns[i]
  BY <1>7, <1>8, <1>10
<1>12. Added(q, c, Len(row.turns))
  BY <1>7, <1>8, <1>10, <1>11 DEF Added
<1> QED
  BY <1>4, <1>7, <1>8, <1>9, <1>12

LEMMA TurnsSaved ==
  ASSUME NoneIsNoRow, TurnsOK, SkillsOK, ConversationsOK, [Next]_vars,
         NEW q \in Chats, SaveAnswer(q)
  PROVE  TurnsOK'
<1>1. PICK c : c = context[q].conversation
  OBVIOUS
<1>2. /\ c \in Chats /\ Present(c)'
      /\ \A k \in Chats : k # c => conversations'[k] = conversations[k]
      /\ \E n \in Nat : Added(q, c, n)
  BY <1>1, TurnAdded
<1>3. PICK n \in Nat :
        /\ Len(conversations'[c].turns) = n + 1
        /\ conversations'[c].turns[n + 1] = Turn(q)
        /\ Present(c) => n = Len(conversations[c].turns)
        /\ ~Present(c) => n = 0
        /\ \A i \in 1..n : conversations'[c].turns[i] = conversations[c].turns[i]
  BY <1>2 DEF Added
<1>4. PICK p : p = context[q].policy
  OBVIOUS
<1>5. /\ chat[q] = "underway" /\ chat' = [chat EXCEPT ![q] = "saved"]
      /\ \A r \in Chats : r # q => context'[r] = context[r]
      /\ UNCHANGED skills
      /\ Turn(q).chat = q /\ Turn(q).policy = p
      /\ DOMAIN chat = Chats
  BY <1>4 DEF SaveAnswer, ConversationsOK, RequestsTyped, Turn
<1>6. \A r \in Chats : chat'[r] = IF r = q THEN "saved" ELSE chat[r]
  BY <1>5
<1>7. \A policy : Known(policy) => Known(policy)'
  BY KnownStay
<1>8. Known(p)'
  BY <1>4, <1>5, <1>7 DEF TurnsOK
\* A turn is the one that was added, or one that stood, by another request.
<1>9. ASSUME NEW k \in Chats, Present(k)', NEW i \in 1..Len(conversations'[k].turns)
      PROVE  \/ /\ k = c /\ i = n + 1 /\ conversations'[k].turns[i] = Turn(q)
             \/ /\ Present(k) /\ i \in 1..Len(conversations[k].turns)
                /\ conversations'[k].turns[i] = conversations[k].turns[i]
  <2>1. CASE k # c
    <3>1. conversations'[k] = conversations[k]
      BY <1>2, <2>1
    <3> QED
      BY <1>9, <3>1 DEF Present
  <2>2. CASE k = c
    <3>1. i \in 1..(n + 1)
      BY <1>3, <2>2
    <3>2. CASE i = n + 1
      BY <1>3, <2>2, <3>2
    <3>3. CASE i # n + 1
      <4>1. i \in 1..n /\ n # 0
        BY <3>1, <3>3
      <4> QED
        BY <1>3, <2>2, <4>1
    <3> QED
      BY <3>2, <3>3
  <2> QED
    BY <2>1, <2>2
<1>10. ASSUME NEW k \in Chats, Present(k)', NEW i \in 1..Len(conversations'[k].turns)
       PROVE  /\ conversations'[k].turns[i].chat \in Chats
              /\ chat'[conversations'[k].turns[i].chat] = "saved"
              /\ Known(conversations[k].turns[i].policy)'
  <2>1. CASE conversations'[k].turns[i] = Turn(q)
    BY <1>5, <1>6, <1>8, <2>1 DEF Known
  <2>2. CASE /\ Present(k) /\ i \in 1..Len(conversations[k].turns)
             /\ conversations'[k].turns[i] = conversations[k].turns[i]
    <3>1. PICK t : t = conversations[k].turns[i]
      OBVIOUS
    <3>2. t.chat \in Chats /\ chat[t.chat] = "saved" /\ Known(t.policy)
      BY <2>2, <3>1 DEF TurnsOK
    <3>3. PICK policy : policy = t.policy
      OBVIOUS
    <3>4. Known(policy)'
      BY <1>7, <3>2, <3>3
    <3>5. chat'[t.chat] = "saved"
      BY <1>6, <3>2
    <3> QED
      BY <2>2, <3>1, <3>2, <3>3, <3>4, <3>5 DEF Known
  <2> QED
    BY <1>9, <1>10, <2>1, <2>2
<1>11. ASSUME NEW k \in Chats, Present(k), NEW i \in 1..Len(conversations[k].turns)
       PROVE  conversations[k].turns[i].chat # q
  BY <1>5, <1>11 DEF TurnsOK
<1>12. ASSUME NEW k \in Chats, NEW l \in Chats, Present(k)', Present(l)',
              NEW i \in 1..Len(conversations'[k].turns),
              NEW j \in 1..Len(conversations'[l].turns),
              conversations'[k].turns[i].chat = conversations'[l].turns[j].chat
       PROVE  k = l /\ i = j
  <2>1. CASE conversations'[k].turns[i] = Turn(q) \/ conversations'[l].turns[j] = Turn(q)
    <3>1. conversations'[k].turns[i].chat = q /\ conversations'[l].turns[j].chat = q
      BY <1>5, <1>12, <2>1
    <3> QED
      BY <1>9, <1>11, <1>12, <3>1
  <2>2. CASE conversations'[k].turns[i] # Turn(q) /\ conversations'[l].turns[j] # Turn(q)
    <3>1. /\ Present(k) /\ i \in 1..Len(conversations[k].turns)
          /\ Present(l) /\ j \in 1..Len(conversations[l].turns)
          /\ conversations[k].turns[i].chat = conversations[l].turns[j].chat
      BY <1>9, <1>12, <2>2
    <3> QED
      BY <3>1 DEF TurnsOK
  <2> QED
    BY <2>1, <2>2
<1>13. ASSUME NEW r \in Chats, chat'[r] = "underway" PROVE Known(context[r].policy)'
  <2>1. r # q /\ chat[r] = "underway" /\ context'[r] = context[r]
    BY <1>5, <1>6, <1>13
  <2>2. Known(context[r].policy)
    BY <2>1 DEF TurnsOK
  <2> QED
    BY <1>5, <2>1, <2>2 DEF Known
<1> QED
  BY <1>10, <1>12, <1>13 DEF TurnsOK

\* As long as the answers stand there.
LEMMA FeedbackStands ==
  ASSUME FeedbackOK, feedback' = feedback,
         \A c \in Chats : Present(c) =>
           /\ Present(c)'
           /\ \A i \in 1..Len(conversations[c].turns) :
                /\ i \in 1..Len(conversations'[c].turns)
                /\ conversations'[c].turns[i] = conversations[c].turns[i]
  PROVE  FeedbackOK'
<1>1. IsSeq(feedback)'
  BY DEF FeedbackOK, IsSeq
<1>2. ASSUME NEW i \in 1..Len(feedback)
      PROVE  LET c == feedback[i].conversation
             IN  /\ feedback[i] # None /\ c \in Chats /\ Present(c)'
                 /\ \E j \in 1..Len(conversations'[c].turns) :
                      /\ conversations'[c].turns[j].chat = feedback[i].turn
                      /\ conversations'[c].turns[j].policy = feedback[i].policy
  <2>1. PICK c : c = feedback[i].conversation
    OBVIOUS
  <2>2. feedback[i] # None /\ c \in Chats /\ Present(c)
    BY <2>1 DEF FeedbackOK
  <2>3. PICK j \in 1..Len(conversations[c].turns) :
          /\ conversations[c].turns[j].chat = feedback[i].turn
          /\ conversations[c].turns[j].policy = feedback[i].policy
    BY <2>1 DEF FeedbackOK
  <2>4. Present(c)' /\ j \in 1..Len(conversations'[c].turns)
        /\ conversations'[c].turns[j] = conversations[c].turns[j]
    BY <2>2
  <2> QED
    BY <2>1, <2>2, <2>3, <2>4
<1> QED
  BY <1>1, <1>2 DEF FeedbackOK, Present

LEMMA FeedbackSaved ==
  ASSUME NoneIsNoRow, FeedbackOK, ConversationsOK, NEW q \in Chats, SaveAnswer(q)
  PROVE  FeedbackOK'
<1>1. PICK c : c = context[q].conversation
  OBVIOUS
<1>2. /\ c \in Chats /\ Present(c)'
      /\ \A k \in Chats : k # c => conversations'[k] = conversations[k]
      /\ \E n \in Nat : Added(q, c, n)
  BY <1>1, TurnAdded
<1>3. PICK n \in Nat :
        /\ Len(conversations'[c].turns) = n + 1
        /\ Present(c) => n = Len(conversations[c].turns)
        /\ \A i \in 1..n : conversations'[c].turns[i] = conversations[c].turns[i]
  BY <1>2 DEF Added
<1>4. ASSUME NEW k \in Chats, Present(k)
      PROVE  /\ Present(k)'
             /\ \A i \in 1..Len(conversations[k].turns) :
                  /\ i \in 1..Len(conversations'[k].turns)
                  /\ conversations'[k].turns[i] = conversations[k].turns[i]
  <2>1. CASE k = c
    BY <1>2, <1>3, <1>4, <2>1
  <2>2. CASE k # c
    BY <1>2, <1>4, <2>2 DEF Present
  <2> QED
    BY <2>1, <2>2
<1>5. feedback' = feedback
  BY DEF SaveAnswer
<1> QED
  BY <1>4, <1>5, FeedbackStands

LEMMA SameInterval ==
  ASSUME NEW a \in Nat, NEW b \in Nat, 1..a = 1..b
  PROVE  a = b
<1>1. a = 0 \/ a \in 1..a
  OBVIOUS
<1>2. b = 0 \/ b \in 1..b
  OBVIOUS
<1>3. a = 0 \/ a <= b
  BY <1>1
<1>4. b = 0 \/ b <= a
  BY <1>2
<1> QED
  BY <1>3, <1>4

\* A deletion keeps the feedback on other conversations, all of it if it keeps its
\* number.
LEMMA OthersStay ==
  ASSUME FeedbackOK, NEW who, NEW c, Forget(who, c)
  PROVE  /\ Len(feedback) \in Nat /\ Len(feedback') \in Nat
         /\ Len(feedback') <= Len(feedback)
         /\ IsSeq(feedback')
         /\ \A i \in 1..Len(feedback') : \E j \in Others(c) : feedback'[i] = feedback[j]
         /\ Len(feedback') = Len(feedback) => feedback' = feedback
<1>1. PICK f \in InOrder(Others(c)) : feedback' = [i \in DOMAIN f |-> feedback[f[i]]]
  BY DEF Forget
<1>2. Len(feedback) \in Nat /\ feedback = [i \in 1..Len(feedback) |-> feedback[i]]
  BY LenProperties DEF FeedbackOK, IsSeq
<1>3. PICK n : n = Len(feedback)
  OBVIOUS
<1>4. n \in Nat /\ Others(c) \subseteq 1..n
  BY <1>2, <1>3 DEF Others
<1>5. /\ IsFiniteSet(1..n) /\ Cardinality(1..n) = n
      /\ IsFiniteSet(Others(c)) /\ Cardinality(Others(c)) \in Nat
      /\ Cardinality(Others(c)) <= n
      /\ Cardinality(Others(c)) = n => Others(c) = 1..n
  <2>1. IsFiniteSet(1..n) /\ Cardinality(1..n) = n
    BY <1>4, FS_Interval
  <2>2. /\ IsFiniteSet(Others(c)) /\ Cardinality(Others(c)) <= Cardinality(1..n)
        /\ Cardinality(Others(c)) = Cardinality(1..n) => Others(c) = 1..n
    BY <1>4, <2>1, FS_Subset
  <2>3. Cardinality(Others(c)) \in Nat
    BY <2>2, FS_CardinalityType
  <2> QED
    BY <2>1, <2>2, <2>3
<1>6. PICK m : m = Cardinality(Others(c))
  OBVIOUS
<1>7. /\ m \in Nat /\ f \in [1..m -> Others(c)]
      /\ \A i, j \in 1..m : i < j => f[i] < f[j]
  BY <1>5, <1>6 DEF InOrder
<1>8. feedback' = [i \in 1..m |-> feedback[f[i]]]
  BY <1>1, <1>7
<1>9. PICK new : new = feedback'
  OBVIOUS
<1>10. IsSeq(new) /\ Len(new) = m /\ \A i \in 1..m : new[i] = feedback[f[i]]
  <2>1. new = [i \in 1..m |-> feedback[f[i]]]
    BY <1>8, <1>9
  <2>2. Len(new) = m
    <3>1. new \in Seq({feedback[f[i]] : i \in 1..m})
      BY <1>7, <2>1
    <3>2. DOMAIN new = 1..Len(new) /\ Len(new) \in Nat /\ DOMAIN new = 1..m
      BY <2>1, <3>1, LenProperties
    <3> QED
      BY <1>7, <3>2, SameInterval
  <2>3. new \in [1..m -> {new[i] : i \in 1..m}]
    BY <2>1
  <2>4. new \in Seq({new[i] : i \in 1..m})
    BY <1>7, <2>3
  <2> QED
    BY <2>1, <2>2, <2>4 DEF IsSeq
<1>11. CASE m = n
  <2>1. f \in [1..n -> 1..n]
    BY <1>5, <1>6, <1>7, <1>11
  <2>2. \A k \in 1..n : f[k] = k
    BY <1>4, <1>7, <1>11, <2>1, InOrderOfAll
  <2>3. feedback' = [i \in 1..n |-> feedback[i]]
    BY <1>8, <1>11, <2>2
  <2>4. feedback' = feedback
    BY <1>2, <1>3, <2>3
  <2> QED
    BY <1>3, <1>4, <1>5, <1>6, <1>7, <1>9, <1>10, <2>4
<1>12. CASE m # n
  BY <1>3, <1>4, <1>5, <1>6, <1>7, <1>9, <1>10, <1>12
<1> QED
  BY <1>11, <1>12

LEMMA FeedbackForgotten ==
  ASSUME FeedbackOK, ConversationsOK, NEW who \in Principals, NEW c \in Chats, Forget(who, c)
  PROVE  FeedbackOK'
<1>1. \A k \in Chats : k # c => conversations'[k] = conversations[k]
  BY DEF Forget, ConversationsOK, ConversationsTyped
<1>2. IsSeq(feedback')
  BY OthersStay
<1>3. PICK new : new = feedback'
  OBVIOUS
<1>4. ASSUME NEW i \in 1..Len(new)
      PROVE  /\ new[i] # None /\ new[i].conversation \in Chats
             /\ conversations'[new[i].conversation] # None
             /\ \E j \in 1..Len(conversations'[new[i].conversation].turns) :
                  /\ conversations'[new[i].conversation].turns[j].chat = new[i].turn
                  /\ conversations'[new[i].conversation].turns[j].policy = new[i].policy
  <2>1. PICK j \in Others(c) : new[i] = feedback[j]
    BY <1>3, <1>4, OthersStay
  <2>2. PICK k : k = new[i].conversation
    OBVIOUS
  <2>3. j \in 1..Len(feedback) /\ k # c
    BY <2>1, <2>2 DEF Others
  <2>4. new[i] # None /\ k \in Chats /\ conversations[k] # None
    BY <2>1, <2>2, <2>3 DEF FeedbackOK, Present
  <2>5. \E l \in 1..Len(conversations[k].turns) :
          /\ conversations[k].turns[l].chat = new[i].turn
          /\ conversations[k].turns[l].policy = new[i].policy
    BY <2>1, <2>2, <2>3 DEF FeedbackOK
  <2>6. conversations'[k] = conversations[k]
    BY <1>1, <2>3, <2>4
  <2>7. \E l \in 1..Len(conversations'[k].turns) :
          /\ conversations'[k].turns[l].chat = new[i].turn
          /\ conversations'[k].turns[l].policy = new[i].policy
    BY <2>5, <2>6
  <2> QED
    BY <2>2, <2>4, <2>6, <2>7
<1> QED
  BY <1>2, <1>3, <1>4 DEF FeedbackOK, Present

\* What is given on the i-th answer of a conversation.
GivenOn(f, c, i) ==
  /\ f # None
  /\ f.conversation = c
  /\ Present(c) /\ i \in 1..Len(conversations[c].turns)
  /\ f.turn = conversations[c].turns[i].chat
  /\ f.policy = conversations[c].turns[i].policy

\* It takes the place of what was given before, or is added.
Recorded(f) ==
  IF Place(f.turn) # {}
  THEN feedback' = [j \in 1..Len(feedback) |-> IF j \in Place(f.turn) THEN f ELSE feedback[j]]
  ELSE feedback' = Append(feedback, f)

LEMMA FeedbackIsGiven ==
  ASSUME NoneIsNoRow, NEW who, NEW c, NEW i, NEW resolved, NEW category, NEW expected,
         GiveFeedback(who, c, i, resolved, category, expected)
  PROVE  /\ \E f : GivenOn(f, c, i) /\ Recorded(f) /\ skills' = Guarded(feedback', f)
         /\ UNCHANGED <<conversations, chat, context>>
<1>1. PICK turn : turn = conversations[c].turns[i]
  OBVIOUS
<1>2. PICK stamp : stamp = IF Exists(turn.chat) THEN FeedbackOn(turn.chat).stamp + 1 ELSE 1
  OBVIOUS
<1>3. PICK f : f = [turn |-> turn.chat, conversation |-> c, owner |-> who.owner,
                    resolved |-> resolved, category |-> category,
                    expected |-> expected, department |-> turn.department,
                    policy |-> turn.policy, stamp |-> stamp]
  OBVIOUS
<1>4. f # None
  BY <1>3 DEF NoneIsNoRow
<1>5. f.conversation = c /\ f.turn = turn.chat /\ f.policy = turn.policy
  BY <1>3
<1>6. /\ Present(c) /\ i \in 1..Len(conversations[c].turns)
      /\ UNCHANGED <<conversations, chat, context>>
      /\ feedback' = IF Exists(turn.chat)
                     THEN [j \in 1..Len(feedback) |-> IF j \in Place(turn.chat) THEN f ELSE feedback[j]]
                     ELSE Append(feedback, f)
      /\ skills' = Guarded(feedback', f)
  BY <1>1, <1>2, <1>3 DEF GiveFeedback, requests
<1>7. GivenOn(f, c, i)
  BY <1>1, <1>4, <1>5, <1>6 DEF GivenOn
<1>8. Recorded(f)
  BY <1>5, <1>6 DEF Recorded, Exists
<1> QED
  BY <1>6, <1>7, <1>8

\* The records are those there were, or the one that was given.
LEMMA FeedbackRecorded ==
  ASSUME FeedbackOK, NEW f, Recorded(f)
  PROVE  /\ Len(feedback) \in Nat /\ Len(feedback') \in Nat /\ IsSeq(feedback')
         /\ \A j \in 1..Len(feedback') :
              \/ feedback'[j] = f
              \/ j \in 1..Len(feedback) \ Place(f.turn) /\ feedback'[j] = feedback[j]
         /\ \A j \in 1..Len(feedback) \ Place(f.turn) :
              j \in 1..Len(feedback') /\ feedback'[j] = feedback[j]
<1>1. IsSeq(feedback) /\ Len(feedback) \in Nat
  BY LenProperties DEF FeedbackOK, IsSeq
<1>2. CASE Place(f.turn) # {}
  <2>1. PICK n : n = Len(feedback)
    OBVIOUS
  <2>2. PICK new : new = feedback'
    OBVIOUS
  <2>3. new = [j \in 1..n |-> IF j \in Place(f.turn) THEN f ELSE feedback[j]]
    BY <1>2, <2>1, <2>2 DEF Recorded
  <2>4. n \in Nat
    BY <1>1, <2>1
  <2>5. new \in [1..n -> {new[j] : j \in 1..n}]
    BY <2>3
  <2>6. new \in Seq({new[j] : j \in 1..n})
    BY <2>4, <2>5
  <2>7. Len(new) = n
    <3>1. DOMAIN new = 1..Len(new) /\ Len(new) \in Nat /\ DOMAIN new = 1..n
      BY <2>3, <2>6, LenProperties
    <3> QED
      BY <2>4, <3>1, SameInterval
  <2>8. IsSeq(new)
    BY <2>6, <2>7 DEF IsSeq
  <2> QED
    BY <2>1, <2>2, <2>3, <2>4, <2>7, <2>8
<1>3. CASE Place(f.turn) = {}
  <2>1. feedback' = Append(feedback, f)
    BY <1>3 DEF Recorded
  <2>2. /\ IsSeq(feedback') /\ Len(feedback') = Len(feedback) + 1
        /\ \A j \in 1..Len(feedback) : feedback'[j] = feedback[j]
        /\ feedback'[Len(feedback) + 1] = f
    BY <1>1, <2>1, Appended
  <2>3. \A j \in 1..Len(feedback') : j \in 1..Len(feedback) \/ j = Len(feedback) + 1
    BY <1>1, <2>2
  <2> QED
    BY <1>1, <1>3, <2>2, <2>3
<1> QED
  BY <1>2, <1>3

LEMMA FeedbackGiven ==
  ASSUME FeedbackOK, NEW c \in Chats, NEW i, NEW f, GivenOn(f, c, i), Recorded(f),
         UNCHANGED <<conversations, chat, context>>
  PROVE  FeedbackOK'
<1>1. IsSeq(feedback')
  BY FeedbackRecorded
<1>2. ASSUME NEW j \in 1..Len(feedback')
      PROVE  LET k == feedback'[j].conversation
             IN  /\ feedback'[j] # None /\ k \in Chats /\ Present(k)
                 /\ \E l \in 1..Len(conversations[k].turns) :
                      /\ conversations[k].turns[l].chat = feedback'[j].turn
                      /\ conversations[k].turns[l].policy = feedback'[j].policy
  <2>1. CASE feedback'[j] = f
    BY <2>1 DEF GivenOn
  <2>2. CASE j \in 1..Len(feedback) /\ feedback'[j] = feedback[j]
    BY <2>2 DEF FeedbackOK
  <2> QED
    BY <1>2, <2>1, <2>2, FeedbackRecorded
<1> QED
  BY <1>1, <1>2 DEF FeedbackOK, Present

LEMMA TurnsStep ==
  ASSUME NoneIsNoRow, TurnsOK, SkillsOK, ConversationsOK, [Next]_vars
  PROVE  TurnsOK'
<1>1. CASE UNCHANGED <<conversations, chat, context, feedback>>
  BY <1>1, TurnsStand
<1>2. ASSUME NEW who \in Principals, NEW c \in Chats, NEW i, NEW resolved, NEW category,
             NEW expected, GiveFeedback(who, c, i, resolved, category, expected)
      PROVE  TurnsOK'
  <2>1. UNCHANGED <<conversations, chat, context>>
    BY <1>2, FeedbackIsGiven
  <2> QED
    BY <2>1, TurnsStand
<1> QED
  BY <1>1, <1>2, AnswersChange, TurnsSaved, TurnsAbandoned, TurnsForgotten, TurnsPrepared

LEMMA FeedbackStep ==
  ASSUME NoneIsNoRow, FeedbackOK, ConversationsOK, [Next]_vars
  PROVE  FeedbackOK'
<1>1. ASSUME UNCHANGED <<conversations, feedback>>
      PROVE  FeedbackOK'
  BY <1>1 DEF FeedbackOK, IsSeq, Present
<1>2. ASSUME NEW who \in Principals, NEW c \in Chats, NEW i, NEW resolved, NEW category,
             NEW expected, GiveFeedback(who, c, i, resolved, category, expected)
      PROVE  FeedbackOK'
  <2>1. PICK f : GivenOn(f, c, i) /\ Recorded(f)
    BY <1>2, FeedbackIsGiven
  <2>2. UNCHANGED <<conversations, chat, context>>
    BY <1>2, FeedbackIsGiven
  <2> QED
    BY <2>1, <2>2, FeedbackGiven
<1>3. ASSUME NEW who \in Principals, NEW c \in Chats, NEW q \in Chats, NEW d \in Departments,
             NEW sources, Prepare(q, who, c, d, sources)
      PROVE  FeedbackOK'
  BY <1>1, <1>3 DEF Prepare, store
<1>4. ASSUME NEW q \in Chats, Abandon(q) PROVE FeedbackOK'
  BY <1>1, <1>4 DEF Abandon, store
<1> QED
  BY <1>1, <1>2, <1>3, <1>4, AnswersChange, FeedbackSaved, FeedbackForgotten

\* The cases labelled now are those a binding made now has labelled.
LEMMA LabelledIsBound ==
  ASSUME FeedbackOK, NEW s
  PROVE  LabelledBy(skills[s].cases, Binding(s)) = Labelled(s)
<1>1. ASSUME NEW t, Exists(t) PROVE FeedbackOn(t) # None
  <2>1. PICK i : i = CHOOSE j \in Place(t) : TRUE
    OBVIOUS
  <2>2. i \in Place(t)
    BY <1>1, <2>1 DEF Exists
  <2>3. feedback[i] # None
    BY <2>2 DEF Place, FeedbackOK
  <2> QED
    BY <2>1, <2>3 DEF FeedbackOn
<1>2. PICK b : b = Binding(s)
  OBVIOUS
<1>3. b.docs = Citable(skills[s].department)
  BY <1>2 DEF Binding
<1>4. ASSUME NEW t \in skills[s].cases
      PROVE  /\ Exists(t) => b.cases[t] = FeedbackOn(t)
             /\ ~Exists(t) => b.cases[t] = None
  BY <1>2 DEF Binding
<1>5. ASSUME NEW t \in skills[s].cases
      PROVE  t \in LabelledBy(skills[s].cases, b) <=> t \in Labelled(s)
  <2>1. CASE Exists(t)
    BY <1>1, <1>3, <1>4, <2>1 DEF LabelledBy, Labelled
  <2>2. CASE ~Exists(t)
    BY <1>4, <2>2 DEF LabelledBy, Labelled
  <2> QED
    BY <2>1, <2>2
<1> QED
  BY <1>2, <1>5 DEF LabelledBy, Labelled

LEMMA ReplaysStep ==
  ASSUME FeedbackOK, ReplaysOK, SkillsOK, [Next]_vars
  PROVE  ReplaysOK'
<1>1. /\ Len(skills) \in Nat /\ Len(skills') \in Nat /\ Len(skills) <= Len(skills')
      /\ \A s \in 1..Len(skills) : Moves(s)
      /\ \A s \in 1..Len(skills') : s \notin 1..Len(skills) => skills'[s].status = "draft"
  BY CandidatesMove
<1>2. PICK new : new = skills'
  OBVIOUS
<1>3. ASSUME NEW s \in 1..Len(new)
      PROVE  /\ new[s].status \in {"draft", "evaluated", "active", "rolled_back"}
             /\ new[s].status # "draft" /\ new[s].replay.passed =>
                  Cardinality(LabelledBy(new[s].cases, new[s].replay.binding)) >= MinCases
  <2>1. CASE s \notin 1..Len(skills)
    BY <1>1, <1>2, <1>3, <2>1
  <2>2. CASE s \in 1..Len(skills)
    <3>0. /\ skills[s].status \in {"draft", "evaluated", "active", "rolled_back"}
          /\ skills[s].status # "draft" /\ skills[s].replay.passed =>
               Cardinality(LabelledBy(skills[s].cases, skills[s].replay.binding)) >= MinCases
      BY <2>2 DEF ReplaysOK
    <3>1. CASE new[s] = skills[s]
      BY <3>0, <3>1
    <3>2. CASE ReplayedTo(s)
      <4>1. PICK passed \in BOOLEAN :
              /\ new[s].replay = [passed |-> passed, binding |-> Binding(s)]
              /\ passed => Cardinality(Labelled(s)) >= MinCases
        BY <1>2, <3>2 DEF ReplayedTo
      <4>2. new[s].replay.passed = passed /\ new[s].replay.binding = Binding(s)
        BY <4>1
      <4>3. new[s].status = "evaluated" /\ new[s].cases = skills[s].cases
        BY <1>2, <3>2 DEF ReplayedTo
      <4>4. LabelledBy(new[s].cases, new[s].replay.binding) = Labelled(s)
        BY <4>2, <4>3, LabelledIsBound
      <4> QED
        BY <4>1, <4>2, <4>3, <4>4
    <3>3. CASE /\ skills[s].status \in {"evaluated", "active"} /\ Kept(s)
               /\ new[s].status \in {"active", "rolled_back"}
      <4>1. new[s].cases = skills[s].cases /\ new[s].replay = skills[s].replay
        BY <1>2, <3>3 DEF Kept
      <4> QED
        BY <3>0, <3>3, <4>1
    <3>4. Moves(s)
      BY <1>1, <2>2
    <3> QED
      BY <1>2, <3>1, <3>2, <3>3, <3>4 DEF Moves
  <2> QED
    BY <2>1, <2>2
<1> QED
  BY <1>2, <1>3 DEF ReplaysOK, LabelledBy

LEMMA ServedInit == Init => ServedInv
<1> SUFFICES ASSUME Init PROVE ServedInv
  OBVIOUS
<1>1. \A c \in Chats : ~Present(c) /\ chat[c] # "underway"
  BY DEF Init, Present
<1>2. Len(skills) = 0 /\ Len(feedback) = 0 /\ IsSeq(feedback)
  BY DEF Init, IsSeq
<1>3. TurnsOK
  BY <1>1 DEF TurnsOK
<1>4. FeedbackOK /\ ReplaysOK
  BY <1>2 DEF FeedbackOK, ReplaysOK
<1> QED
  BY <1>3, <1>4 DEF ServedInv
-----------------------------------------------------------------------------
(* What the feedback says of a candidate.                                  *)

\* Feedback given by another candidate, or by none, is nothing to it.
LEMMA VotesApart ==
  ASSUME TurnsOK, FeedbackOK, NEW c \in Chats, NEW i, NEW f, GivenOn(f, c, i), Recorded(f),
         NEW s, f.policy.skill # s
  PROVE  Worse(feedback', s) => Worse(feedback, s)
<1>1. ASSUME NEW j \in Place(f.turn)
      PROVE  feedback[j].policy = f.policy
  <2>1. j \in 1..Len(feedback) /\ feedback[j].turn = f.turn
    BY <1>1 DEF Place
  <2>2. PICK k : k = feedback[j].conversation
    OBVIOUS
  <2>3. k \in Chats /\ Present(k)
    BY <2>1, <2>2 DEF FeedbackOK
  <2>4. PICK l \in 1..Len(conversations[k].turns) :
          /\ conversations[k].turns[l].chat = feedback[j].turn
          /\ conversations[k].turns[l].policy = feedback[j].policy
    BY <2>1, <2>2 DEF FeedbackOK
  <2>5. /\ Present(c) /\ i \in 1..Len(conversations[c].turns)
        /\ f.turn = conversations[c].turns[i].chat
        /\ f.policy = conversations[c].turns[i].policy
    BY DEF GivenOn
  <2>6. k = c /\ l = i
    BY <2>1, <2>3, <2>4, <2>5 DEF TurnsOK
  <2> QED
    BY <2>4, <2>5, <2>6
<1>2. PICK new : new = feedback'
  OBVIOUS
<1>3. /\ \A j \in 1..Len(new) :
           \/ new[j] = f
           \/ j \in 1..Len(feedback) \ Place(f.turn) /\ new[j] = feedback[j]
      /\ \A j \in 1..Len(feedback) \ Place(f.turn) :
           j \in 1..Len(new) /\ new[j] = feedback[j]
  BY <1>2, FeedbackRecorded
<1>4. ASSUME NEW group
      PROVE  Users(new, s, group) = Users(feedback, s, group)
             /\ Happy(new, s, group) = Happy(feedback, s, group)
  <2>1. PICK p : p = [skill |-> s, group |-> group]
    OBVIOUS
  <2>2. f.policy # p
    BY <2>1
  <2>3. PICK V : V = Votes(feedback, s, group)
    OBVIOUS
  <2>4. V = {j \in 1..Len(feedback) : feedback[j].policy = p}
    BY <2>1, <2>3 DEF Votes
  <2>5. Votes(new, s, group) = {j \in 1..Len(new) : new[j].policy = p}
    BY <2>1 DEF Votes
  <2>6. V \subseteq 1..Len(feedback) \ Place(f.turn)
    BY <1>1, <2>2, <2>4
  <2>7. \A j \in V : new[j] = feedback[j] /\ j \in Votes(new, s, group)
    BY <1>3, <2>4, <2>5, <2>6
  <2>8. \A j \in Votes(new, s, group) : j \in V
    BY <1>3, <2>2, <2>4, <2>5
  <2>9. Votes(new, s, group) = V
    BY <2>7, <2>8
  <2>10. Owners(new, s, group) = Owners(feedback, s, group)
    BY <2>3, <2>7, <2>9 DEF Owners
  <2>11. ASSUME NEW o
         PROVE  ( \E j \in V : /\ new[j].owner = o /\ new[j].resolved
                               /\ \A k \in V : new[k].owner = o => k <= j )
                <=> ( \E j \in V : /\ feedback[j].owner = o /\ feedback[j].resolved
                                   /\ \A k \in V : feedback[k].owner = o => k <= j )
    BY <2>7, Zenon
  <2>12. Resolved(new, s, group) = Resolved(feedback, s, group)
    BY <2>3, <2>9, <2>10, <2>11 DEF Resolved
  <2> QED
    BY <2>10, <2>12 DEF Users, Happy
<1> QED
  BY <1>2, <1>4 DEF Worse, Measured

\* Nobody has a say on a candidate that was never released.
LEMMA NoVotes ==
  ASSUME TurnsOK, FeedbackOK, NEW s \in 1..Len(skills), Len(skills) \in Nat,
         skills[s].status = "evaluated"
  PROVE  ~Worse(feedback, s)
<1>1. ASSUME NEW i \in 1..Len(feedback) PROVE feedback[i].policy.skill # s
  <2>1. PICK c : c = feedback[i].conversation
    OBVIOUS
  <2>2. c \in Chats /\ Present(c)
    BY <2>1 DEF FeedbackOK
  <2>3. PICK j \in 1..Len(conversations[c].turns) :
          conversations[c].turns[j].policy = feedback[i].policy
    BY <2>1 DEF FeedbackOK
  <2>4. Known(conversations[c].turns[j].policy)
    BY <2>2 DEF TurnsOK
  <2>5. Known(feedback[i].policy)
    BY <2>3, <2>4
  <2> QED
    BY <2>5 DEF Known
<1>2. ASSUME NEW group
      PROVE  Users(feedback, s, group) = 0 /\ Happy(feedback, s, group) = 0
  <2>1. Votes(feedback, s, group) = {}
    BY <1>1 DEF Votes
  <2>2. Owners(feedback, s, group) = {}
    BY <2>1 DEF Owners
  <2>3. Resolved(feedback, s, group) = {}
    BY <2>2 DEF Resolved
  <2> QED
    BY <2>2, <2>3, FS_EmptySet DEF Users, Happy
<1> QED
  BY <1>2 DEF Worse
-----------------------------------------------------------------------------
(* The steps together, and the theorems.                                   *)

LEMMA DocumentsStep ==
  ASSUME DocumentsOK, [Next]_vars
  PROVE  DocumentsOK'
<1>1. CASE documents' = documents
  BY <1>1 DEF DocumentsOK, DocumentsTyped, ArchivedReplaced, NewestVersionInForce
<1> QED BY <1>1, DocumentsChange, Submitted, Rejected, PublishedOne

LEMMA ConversationsStep ==
  ASSUME ConversationsOK, [Next]_vars
  PROVE  ConversationsOK'
<1>1. CASE UNCHANGED <<conversations, chat, context>>
  <2>1. conversations' = conversations /\ chat' = chat /\ context' = context
    BY <1>1
  <2>2. ConversationsTyped' /\ AnswersFollowTurns'
    BY <2>1 DEF ConversationsOK, ConversationsTyped, AnswersFollowTurns, Present
  <2>3. RequestsTyped' /\ ContextsRemember'
    BY <2>1 DEF ConversationsOK, RequestsTyped, ContextsRemember, Present
  <2> QED BY <2>2, <2>3 DEF ConversationsOK
<1> QED BY <1>1, ConversationsChange, Saved, Abandoned, Forgotten, Prepared

LEMMA SkillsStep ==
  ASSUME SkillsOK, [Next]_vars
  PROVE  SkillsOK' /\ StoppedStay
<1>1. CASE skills' = skills
  BY <1>1 DEF SkillsOK, SkillsTyped, ActiveIsReviewed, StoppedStay
<1>2. ASSUME NEW who \in Principals, NEW s \in 1..Len(skills), Rollback(who, s)
      PROVE  SkillsOK' /\ StoppedStay
  BY <1>2, StoppedOne DEF Rollback
<1> QED BY <1>1, <1>2, SkillsChange, StoppedOne, Proposed, Replayed, Released,
           Promoted

\* The inductive invariant of the workspace.
THEOREM WorkspaceInvariance == Spec => []IInv
<1>1. IInv /\ [Next]_vars => IInv'
  BY DocumentsStep, ConversationsStep, SkillsStep DEF IInv
<1> QED BY <1>1, InitInvariant, PTL DEF Spec

\* However many versions of however many topics are submitted and reviewed,
\* one at most is in force, the newest that ever was (governance.publish).
THEOREM NewestInForce == Spec => []NewestVersionInForce
<1>1. IInv => NewestVersionInForce
  BY DEF IInv, DocumentsOK
<1> QED BY <1>1, WorkspaceInvariance, PTL

\* An answer stands after the turns its model was given, for any number of
\* requests to a conversation (workspace.save_answer).
THEOREM AnswersInPlace == Spec => []AnswersFollowTurns
<1>1. IInv => AnswersFollowTurns
  BY DEF IInv, ConversationsOK
<1> QED BY <1>1, WorkspaceInvariance, PTL

\* A candidate in use passed, was released by another person and is the only
\* one of its department (governance.release).
THEOREM ReviewedWhenActive == Spec => []ActiveIsReviewed
<1>1. IInv => ActiveIsReviewed
  BY DEF IInv, SkillsOK
<1> QED BY <1>1, WorkspaceInvariance, PTL

\* A candidate that was stopped is never used again.
THEOREM StoppedForGood == Spec => RollbackIsFinal
<1>1. IInv /\ [Next]_vars =>
        [\A s \in 1..Len(skills) :
           skills[s].status = "rolled_back" => skills'[s].status = "rolled_back"]_vars
  BY SkillsStep DEF IInv, StoppedStay
<1> QED BY <1>1, WorkspaceInvariance, PTL DEF Spec, RollbackIsFinal

\* What an answer cites when it is saved is in force and the newest version,
\* whatever happened to it while the model answered (verify_current_sources).
THEOREM CurrentCitations == Spec => AnswersCiteCurrent
<1> DEFINE Cited(q, i) ==
             /\ documents[i].status = "active" /\ documents[i].external
             /\ InForce(documents[i])
             /\ ~\E j \in 1..Len(documents) :
                   /\ SameTopic(documents[i], documents[j])
                   /\ documents[j].status = "active"
                   /\ documents[j].version > documents[i].version
           Cites == \A q \in Chats : chat[q] = "underway" /\ chat'[q] = "saved" =>
                      \A i \in context[q].sources : Cited(q, i)
<1>1. ASSUME IInv, [Next]_vars  PROVE Cites
  <2> SUFFICES ASSUME NEW q \in Chats, chat[q] = "underway", chat'[q] = "saved",
                      NEW i \in context[q].sources
               PROVE  Cited(q, i)
    OBVIOUS
  <2>1. SaveAnswer(q)
    <3>1. \A r \in Chats : chat[r] \in {"unused", "underway", "saved", "failed"}
          /\ DOMAIN chat = Chats
      BY <1>1 DEF IInv, ConversationsOK, RequestsTyped
    <3>2. \A r \in Chats : Abandon(r) => chat'[q] # "saved"
      BY <3>1 DEF Abandon
    <3>3. \A r \in Chats : SaveAnswer(r) => r = q
      BY <3>1 DEF SaveAnswer
    <3>4. \A who \in Principals, c \in Chats :
            /\ ~Forget(who, c)
            /\ \A sources : \A r \in Chats, d \in Departments :
                 ~Prepare(r, who, c, d, sources)
      BY <3>1 DEF Forget, Prepare, requests
    <3> QED BY <1>1, <3>2, <3>3, <3>4, ConversationsChange
  <2>2. i \in Citable(context[q].department)
    BY <2>1 DEF SaveAnswer, StillCitable
  <2>3. /\ i \in 1..Len(documents)
        /\ documents[i].status = "active" /\ documents[i].external
        /\ InForce(documents[i])
    BY <2>2 DEF Citable
  <2>4. ASSUME NEW j \in 1..Len(documents),
               SameTopic(documents[i], documents[j]),
               documents[j].status = "active",
               documents[j].version > documents[i].version
        PROVE  FALSE
    <3>1. documents[i] \in Doc /\ documents[j] \in Doc
      BY <1>1, <2>3, ElementOfSeq DEF IInv, DocumentsOK, DocumentsTyped
    <3>2. documents[i].version \in Nat /\ documents[j].version \in Nat /\ i # j
      BY <2>4, <3>1 DEF Doc
    <3>3. documents[j].version < documents[i].version
      BY <1>1, <2>3, <2>4, <3>2 DEF IInv, DocumentsOK, NewestVersionInForce
    <3> QED BY <2>4, <3>2, <3>3
  <2> QED BY <2>3, <2>4
<1>2. IInv /\ [Next]_vars => [Cites]_vars
  BY <1>1
<1> QED BY <1>2, WorkspaceInvariance, PTL DEF Spec, AnswersCiteCurrent

\* What was served, said and replayed stays consistent, along with IInv.
LEMMA ServedInvariance == ASSUME NoneIsNoRow PROVE Spec => [](IInv /\ ServedInv)
<1>1. IInv /\ ServedInv /\ [Next]_vars => ServedInv'
  BY TurnsStep, FeedbackStep, ReplaysStep DEF IInv, ServedInv
<1>2. Init => ServedInv
  BY ServedInit
<1>3. IInv /\ [Next]_vars => IInv'
  BY DocumentsStep, ConversationsStep, SkillsStep DEF IInv
<1> QED BY <1>1, <1>2, <1>3, InitInvariant, PTL DEF Spec

\* Whoever is served a candidate, the labelled cases it passed its replay on are
\* all there, and enough of them, whatever was deleted, archived or relabelled
\* since (workspace.prepare, governance.policy).
THEOREM TreatmentKeepsItsCases == ASSUME NoneIsNoRow PROVE Spec => NoOrphanedTreatment
<1> DEFINE Treated ==
             \A q \in Chats :
               LET p == context'[q].policy IN
               chat[q] = "unused" /\ chat'[q] = "underway" /\ p.skill # 0 =>
                 Cardinality(Labelled(p.skill)) >= MinCases
<1>1. ASSUME IInv, ServedInv, [Next]_vars  PROVE Treated
  <2> SUFFICES ASSUME NEW q \in Chats, chat[q] = "unused", chat'[q] = "underway",
                      NEW p, p = context'[q].policy, p.skill # 0
               PROVE  Cardinality(Labelled(p.skill)) >= MinCases
    OBVIOUS
  <2>1. PICK who \in Principals, d \in Departments :
          p = Policy(who.owner, d)
    <3>1. DOMAIN chat = Chats /\ DOMAIN context = Chats
      BY <1>1 DEF IInv, ConversationsOK, RequestsTyped
    <3>2. \A r \in Chats : ~SaveAnswer(r) /\ ~Abandon(r)
      BY <3>1 DEF SaveAnswer, Abandon
    <3>3. \A who \in Principals, c \in Chats : ~Forget(who, c)
      BY DEF Forget, requests
    <3>7. PICK sources :
            \E who \in Principals, c \in Chats, r \in Chats, d \in Departments :
              Prepare(r, who, c, d, sources)
      <4>1. ~UNCHANGED <<conversations, chat, context>>
        OBVIOUS
      <4> QED
        BY <1>1, <3>2, <3>3, <4>1, ConversationsChange
    <3>4. PICK who \in Principals, c \in Chats, r \in Chats, d \in Departments :
            Prepare(r, who, c, d, sources)
      BY <3>7
    <3>5. r = q
      BY <3>1, <3>4 DEF Prepare
    <3>6. context'[q].policy = Policy(who.owner, d)
      BY <3>1, <3>4, <3>5 DEF Prepare
    <3> QED
      BY <3>6
  <2>2. PICK s : s = p.skill
    OBVIOUS
  <2>3. s \in Serving(d)
    BY <1>1, <2>1, <2>2, PolicyKnown DEF IInv
  <2>4. s \in 1..Len(skills) /\ skills[s].status = "active" /\ Fits(s)
    BY <2>3 DEF Serving
  <2>5. skills[s].replay.passed /\ skills[s].replay.binding = Binding(s)
    BY <1>1, <2>4 DEF IInv, SkillsOK, ActiveIsReviewed, Fits
  <2>6. Cardinality(LabelledBy(skills[s].cases, Binding(s))) >= MinCases
    BY <1>1, <2>4, <2>5 DEF ServedInv, ReplaysOK
  <2>7. LabelledBy(skills[s].cases, Binding(s)) = Labelled(s)
    BY <1>1, LabelledIsBound DEF ServedInv
  <2> QED BY <2>2, <2>6, <2>7
<1>2. IInv /\ ServedInv /\ [Next]_vars => [Treated]_vars
  BY <1>1
<1> QED BY <1>2, ServedInvariance, PTL DEF Spec, NoOrphanedTreatment

\* No record, new or replaced, leaves a candidate in use that does worse than the
\* control by more than ten points: the one who answers last sets the guardrail
\* off (feedback in workspace.install).  Only a deletion of records may.
THEOREM GuardrailAlwaysActs == ASSUME NoneIsNoRow PROVE Spec => GuardrailActs
<1> DEFINE Guards ==
             \A s \in 1..Len(skills) :
               ~Failing(s) /\ Failing(s)' => Len(feedback') < Len(feedback)
<1>1. ASSUME IInv, ServedInv, [Next]_vars  PROVE Guards
  <2> SUFFICES ASSUME NEW s \in 1..Len(skills), ~Failing(s),
                      skills'[s].status = "active", Worse(feedback', s)
               PROVE  Len(feedback') < Len(feedback)
    BY DEF Failing
  <2>1. Len(skills) \in Nat /\ Moves(s)
    BY <1>1, CandidatesMove DEF IInv
  <2>2. CASE skills[s].status = "evaluated" /\ feedback' = feedback
    BY <1>1, <2>1, <2>2, NoVotes DEF ServedInv
  <2>3. CASE skills[s].status = "active"
    <3>1. ~Worse(feedback, s)
      BY <2>3 DEF Failing
    <3>2. feedback' # feedback
      BY <3>1
    <3>3. ASSUME NEW who \in Principals, NEW c \in Chats, Forget(who, c)
          PROVE  Len(feedback') < Len(feedback)
      BY <1>1, <3>2, <3>3, OthersStay DEF ServedInv
    <3>4. ASSUME NEW who \in Principals, NEW c \in Chats, NEW i, NEW resolved,
                 NEW category, NEW expected,
                 GiveFeedback(who, c, i, resolved, category, expected)
          PROVE  FALSE
      <4>1. PICK f : GivenOn(f, c, i) /\ Recorded(f) /\ skills' = Guarded(feedback', f)
        BY <3>4, FeedbackIsGiven
      <4>2. CASE f.policy.skill = s
        <5>1. s # 0
          BY <2>1
        <5>2. skills' = Stopped(s)
          BY <2>3, <4>1, <4>2, <5>1 DEF Guarded
        <5>3. /\ DOMAIN skills = 1..Len(skills)
              /\ DOMAIN skills[s] = {"author", "department", "cases", "status",
                                     "rollout", "replay", "reviewer"}
          BY <1>1, LenProperties DEF IInv, SkillsOK, SkillsTyped, IsSeq
        <5>4. skills'[s].status = "rolled_back"
          BY <5>2, <5>3 DEF Stopped
        <5> QED BY <5>4
      <4>3. CASE f.policy.skill # s
        BY <1>1, <3>1, <4>1, <4>3, VotesApart DEF ServedInv
      <4> QED BY <4>2, <4>3
    <3>5. \A q \in Chats : ~SaveAnswer(q) /\ ~Abandon(q)
      BY <3>2 DEF SaveAnswer, Abandon, store
    <3>6. \A who \in Principals, c \in Chats, q \in Chats, d \in Departments :
            \A sources : ~Prepare(q, who, c, d, sources)
      BY <3>2 DEF Prepare, store
    <3> QED BY <1>1, <3>2, <3>3, <3>4, <3>5, <3>6, AnswersChange
  <2>4. skills[s].status \in {"evaluated", "active"}
        /\ (skills[s].status = "evaluated" => feedback' = feedback)
    <3>1. CASE skills'[s] = skills[s]
      <4>1. skills[s].status = "active"
        BY <3>1
      <4> QED BY <4>1
    <3> QED BY <2>1, <3>1 DEF Moves, ReplayedTo
  <2> QED BY <2>2, <2>3, <2>4
<1>2. IInv /\ ServedInv /\ [Next]_vars => [Guards]_vars
  BY <1>1
<1> QED BY <1>2, ServedInvariance, PTL DEF Spec, GuardrailActs
=============================================================================
