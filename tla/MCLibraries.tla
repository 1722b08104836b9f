----------------------------- MODULE MCLibraries -----------------------------
(***************************************************************************)
(* The private library, the imports and the index of the shared reference  *)
(* pack and what is searched in it and in the documents of the workspace,   *)
(* the local folder, the chat request and its budget, and the page of the   *)
(* static workbench.  They share no state in this instance (a chat sees of  *)
(* the libraries only versions), so each behavior is one of a single part,  *)
(* chosen at the start, and the others stay as they began.                  *)
(***************************************************************************)
EXTENDS Naturals, Sequences, FiniteSets, TLC

CONSTANTS
  None, Requests, Uploads, Parts, Contents,
  Owners, Codes, Unreadable, Broken, MaxDocuments, MaxTotal, MaxClaims, MaxHeads,
  Servers, Payloads, Slices,
  Roots, Paths, Texts, Readable(_), MaxFiles, MaxStamp,
  Chats, Sources, Origin(_), Forms, MaxVersion,
  Clients, Askers, MinuteLimit, HourLimit, Minute, Hour, LastTick,
  Clicks, Params, Faulty, Policies, MaxRequests, MaxAsked,
  a, old, x  \* a browser that just finished a document, its upload and its file

VARIABLES
  focus,
  pieces, request,
  announced, owner, texts, codes, origin,
  imports, lineage, audit, archives, head,
  manifests, slices, load, cache,
  root, files, rows, merged, scan,
  version, chat, active,
  now, queue, hourly, taken, open, made, modelled,
  task, kept, clicked, handed,
  inforce, policy, judging, corpus, asked,
  traces, shown, epoch, enabled, indexed, saving, prompt, drafts,
  pack, snapshot, searched, found,
  text, question, vector, compared, sources

Private == INSTANCE PrivateLibrary
Tight == INSTANCE PrivateLibrary WITH MaxDocuments <- 1, Contents <- Contents \ {x}
Reference == INSTANCE ReferenceLibrary
Folder == INSTANCE LocalFolder
Requesting == INSTANCE Chat

Page == INSTANCE LitePage WITH
          Unfinished <- {}, Failing <- {}, Passing <- Policies \X {"old", "new"},
          stored <- kept, doing <- clicked, files <- handed,
          head <- inforce, active <- enabled

\* Two pages may end in the same footer, their numbers apart; "b" is one page.
Words == [footer1 |-> {"mark"}, footer2 |-> {"mark"}, head |-> {"fof", "function"},
          text |-> {"fof", "fee"}, other |-> {"etf", "fee", "function"},
          entry |-> {"fof"}, code |-> {"ab1", "fof"}]
FirstPages == {<<"text", "footer1">>, <<"footer1", "head", "other", "footer2">>,
               <<"other", "code", "footer2">>, <<"entry", "entry", "entry">>, <<"code">>}
LongPages == {p \in FirstPages : Head(p) \notin {"other", "code"}}
LastPages == {<<"text", "footer1">>, <<"other", "footer2">>}
Keys == [l \in DOMAIN Words |-> IF l = "footer2" THEN "footer1" ELSE l]
SomePacks == {[a |-> [active |-> TRUE, pages |-> <<p, q, r>>],
               b |-> [active |-> live, pages |-> <<<<"head", "other">>>>]] :
                p \in LongPages, q \in FirstPages, r \in LastPages, live \in BOOLEAN}
Asked(words, follows, pronoun) ==
  [words |-> words, follows |-> follows, pronoun |-> pronoun]
SomeQueries == {Asked({"fof", "function"}, FALSE, FALSE), Asked({"fee"}, TRUE, TRUE),
                Asked({"ab1", "fee"}, TRUE, FALSE), Asked({"mark"}, FALSE, FALSE)}
Before == {<<>>, <<[role |-> "user", query |-> Asked({"etf"}, FALSE, FALSE)],
                   [role |-> "assistant", query |-> Asked({"fof"}, FALSE, FALSE)]>>}
Searching == INSTANCE Retrieval WITH
  Concepts <- {"fof", "etf", "function"}, Strict <- {"fof", "etf"}, Acronyms <- {},
  Identifiers <- {"ab1"},
  Packs <- SomePacks, Histories <- Before, Queries <- SomeQueries, Limits <- {1, 3},
  WordsOf <- Words, KeyOf <- Keys,
  Short <- {}, Headings <- {"head"}, Dotted <- {"entry"}, AtLeast <- 3, Cut <- 4,
  Texts <- {}, Rows <- {}, Questions <- {}, Ahead <- {}, Depth <- 0, TopK <- 0,
  saved <- snapshot, index <- searched

SomeTexts ==
  [words : {{"w1"}, {"w1", "w2"}, {"w2", "fof"}, {"w1", "w3", "ab1"}},
   similar : {20, 70}, phrase : {TRUE}, intact : {TRUE}]
    \cup {[words |-> {}, similar |-> 50, phrase |-> FALSE, intact |-> TRUE],
          [words |-> {"w1", "w2"}, similar |-> 70, phrase |-> FALSE, intact |-> FALSE]}
Ranking == INSTANCE Retrieval WITH
  Concepts <- {"fof"}, Strict <- {"fof"}, Acronyms <- {}, Identifiers <- {"ab1"},
  Texts <- SomeTexts, Rows <- 1 .. 3,
  Questions <- {{"w1", "w2", "w3"}, {"w2", "fof"}, {"w1", "ab1"}},
  Ahead <- {[words |-> 0, vectors |-> 0], [words |-> 37, vectors |-> 0]},
  Depth <- 40, TopK <- 2,
  Packs <- {}, Histories <- {}, Queries <- {}, Limits <- {}, WordsOf <- <<>>, KeyOf <- <<>>,
  Short <- {}, Headings <- {}, Dotted <- {}, AtLeast <- 0, Cut <- 0,
  saved <- snapshot, index <- searched

private == <<announced, owner, texts, codes, origin>>
uploading == <<pieces, request>>
importing == <<imports, lineage, audit>>
releases == <<archives, head>>
reference == <<importing, releases>>
index == <<manifests, slices, load, cache>>
folder == <<root, files, rows, merged, scan>>
chatting == <<version, chat, active>>
abuse == <<now, queue, hourly, taken, open, made, modelled>>
piece == <<task, kept, clicked, handed>>
policies == <<inforce, policy, judging, corpus, asked>>
display == <<traces, shown, epoch, enabled, indexed, saving, prompt, drafts>>
page == <<piece, policies, display>>
reading == <<pack, snapshot, searched, found>>
ranking == <<text, question, vector, compared, sources>>
search == <<reading, ranking>>

\* One document is there already.
PrivateInit ==
  /\ announced = [u \in Uploads |->
       IF u = old THEN [owner |-> a, sha256 |-> x, live |-> TRUE] ELSE None]
  /\ owner = [u \in Uploads |-> IF u = old THEN a ELSE None]
  /\ texts = [u \in Uploads |-> IF u = old THEN Private!Piecewise(x) ELSE None]
  /\ codes = [k \in Codes |->
                [status |-> "unused", owner |-> None, documents |-> {}]]
  /\ origin = [u \in Uploads |-> IF u = old THEN "finished" ELSE None]

NoSearch == pack = None /\ snapshot = None /\ searched = None /\ found = None
NoRanking ==
  text = None /\ question = None /\ vector = None /\ compared = {} /\ sources = None

Init ==
  /\ focus \in {"private", "tight", "reference", "index", "folder", "chat", "budget",
                "task", "policy", "display", "search", "ranking"}
  /\ PrivateInit
  /\ Reference!Init
  /\ Folder!Init
  /\ focus # "folder" => \A d, e \in Roots : files[d] = files[e]
  /\ Requesting!ChatInit
  /\ Requesting!BudgetInit
  /\ Page!Init
  /\ focus # "task" => task.params \in Faulty
  /\ IF focus = "search" THEN Searching!ReadingInit ELSE NoSearch
  /\ IF focus = "ranking" THEN Ranking!RankingInit ELSE NoRanking

PrivateStep ==
  /\ focus = "private"
  /\ Private!Next
  /\ UNCHANGED <<focus, reference, index, folder, chatting, abuse, page, search>>

\* A browser that may have one document has it; what comes is another.
TightStep ==
  /\ focus = "tight"
  /\ Tight!Next
  /\ UNCHANGED <<focus, reference, index, folder, chatting, abuse, page, search>>

ReferenceStep ==
  /\ focus = "reference"
  /\ Reference!Importing
  /\ UNCHANGED <<focus, private, index, folder, chatting, abuse, page, search>>

IndexStep ==
  /\ focus = "index"
  /\ Reference!Indexing
  /\ UNCHANGED <<focus, private, uploading, importing, folder, chatting, abuse, page, search>>

FolderStep ==
  /\ focus = "folder"
  /\ Folder!Next
  /\ UNCHANGED <<focus, private, uploading, reference, index, chatting, abuse, page, search>>

ChattingStep ==
  /\ focus = "chat"
  /\ Requesting!Chatting
  /\ UNCHANGED <<focus, private, uploading, reference, index, folder, abuse, page, search>>

AbuseStep ==
  /\ focus = "budget"
  /\ Requesting!Budgeting
  /\ UNCHANGED <<focus, private, uploading, reference, index, folder, chatting, page, search>>

PageStep ==
  /\ \/ focus = "task" /\ Page!Tasks /\ UNCHANGED <<policies, display>>
     \/ focus = "policy" /\ Page!Deciding /\ UNCHANGED <<piece, display>>
     \/ focus = "display" /\ Page!Answering /\ UNCHANGED <<piece, policies>>
  /\ UNCHANGED <<focus, private, uploading, reference, index, folder, chatting, abuse, search>>

\* What was built is saved, or spoilt, and read again, before it is searched.
SearchStep ==
  /\ \/ /\ focus = "search" /\ Searching!Reading /\ UNCHANGED ranking
        /\ found' # None => snapshot # None
     \/ focus = "ranking" /\ Ranking!Ranking /\ UNCHANGED reading
  /\ UNCHANGED <<focus, private, uploading, reference, index, folder, chatting, abuse, page>>

Next == PrivateStep \/ TightStep \/ ReferenceStep \/ IndexStep
          \/ FolderStep \/ ChattingStep \/ AbuseStep \/ PageStep \/ SearchStep

Spec ==
  Init /\ [][Next]_<<focus, private, uploading, reference, index, folder,
                     chatting, abuse, page, search>>

Symmetry == Permutations(Requests)

Parsed(t) == t # "y"
ByName(s) == s
AnyForm == [grounded : {TRUE}, rerank : {TRUE}, governed : BOOLEAN]
-----------------------------------------------------------------------------
(* PrivateLibrary, ReferenceLibrary, LocalFolder, Chat, LitePage and         *)
(* Retrieval say what these mean for their code.                            *)
UploadsAreWhole ==
  focus \in {"private", "tight"} =>
    /\ Private!WithinCaps /\ (focus = "tight" => Tight!WithinCaps)
    /\ Private!OneCopyUnlessClaimed
    /\ Private!DocumentsAreWhole
OnlyCodesMove == Private!OnlyCodesMove
HandedOverStays == Private!HandedOverStays
SourcesStand ==
  /\ focus = "reference" => Reference!HeadsFollow
  /\ focus = "index" => Reference!ManifestsAreComplete
  /\ focus = "folder" => Folder!FoundIsCurrent
  /\ focus = "chat" => Requesting!AnswersStand
SearchesHold ==
  /\ focus = "search" => Searching!SearchHolds
  /\ focus = "ranking" => Ranking!RankHolds
PageIsSound == focus \in {"task", "policy", "display"} => Page!PageIsSound
LimitsHold ==
  /\ focus = "budget" => Requesting!LimitsHold
  /\ focus = "chat" => Requesting!SlotsAreCalls
=============================================================================
