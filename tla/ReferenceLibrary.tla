--------------------------- MODULE ReferenceLibrary ---------------------------
(***************************************************************************)
(* The shared reference pack (core/reference_library.py).  An editor       *)
(* imports an archive in parts; publishing stores it and swaps the head    *)
(* from the release the import was started on.  A release is named by the  *)
(* hash of its archive (Contents).  Instances of the server load the index *)
(* of the head, while imports replace it: from memory, from a snapshot     *)
(* that its manifest publishes, or rebuilt from the archive and saved      *)
(* again.  Imports and loads are two parts: of the imports, a load sees    *)
(* only that an archive is stored before it becomes the head.              *)
(***************************************************************************)
EXTENDS ChunkedUpload, Sequences

CONSTANTS
  Broken,    \* archives that do not unpack to what was announced
  MaxHeads,  \* bound of the model: heads swapped in
  Servers,   \* instances that load the index
  Payloads,  \* serialized forms the index of a release may have
  Slices     \* parts of a payload

VARIABLES
  imports,    \* the row of an import: [release, expected, live], or None
  archives,   \* releases whose archive is stored
  head,       \* the release in force, or None
  lineage,    \* the heads so far
  audit,      \* releases whose restore is in the audit log
  manifests,  \* the payload the manifest of a release names, or None
  slices,     \* the parts stored: <<release, payload, slice>>
  load,       \* the load under way: [release, stage, payload, written], or None
  cache       \* the release a server holds the index of, or None

state == <<imports, archives, head, lineage, audit>>
snapshots == <<manifests, slices, load, cache>>

Init ==
  /\ ChunksInit
  /\ imports = [u \in Uploads |-> None]
  /\ archives = {}
  /\ head = None
  /\ lineage = <<None>>
  /\ audit = {}
  /\ manifests = [c \in Contents |-> None]
  /\ slices = {}
  /\ load = [p \in Servers |-> None]
  /\ cache = [p \in Servers |-> None]

Live(u) == imports[u] # None /\ imports[u].live

Start(u, c) ==
  /\ imports[u] = None
  /\ imports' = [imports EXCEPT ![u] =
       [release |-> c, expected |-> head, live |-> TRUE]]
  /\ UNCHANGED <<pieces, request, archives, head, lineage, audit>>

Expire(u) ==
  /\ Live(u)
  /\ imports' = [imports EXCEPT ![u].live = FALSE]
  /\ UNCHANGED <<pieces, request, archives, head, lineage, audit>>

Send(r, u, n, c) == Live(u) /\ SendPart(r, u, n, c) /\ UNCHANGED state
Store(r) == StorePart(r) /\ UNCHANGED state
Publish(r, u) == Live(u) /\ Gather(r, u) /\ UNCHANGED state
Read(r, n) == ReadPart(r, n) /\ UNCHANGED state
Abandon(r) == GiveUp(r) /\ UNCHANGED state

Turn(r, task) ==
  request' = [request EXCEPT ![r] = [task |-> task, upload |-> request[r].upload]]

Release(r) == imports[request[r].upload].release
Expected(r) == imports[request[r].upload].expected

\* Mutant: the head is swapped before the archive is stored.
ArchiveLater(r) ==
  /\ Doing(r, "gather")
  /\ Whole(r, Release(r))
  /\ Turn(r, "compare")
  /\ UNCHANGED <<pieces, state>>

Unpacks(c) == c \notin Broken

\* The archive unpacks to the catalog that was announced, and is stored.
Archive(r) ==
  /\ Doing(r, "gather")
  /\ Whole(r, Release(r))
  /\ Unpacks(Release(r))
  /\ archives' = archives \cup {Release(r)}
  /\ Turn(r, "compare")
  /\ UNCHANGED <<pieces, imports, head, lineage, audit>>

\* A head that is this release already is left alone.
Compare(r) ==
  /\ Doing(r, "compare")
  /\ Turn(r, IF head = Release(r) THEN "log" ELSE "swap")
  /\ UNCHANGED <<pieces, state>>

\* Mutant: the head is replaced without looking at it again.
SwapAnyHead(r) ==
  /\ Doing(r, "swap")
  /\ Len(lineage) <= MaxHeads
  /\ head' = Release(r)
  /\ lineage' = Append(lineage, Release(r))
  /\ Turn(r, "log")
  /\ UNCHANGED <<pieces, imports, archives, audit>>

\* replace_one on the release expected; with none expected an upsert, which
\* fails on a head that exists.
Swap(r) ==
  /\ Doing(r, "swap")
  /\ head = Expected(r)
  /\ Len(lineage) <= MaxHeads
  /\ head' = Release(r)
  /\ lineage' = Append(lineage, Release(r))
  /\ Turn(r, "log")
  /\ UNCHANGED <<pieces, imports, archives, audit>>

Log(r) ==
  /\ Doing(r, "log")
  /\ audit' = audit \cup {Release(r)}
  /\ request' = [request EXCEPT ![r] = None]
  /\ UNCHANGED <<pieces, imports, archives, head, lineage>>

Importing ==
  \/ \E u \in Uploads, c \in Contents : Start(u, c)
  \/ \E r \in Requests, u \in Uploads, n \in Parts, c \in Contents : Send(r, u, n, c)
  \/ \E r \in Requests, u \in Uploads : Publish(r, u)
  \/ \E u \in Uploads : Expire(u)
  \/ \E r \in Requests, n \in Parts : Read(r, n)
  \/ \E r \in Requests :
       Store(r) \/ Archive(r) \/ Compare(r) \/ Swap(r) \/ Log(r) \/ Abandon(r)
-----------------------------------------------------------------------------
Archived(c) ==
  /\ archives' = archives \cup {c}
  /\ UNCHANGED <<head, manifests, slices, load, cache>>

Swapped(c) ==
  /\ c \in archives
  /\ head' = c
  /\ UNCHANGED <<archives, manifests, slices, load, cache>>

Turned(p, row) == load' = [load EXCEPT ![p] = row]

\* A search or a page: the head is read, then its index is loaded.
Search(p) ==
  /\ load[p] = None
  /\ head # None
  /\ Turned(p, [release |-> head, stage |-> "index", payload |-> None, written |-> {}])
  /\ UNCHANGED <<head, archives, manifests, slices, cache>>

Loading(p, stage) == load[p] # None /\ load[p].stage = stage

UseMemory(p) ==
  /\ Loading(p, "index")
  /\ cache[p] = load[p].release
  /\ Turned(p, None)
  /\ UNCHANGED <<head, archives, manifests, slices, cache>>

\* Every part of the payload the manifest names is there.
Complete(c) ==
  manifests[c] # None => \A n \in Slices : <<c, manifests[c], n>> \in slices

UseSnapshot(p) ==
  /\ Loading(p, "index")
  /\ cache[p] # load[p].release
  /\ manifests[load[p].release] # None
  /\ Complete(load[p].release)
  /\ cache' = [cache EXCEPT ![p] = load[p].release]
  /\ Turned(p, None)
  /\ UNCHANGED <<head, archives, manifests, slices>>

\* Without a snapshot that can be read the index is built from the archive.
Rebuild(p, payload) ==
  /\ Loading(p, "index")
  /\ cache[p] # load[p].release
  /\ manifests[load[p].release] = None \/ ~Complete(load[p].release)
  /\ load[p].release \in archives
  /\ cache' = [cache EXCEPT ![p] = load[p].release]
  /\ Turned(p, [load[p] EXCEPT !.stage = "save", !.payload = payload])
  /\ UNCHANGED <<head, archives, manifests, slices>>

SaveSlice(p, n) ==
  /\ Loading(p, "save")
  /\ n \in Slices \ load[p].written
  /\ slices' = slices \cup {<<load[p].release, load[p].payload, n>>}
  /\ Turned(p, [load[p] EXCEPT !.written = @ \cup {n}])
  /\ UNCHANGED <<head, archives, manifests, cache>>

\* Mutant: the manifest is written before the last part.
SaveManifestEarly(p) ==
  /\ Loading(p, "save")
  /\ manifests' = [manifests EXCEPT ![load[p].release] = load[p].payload]
  /\ Turned(p, None)
  /\ UNCHANGED <<head, archives, slices, cache>>

SaveManifest(p) ==
  /\ Loading(p, "save")
  /\ load[p].written = Slices
  /\ manifests' = [manifests EXCEPT ![load[p].release] = load[p].payload]
  /\ Turned(p, None)
  /\ UNCHANGED <<head, archives, slices, cache>>

\* A save that fails is tolerated; a process that dies loses its memory.
Stop(p, alive) ==
  /\ load[p] # None
  /\ Turned(p, None)
  /\ cache' = IF alive THEN cache ELSE [cache EXCEPT ![p] = None]
  /\ UNCHANGED <<head, archives, manifests, slices>>

Indexing ==
  \/ \E c \in Contents : Archived(c) \/ Swapped(c)
  \/ \E p \in Servers :
       Search(p) \/ UseMemory(p) \/ UseSnapshot(p) \/ SaveManifest(p)
  \/ \E p \in Servers, payload \in Payloads : Rebuild(p, payload)
  \/ \E p \in Servers, n \in Slices : SaveSlice(p, n)
  \/ \E p \in Servers, alive \in BOOLEAN : Stop(p, alive)
-----------------------------------------------------------------------------
TypeOK ==
  /\ imports \in [Uploads -> {None} \cup
       [release : Contents, expected : Contents \cup {None}, live : BOOLEAN]]
  /\ archives \subseteq Contents
  /\ head \in Contents \cup {None}
  /\ manifests \in [Contents -> Payloads \cup {None}]
  /\ slices \subseteq Contents \X Payloads \X Slices
  /\ load \in [Servers -> {None} \cup
       [release : Contents, stage : {"index", "save"},
        payload : Payloads \cup {None}, written : SUBSET Slices]]
  /\ cache \in [Servers -> Contents \cup {None}]

(* Whatever step an import stops at, the archive of every release that was  *)
(* in force is stored, and two imports started on the same head do not both *)
(* take its place: each head follows one that some import of it was started *)
(* on, however late a publication is retried.                               *)
HeadsFollow ==
  /\ head = lineage[Len(lineage)]
  /\ \A i \in 2..Len(lineage) :
       /\ lineage[i] \in archives
       /\ \E u \in Uploads : /\ imports[u] # None
                             /\ imports[u].release = lineage[i]
                             /\ imports[u].expected = lineage[i - 1]

(* A manifest names only parts that are stored, though two servers save at  *)
(* once what they built and either stops at any step; what a server still   *)
(* loads can be rebuilt, though the head moved on.                          *)
ManifestsAreComplete ==
  /\ \A c \in Contents : Complete(c)
  /\ \A p \in Servers :
       load[p] # None => /\ load[p].release \in archives
                         /\ load[p].written \subseteq Slices
                         /\ \A n \in load[p].written :
                              <<load[p].release, load[p].payload, n>> \in slices
=============================================================================
