---------------------------- MODULE ChunkedUpload ----------------------------
(***************************************************************************)
(* Files sent in parts, as core/private_library.py and                     *)
(* core/reference_library.py do it: a part is compared with the one        *)
(* already stored and then stored, in two steps, and the request that      *)
(* finishes the upload reads the parts one by one.  Data is told apart by  *)
(* the file it is a piece of.                                              *)
(***************************************************************************)
EXTENDS Naturals, FiniteSets

CONSTANTS
  Uploads,   \* identifiers of uploads, each announced at most once
  Parts,     \* the numbers of the parts of a file
  Contents,  \* files
  Requests,  \* requests under way at once
  None

VARIABLES
  pieces,    \* pieces[u][n]: the file the stored part n is a piece of, or None
  request    \* what each request is about, or None

ChunksInit ==
  /\ pieces = [u \in Uploads |-> [n \in Parts |-> None]]
  /\ request = [r \in Requests |-> None]

Doing(r, task) == request[r] # None /\ request[r].task = task

\* The stored part is read; another one in its place refuses the request.
SendPart(r, u, n, c) ==
  /\ request[r] = None
  /\ pieces[u][n] \in {None, c}
  /\ request' = [request EXCEPT ![r] =
       [task |-> "send", upload |-> u, part |-> n, content |-> c]]
  /\ UNCHANGED pieces

StorePart(r) ==
  /\ Doing(r, "send")
  /\ pieces' = [pieces EXCEPT ![request[r].upload][request[r].part] =
                                 request[r].content]
  /\ request' = [request EXCEPT ![r] = None]

Gather(r, u) ==
  /\ request[r] = None
  /\ request' = [request EXCEPT ![r] =
       [task |-> "gather", upload |-> u, got |-> [n \in Parts |-> None]]]
  /\ UNCHANGED pieces

ReadPart(r, n) ==
  /\ Doing(r, "gather")
  /\ request[r].got[n] = None
  /\ pieces[request[r].upload][n] # None
  /\ request' = [request EXCEPT ![r].got[n] = pieces[request[r].upload][n]]
  /\ UNCHANGED pieces

Piecewise(c) == [n \in Parts |-> c]

\* Mutant: a file is whole when every part is there.
WholeOfAnything(r, c) == \A n \in Parts : request[r].got[n] # None

\* The length and the hash of what was read are those announced.
Whole(r, c) == request[r].got = Piecewise(c)

\* The request is refused, fails, is cancelled, or its process dies.
GiveUp(r) ==
  /\ request[r] # None
  /\ request' = [request EXCEPT ![r] = None]
  /\ UNCHANGED pieces
=============================================================================
