----------------------------- MODULE LocalFolder -----------------------------
(***************************************************************************)
(* The local folder of core/local_library.py: a scan reads the files of    *)
(* the root one by one and replaces its rows in one transaction; searches  *)
(* and answers accept a row while its file looks as it did then.  Other    *)
(* programs write the files meanwhile.  Every operation holds the lock of  *)
(* the library, so that only the scan, which reads files that change under *)
(* it, has steps.                                                          *)
(*                                                                         *)
(* A stamp stands for size and modification time.  A write gets one the    *)
(* file did not have before: files rewritten at the same size within the   *)
(* grain of the clock are left out.                                        *)
(***************************************************************************)
EXTENDS Naturals, FiniteSets

CONSTANTS
  Roots,     \* folders one can choose
  Paths,     \* relative paths; they name the documents under every root
  Texts,     \* what a file may hold
  Readable(_),   \* whether the parser accepts a text
  MaxFiles,  \* 200 files of a scan
  MaxStamp,      \* bound of the model: writes of each file
  None

VARIABLES
  root,    \* the chosen root, or None
  files,   \* files[d][f]: [text, stamp, there]
  rows,    \* the row of each path: [text, stamp, error], or None
  merged,  \* the texts merged for the last search, by path, or None
  scan     \* the scan under way: [left, opened, prepared], or None

vars == <<root, files, rows, merged, scan>>

NoRows == [f \in Paths |-> None]
Failed == [text |-> None, stamp |-> 0, error |-> TRUE]

Init ==
  /\ root = None
  /\ files \in [Roots -> [Paths -> [text : Texts, stamp : {0}, there : {TRUE}]]]
  /\ rows = NoRows
  /\ merged = None
  /\ scan = None

\* Another program writes, moves away or brings back a file.
Edit(d, f, t, there) ==
  /\ files[d][f].stamp < MaxStamp
  /\ files' = [files EXCEPT ![d][f] =
       [text |-> t, stamp |-> files[d][f].stamp + 1, there |-> there]]
  /\ UNCHANGED <<root, rows, merged, scan>>

Configure(d) ==
  /\ scan = None
  /\ root' = d
  /\ rows' = IF d = root THEN rows ELSE NoRows
  /\ merged' = IF d = root THEN merged ELSE None
  /\ UNCHANGED <<files, scan>>

\* The walk lists what is there; paths beyond the cap are skipped.
StartScan(listed) ==
  /\ scan = None
  /\ root # None
  /\ listed \subseteq {f \in Paths : files[root][f].there}
  /\ Cardinality(listed) <= MaxFiles
  /\ listed # {f \in Paths : files[root][f].there} =>
       Cardinality(listed) = MaxFiles
  /\ scan' = [left |-> listed, opened |-> None, prepared |-> NoRows]
  /\ UNCHANGED <<root, files, rows, merged>>

Open(f) ==
  /\ scan # None
  /\ scan.opened = None
  /\ f \in scan.left
  /\ scan' = IF files[root][f].there
             THEN [scan EXCEPT !.left = @ \ {f},
                               !.opened = [path |-> f, file |-> files[root][f]]]
             ELSE [scan EXCEPT !.left = @ \ {f}, !.prepared[f] = Failed]
  /\ UNCHANGED <<root, files, rows, merged>>

\* Mutant: the file is not looked at again after it was read.
PreparedUnchecked(before, now, t) ==
  IF Readable(t) THEN [text |-> t, stamp |-> now.stamp, error |-> FALSE]
  ELSE Failed

\* What becomes of a file whose text was read as t: a row of its own, or one
\* that only tells the error, if it changed meanwhile or cannot be parsed.
Prepared(before, now, t) ==
  IF before = now /\ Readable(t)
  THEN [text |-> t, stamp |-> now.stamp, error |-> FALSE]
  ELSE Failed

\* The text is read somewhere between the two looks at the file.
Close(t) ==
  LET f == scan.opened.path
      before == scan.opened.file
      now == files[root][f]
  IN  /\ scan # None
      /\ scan.opened # None
      /\ t \in {before.text, now.text}
      /\ scan' = [scan EXCEPT !.opened = None,
                              !.prepared[f] = Prepared(before, now, t)]
      /\ UNCHANGED <<root, files, rows, merged>>

\* The rows are replaced together; those of unchanged text keep their index.
Replace ==
  /\ scan # None
  /\ scan.opened = None
  /\ scan.left = {}
  /\ rows' = scan.prepared
  /\ merged' = None
  /\ scan' = None
  /\ UNCHANGED <<root, files>>

\* The process dies: the caches and the scan are lost.
Die ==
  /\ merged' = None
  /\ scan' = None
  /\ UNCHANGED <<root, files, rows>>

Current(f) ==
  /\ rows[f] # None
  /\ ~rows[f].error
  /\ root # None
  /\ files[root][f].there
  /\ files[root][f].stamp = rows[f].stamp

CurrentRows == {f \in Paths : Current(f)}
TextsOf(S) == [f \in S |-> rows[f].text]

\* The merged index is looked up by the documents and the hashes of their text.
KeptForRows == merged # None /\ merged = TextsOf(CurrentRows)

Found == IF KeptForRows THEN merged ELSE TextsOf(CurrentRows)

\* What an answer that cites a document is held against.
Verified(f, t) == Current(f) /\ rows[f].text = t

Page(f) == IF Current(f) THEN rows[f].text ELSE None
Export == TextsOf(CurrentRows)

Search ==
  /\ scan = None
  /\ merged' = Found
  /\ UNCHANGED <<root, files, rows, scan>>

Next ==
  \/ \E d \in Roots, f \in Paths, t \in Texts, there \in BOOLEAN : Edit(d, f, t, there)
  \/ \E d \in Roots : Configure(d)
  \/ \E listed \in SUBSET Paths : StartScan(listed)
  \/ \E f \in Paths : Open(f)
  \/ \E t \in Texts : Close(t)
  \/ Replace
  \/ Search
  \/ Die

Spec == Init /\ [][Next]_vars
-----------------------------------------------------------------------------
TypeOK ==
  /\ root \in Roots \cup {None}
  /\ rows \in [Paths -> {None} \cup [text : Texts \cup {None}, stamp : 0..MaxStamp,
                                     error : BOOLEAN]]
  /\ \A f \in Paths : rows[f] # None /\ rows[f].error => rows[f] = Failed

(* What a search finds, what an answer is verified against, and what a page *)
(* shows or an export holds is what the files of the chosen folder hold     *)
(* now, though they are rewritten, moved and brought back while they are    *)
(* scanned and though indexes are kept.                                     *)
FoundIsCurrent ==
  scan = None =>
    \A f \in Paths :
      /\ f \in DOMAIN Found => Found[f] = files[root][f].text
      /\ \A t \in Texts : Verified(f, t) => files[root][f].text = t
      /\ Page(f) # None => Page(f) = files[root][f].text
      /\ f \in DOMAIN Export => Export[f] = files[root][f].text
=============================================================================
