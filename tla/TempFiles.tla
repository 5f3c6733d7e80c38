------------------------------- MODULE TempFiles -------------------------------
(***************************************************************************)
(* The files the packet store and the series cache write: open and fill a  *)
(* temporary file whose name every writer of the same place shares, then   *)
(* rename it.  A name leads to a file and an open handle stays on its      *)
(* file, so files are numbered by the call that creates them.              *)
(***************************************************************************)
EXTENDS Integers

CONSTANTS
  Places,          \* paths that are written this way
  MaxCalls,        \* bound on calls, each of which creates one file at most
  Empty, Torn      \* a truncated file; one that does not parse

VARIABLES
  tmp,        \* per place: the file its temporary name leads to (0: none)
  file,       \* per place: the file its name leads to (0: none)
  content     \* per file: the number of what was stored, Empty or Torn

Numbers == 1..MaxCalls

FilesTyped ==
  /\ tmp \in [Places -> 0..MaxCalls] /\ file \in [Places -> 0..MaxCalls]
  /\ content \in [Numbers -> Numbers \cup {Empty, Torn}]

NoFiles ==
  /\ tmp = [p \in Places |-> 0] /\ file = [p \in Places |-> 0]
  /\ content = [n \in Numbers |-> Empty]

(* Opening truncates the file of another writer that has not renamed yet.  *)
Handle(p, n) == IF tmp[p] = 0 THEN n ELSE tmp[p]

Open(p, n) ==
  /\ tmp' = [tmp EXCEPT ![p] = Handle(p, n)]
  /\ content' = [content EXCEPT ![Handle(p, n)] = Empty]

(* Written over what another writer has left in the same file, the longer  *)
(* one shows through.                                                      *)
Fill(h, n) ==
  \E c \in IF content[h] \in {Empty, n} THEN {n} ELSE {n, Torn} :
    content' = [content EXCEPT ![h] = c]

(* replace() moves whatever the temporary name leads to by now.            *)
Replace(p) == file' = [file EXCEPT ![p] = tmp[p]] /\ tmp' = [tmp EXCEPT ![p] = 0]

(* What a reader of a place parses, 0 for nothing.                         *)
Parsed(p) == IF file[p] # 0 /\ content[file[p]] \in Numbers THEN content[file[p]] ELSE 0
=============================================================================
