----------------------------- MODULE LocalFiles -----------------------------
(***************************************************************************)
(* head_object and get_object of the local backend (storage/local.py),     *)
(* called without a cache: a path is looked at first, and what is there is *)
(* asked for or opened in a second call of the system.  Files come and go  *)
(* as in ObjectCache, by which this module knows the store; a file is      *)
(* replaced as a whole, so that one that was opened is read as it was.     *)
(***************************************************************************)
EXTENDS ObjectCache

VARIABLE file   \* per thread, the call it is in

NoFileCall == [pc |-> "idle"]
FileInit == file = [t \in Threads |-> NoFileCall]

FileGoto(t, pc) == file' = [file EXCEPT ![t].pc = pc] /\ UNCHANGED vars
FileGive(t, v) ==
  /\ file' = [file EXCEPT ![t] = [pc |-> "done", key |-> @.key, answer |-> v]]
  /\ UNCHANGED vars

FileBegin(t, k) ==
  /\ file[t].pc = "idle"
  /\ file' = [file EXCEPT ![t] = [pc |-> "resolve", key |-> k]]
  /\ UNCHANGED vars

\* Any call of the system may raise: for a name that no file can have, for a file or a
\* directory that may not be looked at or read, for a disk that fails.  Nobody catches it.
Raise(t) == FileGive(t, Error)

\* _object_path: the bucket is a directory and the path a file in it.
Resolve(t) ==
  /\ file[t].pc = "resolve"
  /\ \/ IF store[file[t].key] = NoObject THEN FileGive(t, NoObject) ELSE FileGoto(t, "open")
     \/ Raise(t)

\* path.stat() or path.open() and the reading, which raise for a path that is gone by now.
Open(t) ==
  LET v == store[file[t].key] IN
  /\ file[t].pc = "open"
  /\ (v # NoObject /\ FileGive(t, v)) \/ Raise(t)

FileReturn(t) ==
  /\ file[t].pc = "done"
  /\ file' = [file EXCEPT ![t] = NoFileCall]
  /\ UNCHANGED vars

FileWork(t) == Resolve(t) \/ Open(t)
=============================================================================
