----------------------------- MODULE Workspaces -----------------------------
(***************************************************************************)
(* The worktree of a task: created or attached again by `skein run`,       *)
(* looked up by the running agent each time it fingerprints its workspace, *)
(* removed by `skein cleanup`. Creating and removing hold a file lock,     *)
(* looking up does not, and all three write the task's record anew.        *)
(*   workspace/manager.py, cli.py prepare_run and cleanup                  *)
(* One task. A revision is a number; Git is external: it adds a worktree   *)
(* at a revision and refuses to remove a dirty one unless forced.          *)
(***************************************************************************)
EXTENDS Naturals, Sequences, FiniteSets

CONSTANTS Processes,            \* processes of the command line and agents
          MaxRevisions, MaxKills   \* bounds of the model

VARIABLES head,      \* the revision base_ref names in the source repository
          worktree,  \* <<>>, or <<the revision the worktree was added at>>
          record,    \* <<>>, <<base revision>> or Torn: the metadata file
          temporary, \* the same for the one temporary file it is written to
          holder,    \* the processes that hold the lock
          process,   \* what each process is at
          ends,      \* processes killed so far
          unsure     \* history: what makes the record uncertain

vars == <<head, worktree, record, temporary, holder, process, ends, unsure>>

Torn == <<0, 0>>
Idle == [at |-> "idle"]

\* What a process of the manager is doing: op, the base revision it works with.
Doing(at, op, base) == [at |-> at, op |-> op, base |-> base, through |-> FALSE]

Init == /\ head = 0
        /\ worktree = <<>> /\ record = <<>> /\ temporary = <<>>
        /\ holder = {}
        /\ process = [p \in Processes |-> Idle]
        /\ ends = 0
        /\ unsure = {}

files == <<worktree, record, temporary>>

\* A command or lookup is over; its lock is released.
Over(p) == /\ process' = [process EXCEPT ![p] = Idle]
           /\ holder' = holder \ {p}

Commit == /\ head < MaxRevisions
          /\ head' = head + 1
          /\ UNCHANGED <<files, holder, process, ends, unsure>>

(***************************************************************************)
(* create                                                                  *)
(***************************************************************************)
\* The base revision a create attaches an existing worktree with: the recorded
\* one, or with no record the one it has resolved.
BaseResolved(p) == process[p].base
AttachedBase(p) == IF record = <<>> THEN process[p].base ELSE record[1]

Create(p) == /\ process[p].at = "idle"
             /\ holder = {}
             /\ holder' = {p}
             /\ process' = [process EXCEPT ![p] = Doing("create", "create", head)]
             /\ UNCHANGED <<head, files, ends, unsure>>

Attach(p) == /\ process[p].at = "create"
             /\ worktree # <<>>
             /\ IF record = Torn THEN Over(p)
                ELSE /\ process' = [process EXCEPT
                            ![p] = Doing("probe", "create", AttachedBase(p))]
                     /\ UNCHANGED holder
             /\ UNCHANGED <<head, files, ends, unsure>>

Add(p) == /\ process[p].at = "create"
          /\ worktree = <<>>
          /\ worktree' = <<process[p].base>>
          /\ process' = [process EXCEPT ![p].at = "probe"]
          /\ UNCHANGED <<head, record, temporary, holder, ends, unsure>>

(***************************************************************************)
(* load, and remove, which begins with it                                  *)
(***************************************************************************)
Load(p, op) ==
    /\ process[p].at = "idle"
    /\ op = "remove" => holder = {}
    /\ record \notin {<<>>, Torn}
    /\ worktree # <<>>
    /\ holder' = IF op = "remove" THEN {p} ELSE holder
    /\ process' = [process EXCEPT ![p] = Doing("probe", op, record[1])]
    /\ UNCHANGED <<head, files, ends, unsure>>

\* The worktree of a clean or forced task is removed, then its record; Git
\* refuses a dirty one.
RemoveTree(p) == /\ process[p].at = "remove"
                 /\ \/ /\ worktree' = <<>>
                       /\ process' = [process EXCEPT ![p].at = "unlink"]
                       /\ UNCHANGED holder
                    \/ UNCHANGED worktree /\ Over(p)
                 /\ unsure' = IF \E q \in Processes \ {p} : process[q].at # "idle"
                              THEN unsure \cup {"overtaken"} ELSE unsure
                 /\ UNCHANGED <<head, record, temporary, ends>>

Unlink(p) == /\ process[p].at = "unlink"
             /\ record' = <<>>
             /\ Over(p)
             /\ UNCHANGED <<head, worktree, temporary, ends, unsure>>

(***************************************************************************)
(* _record                                                                 *)
(***************************************************************************)
\* Git is asked for the worktree's revision and branch, which must be there.
Probe(p) == /\ process[p].at = "probe"
            /\ IF worktree = <<>> THEN Over(p)
               ELSE /\ process' = [process EXCEPT ![p].at = "open"]
                    /\ UNCHANGED holder
            /\ UNCHANGED <<head, files, ends, unsure>>

\* _atomic_json: the temporary file, one for all writers of the record, is
\* opened and truncated, written, and moved over the record. A writer that
\* still holds the file open when another moves it writes through to the record.
Open(p) == /\ process[p].at = "open"
           /\ temporary' = Torn
           /\ process' = [process EXCEPT ![p].at = "write"]
           /\ unsure' = IF \E q \in Processes \ {p} : process[q].at \in {"write", "replace"}
                        THEN unsure \cup {"overlapped"} ELSE unsure
           /\ UNCHANGED <<head, worktree, record, holder, ends>>

Write(p) == /\ process[p].at = "write"
            /\ IF process[p].through
               THEN /\ record' = IF record = <<>> THEN <<>> ELSE <<process[p].base>>
                    /\ UNCHANGED temporary
               ELSE temporary' = <<process[p].base>> /\ UNCHANGED record
            /\ process' = [process EXCEPT ![p].at = "replace"]
            /\ UNCHANGED <<head, worktree, holder, ends, unsure>>

Replace(p) ==
    /\ process[p].at = "replace"
    /\ temporary # <<>>
    /\ record' = temporary
    /\ temporary' = <<>>
    /\ process' = [q \in Processes |->
           IF q = p
           THEN IF process[p].op = "remove" THEN [process[p] EXCEPT !.at = "remove"] ELSE Idle
           ELSE IF process[q].at = "write" THEN [process[q] EXCEPT !.through = TRUE]
           ELSE process[q]]
    /\ holder' = IF process[p].op = "create" THEN holder \ {p} ELSE holder
    /\ UNCHANGED <<head, worktree, ends, unsure>>

\* Another writer has moved the temporary file: the move fails.
ReplaceGone(p) == /\ process[p].at = "replace"
                  /\ temporary = <<>>
                  /\ Over(p)
                  /\ UNCHANGED <<head, files, ends, unsure>>

\* The process is killed; the system releases its lock.
Kill(p) == /\ process[p].at # "idle"
           /\ ends < MaxKills
           /\ ends' = ends + 1
           /\ Over(p)
           /\ unsure' = IF record = <<>> \/ process[p].at = "unlink"
                        THEN unsure \cup {"abandoned"} ELSE unsure
           /\ UNCHANGED <<head, files>>

Next == \/ Commit
        \/ \E p \in Processes :
              \/ Create(p) \/ Attach(p) \/ Add(p)
              \/ \E op \in {"load", "remove"} : Load(p, op)
              \/ RemoveTree(p) \/ Unlink(p)
              \/ Probe(p) \/ Open(p) \/ Write(p) \/ Replace(p) \/ ReplaceGone(p)
              \/ Kill(p)

Spec == Init /\ [][Next]_vars

(***************************************************************************)
(* Properties                                                              *)
(***************************************************************************)
TypeOK == /\ head \in 0 .. MaxRevisions
          /\ Cardinality(holder) <= 1
          /\ \A file \in {record, temporary} :
                file = Torn \/ Len(file) <= 1
          /\ Len(worktree) <= 1
          /\ ends \in 0 .. MaxKills
          /\ unsure \subseteq {"overtaken", "overlapped", "abandoned"}

\* However often a task is started again while the source repository moves on,
\* the base its changes are measured from is the revision its worktree was added
\* at: what the record says and what a create hands to the agent. Two things can
\* break it, and nothing else: a create or a removal killed before the record was
\* written or deleted, and a removal that overtook a process between its reading
\* the record and writing it.
BaseKept ==
    (unsure \cap {"overtaken", "abandoned"} = {} /\ worktree # <<>>) =>
       /\ record \notin {<<>>, Torn} => record = worktree
       /\ \A p \in Processes :
             process[p].at \in {"probe", "open", "write", "replace"} =>
                <<process[p].base>> = worktree

\* The record can be read at every moment, also after a kill in the middle of
\* writing it, unless two processes wrote it at once.
RecordReadable == record = Torn => "overlapped" \in unsure

\* What the record of a task says can be relied on: it parses, and its base is
\* the one the worktree was added at.
RecordReliable == BaseKept /\ RecordReadable
=============================================================================
