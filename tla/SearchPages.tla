---------------------------- MODULE SearchPages ----------------------------
(***************************************************************************)
(* Repository search as the agent sees it: the virtual command `search     *)
(* grep|find`, the native finder it asks batch by batch, the content       *)
(* addressed snapshot its matches are kept in, and the pages and cursors   *)
(* cut from that snapshot while the workspace goes on changing.            *)
(*   search_command.py  the command grammar                                *)
(*   adk_adapter.py     the tool result around a page                      *)
(*   fff_search.py      finder, snapshots, cursors, pages                  *)
(* A file is its version: Hits(f, v) lines of version v of file f match,   *)
(* they are its lines 1..Hits(f, v), and a content hash is the version.    *)
(* The native search engine and the workspace's writers are external.      *)
(***************************************************************************)
EXTENDS Naturals, Sequences, FiniteSets, SequencesExt

CONSTANTS Searchers,      \* tool calls that may search at the same time
          FileOrder,      \* the files, in the order the finder visits them
          Hits(_, _),     \* matching lines of a file's version
          Scopes,         \* files a command may name as its path
          Sizes,          \* the page sizes grep and find commands ask for
          PerFile,        \* PER_FILE_PAGE_LIMIT
          MaxPerFile,     \* MAX_MATCHES_PER_FILE
          MaxMatches,     \* MAX_SNAPSHOT_MATCHES
          MaxBatches,     \* MAX_NATIVE_BATCHES
          Retained,       \* snapshots the store keeps
          MaxEdits, MaxSearches   \* bounds of the model

Files == Range(FileOrder)
Gone == MaxEdits + 1     \* the version of a file that was deleted

VARIABLES tree,           \* the version of each file in the workspace
          edits,         \* writes so far
          finder,         \* FALSE until the native finder is made
          stored,         \* the snapshots, by their age
          cursors,        \* the cursors handed to the agent
          searcher,       \* what each tool call is at
          searches,       \* commands started
          raced           \* files written inside a window no check covers

vars == <<tree, edits, finder, stored, cursors, searcher, searches, raced>>

(***************************************************************************)
(* Commands                                                                *)
(***************************************************************************)
Options == {"pattern", "path", "limit", "cursor", "mode", "context", "case"}

\* What a command line gives: an operation and each option at most once.
Allowed(op) == IF op = "grep" THEN Options ELSE {"pattern", "path", "limit", "cursor"}

\* parse_search_command: a cursor comes alone, a search needs its pattern.
Parses(op, given) == /\ given \subseteq Allowed(op)
                     /\ \/ given = {"cursor"}
                        \/ "cursor" \notin given /\ "pattern" \in given

(***************************************************************************)
(* Snapshots and pages                                                     *)
(***************************************************************************)
\* One match of a grep, one path of a find (line 0).
Match(f, n, v) == [path |-> f, line |-> n, sha |-> v]
Snapshot(op, size, incomplete, records) ==
    [op |-> op, size |-> size, incomplete |-> incomplete, records |-> records]

Least(S) == CHOOSE n \in S : \A m \in S : n <= m
PathsOf(records) == [i \in DOMAIN records |-> records[i].path]
\* The paths of the records, by their first match.
PathOrder(records) == SelectSeq(FileOrder, LAMBDA f : f \in Range(PathsOf(records)))
QueueOf(snap, f) == SelectSeq(snap.records, LAMBDA r : r.path = f)

\* What a page that holds `filled` matches already takes of one file's queue.
Taken(snap, f, from, filled) ==
    Least({PerFile, Len(QueueOf(snap, f)) - from, snap.size - filled})

\* One round over the files: the page and the offsets it leaves.
PageSkipping(snap, offsets) ==
    FoldLeft(LAMBDA acc, f :
                 LET n == Taken(snap, f, acc.offsets[f], Len(acc.page)) IN
                 [page |-> acc.page \o SubSeq(QueueOf(snap, f), acc.offsets[f] + 1,
                                              acc.offsets[f] + n),
                  offsets |-> [acc.offsets EXCEPT
                      ![f] = Least({@ + PerFile, Len(QueueOf(snap, f))})]],
             [page |-> <<>>, offsets |-> offsets], PathOrder(snap.records))
PageAfter(snap, offsets) ==
    FoldLeft(LAMBDA acc, f :
                 LET n == Taken(snap, f, acc.offsets[f], Len(acc.page)) IN
                 [page |-> acc.page \o SubSeq(QueueOf(snap, f), acc.offsets[f] + 1,
                                              acc.offsets[f] + n),
                  offsets |-> [acc.offsets EXCEPT ![f] = @ + n]],
             [page |-> <<>>, offsets |-> offsets], PathOrder(snap.records))

\* The pages of a grep: rounds until every queue is used up.
GrepPages(snap) ==
    LET round[n \in 0 .. Len(snap.records)] ==
            IF n = 0 THEN [page |-> <<>>, offsets |-> [f \in Files |-> 0]]
            ELSE PageAfter(snap, round[n - 1].offsets)
    IN SelectSeq([n \in 1 .. Len(snap.records) |-> round[n].page], LAMBDA p : p # <<>>)

\* The pages of a find: slices of its paths.
FindPages(snap) ==
    [n \in 1 .. (Len(snap.records) + snap.size - 1) \div snap.size |->
        SubSeq(snap.records, (n - 1) * snap.size + 1,
               Least({n * snap.size, Len(snap.records)}))]

Pages(snap) == IF snap.op = "grep" THEN GrepPages(snap) ELSE FindPages(snap)

\* put: a snapshot that is stored already keeps its age; the oldest beyond
\* the limit are deleted.
PutIn(store, snap) ==
    LET all == IF snap \in Range(store) THEN store ELSE Append(store, snap)
    IN SubSeq(all, Len(all) - Least({Len(all), Retained}) + 1, Len(all))

(***************************************************************************)
(* The tool calls                                                          *)
(***************************************************************************)
Resting == [at |-> "idle"]
Steps == {"idle", "ready", "batch", "hash", "put", "check", "read"}

Init == /\ tree = [f \in Files |-> 0]
        /\ edits = 0
        /\ finder = FALSE
        /\ stored = <<>>
        /\ cursors = {}
        /\ searcher = [s \in Searchers |-> Resting]
        /\ searches = 0
        /\ raced = {}

workspace == <<tree, edits, raced>>

\* The service's lock is held from the first native call to the last hash.
Locked == \E s \in Searchers : searcher[s].at \in {"batch", "hash"}

\* Every way out with an error: the tool reports it and forgets the search.
Fail(s) == /\ searcher' = [searcher EXCEPT ![s] = Resting]
           /\ UNCHANGED <<workspace, stored, cursors>>

\* A command that the grammar refuses, that names a file which is not there, or
\* finds no backend.
Refused(s, op, given, scope) ==
    /\ searcher[s].at = "idle"
    /\ searches < MaxSearches
    /\ \/ ~ Parses(op, given)
       \/ scope # <<>> /\ tree[scope[1]] = Gone
    /\ searches' = searches + 1
    /\ UNCHANGED finder
    /\ Fail(s)

\* A fresh search: arguments checked, then the finder made on its first use.
Search(s, op, given, size, scope) ==
    /\ searcher[s].at = "idle"
    /\ searches < MaxSearches
    /\ Parses(op, given) /\ "cursor" \notin given
    /\ scope # <<>> => tree[scope[1]] # Gone
    /\ ~ Locked
    /\ searches' = searches + 1
    /\ finder' = TRUE
    /\ searcher' = [searcher EXCEPT ![s] =
           [at |-> "ready", op |-> op, size |-> size,
            todo |-> IF scope = <<>> THEN FileOrder ELSE scope,
            items |-> <<>>, records |-> <<>>, batches |-> 0, incomplete |-> FALSE]]
    /\ UNCHANGED <<workspace, stored, cursors>>

\* The finder cannot be made, or its first scan is not over.
FinderUnavailable(s) == /\ searcher[s].at = "idle"
                        /\ searches < MaxSearches
                        /\ ~ finder
                        /\ searches' = searches + 1
                        /\ \E made \in BOOLEAN : finder' = made
                        /\ Fail(s)

\* The finder was closed between the readiness test and the native call.
FinderClosed(s) == /\ searcher[s].at = "ready"
                   /\ ~ finder
                   /\ UNCHANGED <<finder, searches>>
                   /\ Fail(s)

Close == /\ finder /\ ~ Locked
         /\ finder' = FALSE
         /\ UNCHANGED <<workspace, stored, cursors, searcher, searches>>

\* One native call: the hits of the next file as it is now, capped.
NativeBatch(s) ==
    /\ \/ searcher[s].at = "ready" /\ finder /\ ~ Locked
       \/ searcher[s].at = "batch"
    /\ searcher[s].op = "grep"
    /\ searcher[s].todo # <<>>
    /\ LET f == Head(searcher[s].todo)
           found == IF tree[f] = Gone THEN 0 ELSE Least({Hits(f, tree[f]), MaxPerFile})
       IN searcher' = [searcher EXCEPT
              ![s].at = "hash",
              ![s].todo = Tail(@),
              ![s].items = [n \in 1 .. found |-> <<f, n>>],
              ![s].batches = @ + 1,
              ![s].incomplete = @ \/ found = MaxPerFile]
    /\ UNCHANGED <<workspace, finder, stored, cursors, searches>>

\* The path of one native item is resolved and its file hashed, as it is now.
HashItem(s) ==
    /\ searcher[s].at = "hash"
    /\ searcher[s].items # <<>>
    /\ Len(searcher[s].records) < MaxMatches
    /\ tree[searcher[s].items[1][1]] # Gone
    /\ LET item == Head(searcher[s].items) IN
       searcher' = [searcher EXCEPT
           ![s].items = Tail(@),
           ![s].records = Append(@, Match(item[1], item[2], tree[item[1]])),
           ![s].incomplete = @ \/ Len(searcher[s].records) + 1 >= MaxMatches]
    /\ UNCHANGED <<workspace, finder, stored, cursors, searches>>

\* The file is gone when its path is resolved: the whole search fails.
ItemMissing(s) == /\ searcher[s].at = "hash"
                  /\ searcher[s].items # <<>>
                  /\ Len(searcher[s].records) < MaxMatches
                  /\ tree[searcher[s].items[1][1]] = Gone
                  /\ UNCHANGED <<finder, searches>>
                  /\ Fail(s)

\* The batch is recorded: another one, or the search ends and unlocks.
BatchDone(s) ==
    /\ searcher[s].at = "hash"
    /\ searcher[s].items = <<>> \/ Len(searcher[s].records) >= MaxMatches
    /\ LET over == \/ searcher[s].todo = <<>>
                   \/ Len(searcher[s].records) >= MaxMatches
                   \/ searcher[s].batches >= MaxBatches
       IN searcher' = [searcher EXCEPT
              ![s].at = IF over THEN "put" ELSE "batch",
              ![s].items = <<>>,
              ![s].incomplete = \/ @
                                \/ over /\ searcher[s].todo # <<>>
                                \/ searcher[s].batches >= MaxBatches]
    /\ UNCHANGED <<workspace, finder, stored, cursors, searches>>

\* A find is one native call; every path it returns must still be there.
NativeFind(s) ==
    /\ searcher[s].at = "ready" /\ finder /\ ~ Locked
    /\ searcher[s].op = "find"
    /\ LET there == SelectSeq(searcher[s].todo, LAMBDA f : tree[f] # Gone)
           kept == SubSeq(there, 1, Least({Len(there), MaxMatches}))
       IN searcher' = [searcher EXCEPT
              ![s].at = "put",
              ![s].records = [i \in DOMAIN kept |-> Match(kept[i], 0, 0)],
              ![s].incomplete = Len(there) > Len(kept)]
    /\ UNCHANGED <<workspace, finder, stored, cursors, searches>>

Rendering(snap, page) ==
    [at |-> "check", snap |-> snap, page |-> page,
     paths |-> PathOrder(Pages(snap)[page]), shown |-> <<>>]

\* The snapshot is stored; with no records the answer is that nothing matched.
PutSnapshot(s) ==
    /\ searcher[s].at = "put"
    /\ LET snap == Snapshot(searcher[s].op, searcher[s].size, searcher[s].incomplete,
                            searcher[s].records)
       IN /\ stored' = PutIn(stored, snap)
          /\ searcher' = [searcher EXCEPT ![s] =
                 IF snap.records = <<>> THEN Resting ELSE Rendering(snap, 1)]
    /\ UNCHANGED <<workspace, finder, cursors, searches>>

\* A command that gives a cursor: its snapshot is loaded, or expired.
Continue(s, op, c) ==
    /\ searcher[s].at = "idle"
    /\ searches < MaxSearches
    /\ Parses(op, {"cursor"})
    /\ searches' = searches + 1
    /\ searcher' = [searcher EXCEPT ![s] =
           IF \/ c.snap \notin Range(stored)
              \/ c.snap.op # op
              \/ c.page > Len(Pages(c.snap))
           THEN Resting ELSE Rendering(c.snap, c.page)]
    /\ UNCHANGED <<workspace, finder, stored, cursors>>

FirstOf(page, f) == Head(SelectSeq(page, LAMBDA r : r.path = f))

\* Whether a page may show a file as it is now: a find's page only needs the
\* file, a grep's page the content its records were made from.
ThereStill(snap, page, f) == tree[f] # Gone
Unchanged(snap, page, f) ==
    tree[f] # Gone /\ (snap.op = "grep" => tree[f] = FirstOf(page, f).sha)

CheckFile(s) ==
    /\ searcher[s].at = "check"
    /\ searcher[s].paths # <<>>
    /\ IF Unchanged(searcher[s].snap, Pages(searcher[s].snap)[searcher[s].page],
                    Head(searcher[s].paths))
       THEN searcher' = [searcher EXCEPT ![s].at = "read"]
       ELSE searcher' = [searcher EXCEPT ![s] = Resting]
    /\ UNCHANGED <<workspace, finder, stored, cursors, searches>>

\* The file is opened a second time for its lines.
ReadFile(s) ==
    /\ searcher[s].at = "read"
    /\ LET f == Head(searcher[s].paths)
           mine == SelectSeq(Pages(searcher[s].snap)[searcher[s].page],
                             LAMBDA r : r.path = f)
       IN IF tree[f] = Gone /\ searcher[s].snap.op = "grep"
          THEN searcher' = [searcher EXCEPT ![s] = Resting]
          ELSE searcher' = [searcher EXCEPT
                   ![s].at = "check",
                   ![s].paths = Tail(@),
                   ![s].shown = @ \o [i \in DOMAIN mine |-> Match(f, mine[i].line, tree[f])]]
    /\ UNCHANGED <<workspace, finder, stored, cursors, searches>>

\* The tool's answer: the snapshot is stored again, so that the cursor of the
\* next page resolves although it may have expired while this page was made.
\* How a long page is cut and kept as an artifact is left out.
StoreKept(snap) == stored
StoreAgain(snap) == PutIn(stored, snap)

Give(s) ==
    /\ searcher[s].at = "check"
    /\ searcher[s].paths = <<>>
    /\ stored' = StoreAgain(searcher[s].snap)
    /\ cursors' = IF searcher[s].page < Len(Pages(searcher[s].snap))
                  THEN cursors \cup {[snap |-> searcher[s].snap,
                                      page |-> searcher[s].page + 1]}
                  ELSE cursors
    /\ searcher' = [searcher EXCEPT ![s] = Resting]
    /\ UNCHANGED <<workspace, finder, searches>>

\* Somebody writes or deletes a file. A writer in the window between a native
\* match and its hash, or between the hash of a page's file and its reading,
\* is seen by no check.
Exposed(f) ==
    \E s \in Searchers :
       \/ searcher[s].at = "hash" /\ \E i \in DOMAIN searcher[s].items :
                                         searcher[s].items[i][1] = f
       \/ searcher[s].at = "read" /\ Head(searcher[s].paths) = f

Write(f) ==
    /\ edits < MaxEdits
    /\ edits' = edits + 1
    /\ \E v \in {edits + 1, Gone} : tree' = [tree EXCEPT ![f] = v]
    /\ raced' = IF Exposed(f) THEN raced \cup {f} ELSE raced
    /\ UNCHANGED <<finder, stored, cursors, searcher, searches>>

SearcherStep(s) ==
    \/ \E op \in {"grep", "find"} : \E size \in Sizes[op],
          scope \in {<<>>} \cup {<<f>> : f \in Scopes} :
             Search(s, op, {"pattern", "path", "limit"}, size, scope)
    \/ \E op \in {"grep", "find"}, given \in {{"pattern", "cursor"}, {"pattern", "path"}},
          f \in Scopes : Refused(s, op, given, <<f>>)
    \/ \E op \in {"grep", "find"}, c \in cursors : Continue(s, op, c)
    \/ FinderUnavailable(s) \/ FinderClosed(s) \/ NativeBatch(s) \/ HashItem(s)
    \/ ItemMissing(s) \/ BatchDone(s) \/ NativeFind(s) \/ PutSnapshot(s)
    \/ CheckFile(s) \/ ReadFile(s) \/ Give(s)

Next == \/ \E s \in Searchers : SearcherStep(s)
        \/ \E f \in Files : Write(f)
        \/ Close

Spec == Init /\ [][Next]_vars

(***************************************************************************)
(* Properties                                                              *)
(***************************************************************************)
TypeOK == /\ tree \in [Files -> 0 .. Gone]
          /\ finder \in BOOLEAN
          /\ \A s \in Searchers : searcher[s].at \in Steps
          /\ Len(stored) <= Retained
          /\ edits \in 0 .. MaxEdits /\ searches \in 0 .. MaxSearches
          /\ raced \subseteq Files

Count(seq, x) == Cardinality({i \in DOMAIN seq : seq[i] = x})

\* Following the cursors of a search from its first page shows every match the
\* snapshot collected exactly once, whatever the per-file cap and the page size
\* do to the order, and no page is empty or longer than asked.
PagesPartition ==
    \A i \in DOMAIN stored :
       LET snap == stored[i]
           pages == Pages(snap)
           all == FlattenSeq(pages)
       IN /\ Len(all) = Len(snap.records)
          /\ \A r \in Range(snap.records) : Count(all, r) = Count(snap.records, r)
          /\ \A n \in DOMAIN pages : Len(pages[n]) \in 1 .. snap.size

\* A page, also one asked for long after its search, shows a line as a match
\* only if that line matches in the text it shows, unless the file was written
\* in one of the two windows no hash covers.
PagesShowMatches ==
    \A s \in Searchers :
       searcher[s].at \in {"check", "read"} =>
          (searcher[s].snap.op = "grep" =>
             \A i \in DOMAIN searcher[s].shown :
                LET r == searcher[s].shown[i] IN
                \/ r.path \in raced
                \/ r.line <= Hits(r.path, r.sha))

\* A cursor given out resolves at that moment, although other searches may have
\* pushed its snapshot out of the store since the cursor before it was loaded.
CursorsResolve == [][\A c \in cursors' \ cursors : c.snap \in Range(stored')]_vars
=============================================================================
