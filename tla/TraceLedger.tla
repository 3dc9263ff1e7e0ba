---------------------------- MODULE TraceLedger ----------------------------
(***************************************************************************)
(* The canonical ledger of harness/ledger/ beside the stores it shadows.   *)
(*                                                                         *)
(* A task's events are lines of its file; receipts, steering messages,     *)
(* approvals, spans and sessions are rows of tables.  Every change of a    *)
(* store is imported into the ledger by the thread that made it, as an     *)
(* event of its own.  Readers of the task's events repair the ledger from  *)
(* the file and are served from the ledger.  A task can be erased.         *)
(***************************************************************************)
EXTENDS Integers, Sequences, FiniteSets, SequencesExt, Listing

CONSTANTS Tasks,
          Keys,        \* idempotency keys of task events
          Items,       \* rows of the tables
          TaskOf,      \* the task of each key and item
          StoreOf,      \* the store of each item
          ArtifactOf,  \* the artifact an event of a key names, or NoValue
          Rank,        \* tasks by name, rows by table: the order of a backfill
          Writers,     \* threads
          MaxVersion,  \* bound: changes of a row
          MaxWrites,   \* bound: writes begun
          MaxStarts,   \* bound: starts of the process
          NoValue

(* The stores in the order in which an erasure visits them. *)
Stores == <<"receipts", "approvals", "traces", "steering", "sessions">>

ASSUME LedgerAssumption ==
    /\ IsFiniteSet(Keys) /\ IsFiniteSet(Items) /\ Keys \cap Items = {}
    /\ \A x \in Keys \cup Items : TaskOf[x] \in Tasks
    /\ Rank \in [Tasks \cup Items -> Nat]
    /\ \A t, u \in Tasks : Rank[t] = Rank[u] => t = u
    /\ \A i, j \in Items : Rank[i] = Rank[j] => i = j
    /\ \A i \in Items : StoreOf[i] \in ToSet(Stores)
    /\ MaxVersion \in Nat /\ MaxWrites \in Nat /\ MaxStarts \in Nat \ {0}

VARIABLES
    starts,    \* starts of the process
    writes,    \* writes begun
    files,     \* the events file of each task: keys in order
    table,     \* status and version of each row
    objects,   \* artifacts in the store
    sealed,    \* sealed segments of each task: "none", "bare" or "listed"
    ledger,    \* the ledger's events in order
    writer,    \* what each thread is doing
    reader,    \* a read of a task's events
    eraser,    \* an erasure of a task
    orderly,   \* history: each event was imported before the next was appended,
               \* and none was erased
    calm       \* history: the erasure found nothing under way, the ledger and
               \* the files at one, and nothing else has moved since

stores == <<files, table, objects, sealed>>
ledgerVars == <<starts, writes, stores, ledger, writer, reader, eraser, orderly, calm>>

NoRow == [status |-> "none", version |-> 0]
Idle   == [stage |-> "idle"]
NoRead == [stage |-> "idle", task |-> NoValue, left |-> <<>>, want |-> <<>>]
NoErasure == [stage |-> "idle", task |-> NoValue, next |-> 1, doomed |-> {},
              named |-> {}]  \* history: the artifacts that the task's file named

LedgerInit ==
    /\ starts = 1 /\ writes = 0
    /\ files = [t \in Tasks |-> <<>>]
    /\ table = [i \in Items |-> NoRow]
    /\ objects = {} /\ sealed = [t \in Tasks |-> "none"]
    /\ ledger = <<>>
    /\ writer = [w \in Writers |-> Idle]
    /\ reader = NoRead /\ eraser = NoErasure
    /\ orderly = TRUE /\ calm = FALSE

----------------------------------------------------------------------------
(* append of the ledger, under its lock.                                   *)

(* An event's identity in its source is its key's unless a version is part
   of it: a span gets a new id each time it is observed. *)
Fact(key, status, version) ==
    [task |-> TaskOf[key], key |-> <<key, status>>, version |-> version]

Same(fact) == {i \in DOMAIN ledger : ledger[i].task = fact.task /\ ledger[i].key = fact.key}
Conflicts(fact) == \E i \in Same(fact) : ledger[i].version # fact.version

Extended(fact) == IF Same(fact) = {} THEN Append(ledger, fact) ELSE ledger

(* A key that is known for other content is an error of the caller. *)
Import(fact) == ledger' = Extended(fact)

Events(t) == Only(ledger, {f \in ToSet(ledger) : f.task = t /\ f.key[1] \in Keys})
KeysOf(facts) == [i \in DOMAIN facts |-> facts[i].key[1]]
Imported(k) == \E i \in DOMAIN ledger : ledger[i].key[1] = k

----------------------------------------------------------------------------
(* Writers.                                                                *)

Moved == calm' = FALSE

(* put_artifact: bytes that are there already are not written again. *)
Put(w, k) ==
    /\ writer[w].stage = "idle" /\ writes < MaxWrites
    /\ objects' = objects \cup ({ArtifactOf[k]} \ {NoValue})
    /\ writer' = [writer EXCEPT ![w] = [stage |-> "append", key |-> k]]
    /\ Moved /\ writes' = writes + 1
    /\ UNCHANGED <<starts, files, table, sealed, ledger, reader, eraser, orderly>>

(* The event store's append: a key that is there is returned. *)
AppendEvent(w) ==
    /\ writer[w].stage = "append"
    /\ LET k == writer[w].key
           t == TaskOf[k]
           new == ~Contains(files[t], k)
       IN  /\ files' = IF new THEN [files EXCEPT ![t] = Append(@, k)] ELSE files
           /\ orderly' = (orderly /\ (new => \A i \in DOMAIN files[t] : Imported(files[t][i])))
           /\ writer' = [writer EXCEPT ![w] = [stage |-> "import", fact |-> Fact(k, "event", 1)]]
    /\ Moved
    /\ UNCHANGED <<starts, writes, table, objects, sealed, ledger, reader, eraser>>

(* What becomes of a row.  A receipt that failed may fail again and a lease
   that expired is given again, each with new times in the row. *)
Changes(kind) ==
    CASE kind = "receipts"  -> {<<"none", "started">>, <<"started", "failed">>,
                                <<"started", "completed">>, <<"failed", "failed">>,
                                <<"failed", "completed">>}
      [] kind = "steering"  -> {<<"none", "queued">>, <<"queued", "leased">>,
                                <<"leased", "leased">>, <<"leased", "queued">>,
                                <<"leased", "acked">>}
      [] kind = "approvals" -> {<<"none", "pending">>, <<"pending", "approved">>,
                                <<"pending", "denied">>, <<"pending", "expired">>}
      [] kind = "sessions"  -> {<<"none", "recorded">>}
      [] OTHER              -> {}

(* The content that the ledger compares: a message that is queued again is
   what it was, all other content has its times. *)
Content(status, version) == IF status = "queued" THEN 1 ELSE version

(* A row is committed, then imported. *)
Change(w, i) ==
    /\ writer[w].stage = "idle" /\ writes < MaxWrites /\ table[i].version < MaxVersion
    /\ \E change \in Changes(StoreOf[i]) :
          /\ change[1] = table[i].status
          /\ table' = [table EXCEPT ![i] = [status |-> change[2], version |-> @.version + 1]]
          /\ writer' = [writer EXCEPT ![w] =
                [stage |-> "import",
                 fact |-> Fact(i, change[2], Content(change[2], table[i].version + 1))]]
    /\ Moved /\ writes' = writes + 1
    /\ UNCHANGED <<starts, files, objects, sealed, ledger, reader, eraser, orderly>>

Record(w) ==
    /\ writer[w].stage = "import"
    /\ Import(writer[w].fact)
    /\ writer' = [writer EXCEPT ![w] = Idle]
    /\ Moved
    /\ UNCHANGED <<starts, writes, stores, reader, eraser, orderly>>

(* A span is imported inside the transaction that inserts it, under the id
   it was given: a refusal rolls the row back. *)
Observe(w, i) ==
    /\ StoreOf[i] = "traces" /\ table[i] = NoRow /\ writer[w].stage = "idle" /\ writes < MaxWrites
    /\ Import(Fact(i, "span", starts))
    /\ writer' = [writer EXCEPT ![w] = IF Conflicts(Fact(i, "span", starts)) THEN Idle
                                       ELSE [stage |-> "commit", item |-> i]]
    /\ Moved /\ writes' = writes + 1
    /\ UNCHANGED <<starts, stores, reader, eraser, orderly>>

CommitSpan(w) ==
    /\ writer[w].stage = "commit"
    /\ table' = [table EXCEPT ![writer[w].item] = [status |-> "span", version |-> starts]]
    /\ writer' = [writer EXCEPT ![w] = Idle]
    /\ Moved
    /\ UNCHANGED <<starts, writes, files, objects, sealed, ledger, reader, eraser, orderly>>

----------------------------------------------------------------------------
(* A read: the file is imported, then the ledger served.                   *)

BeginRead(t) ==
    /\ reader.stage = "idle"
    /\ reader' = [NoRead EXCEPT !.stage = "repairing", !.task = t,
                                !.left = files[t], !.want = files[t]]
    /\ Moved
    /\ UNCHANGED <<starts, writes, stores, ledger, writer, eraser, orderly>>

(* A mutant: a file as long as the ledger's events is taken for imported. *)
RepairByLength ==
    /\ reader.stage = "repairing" /\ reader.left # <<>>
    /\ IF Len(Events(reader.task)) >= Len(reader.want)
       THEN UNCHANGED ledger
       ELSE Import(Fact(Head(reader.left), "event", 1))
    /\ reader' = [reader EXCEPT !.left = Tail(@)]
    /\ Moved
    /\ UNCHANGED <<starts, writes, stores, writer, eraser, orderly>>

Repair ==
    /\ reader.stage = "repairing" /\ reader.left # <<>>
    /\ Import(Fact(Head(reader.left), "event", 1))
    /\ reader' = [reader EXCEPT !.left = Tail(@)]
    /\ Moved
    /\ UNCHANGED <<starts, writes, stores, writer, eraser, orderly>>

(* What is served: the ledger's events of the task, numbered anew. *)
Served(t) == KeysOf(Events(t))

Serve ==
    /\ reader.stage = "repairing" /\ reader.left = <<>>
    /\ reader' = NoRead
    /\ Moved
    /\ UNCHANGED <<starts, writes, stores, ledger, writer, eraser, orderly>>

----------------------------------------------------------------------------
(* Offline: backfill and sealing.                                          *)

(* backfill_state_root imports every store and stops at the first refusal:
   the files by name, each in its order, then the tables. *)
FileFacts == {Fact(k, "event", 1) : k \in UNION {ToSet(files[t]) : t \in Tasks}}
RowFacts == {Fact(i, table[i].status, Content(table[i].status, table[i].version)) :
                i \in {j \in Items : table[j] # NoRow}}

(* A key's place in its file. *)
Position(k) == CHOOSE n \in DOMAIN files[TaskOf[k]] : files[TaskOf[k]][n] = k

Earlier(f, g) ==
    LET k == f.key[1]
        l == g.key[1]
    IN  IF k \in Keys /\ l \in Keys
        THEN Rank[f.task] < Rank[g.task] \/ (f.task = g.task /\ Position(k) < Position(l))
        ELSE k \in Keys \/ (l \notin Keys /\ Rank[k] < Rank[l])

Facts == InOrder(FileFacts \cup RowFacts, Earlier)

Backfill ==
    /\ \A w \in Writers : writer[w].stage = "idle"
    /\ reader.stage = "idle" /\ eraser.stage \in {"idle", "cut", "done"}
    /\ LET facts == Facts
           good == {n \in DOMAIN facts : \A m \in 1 .. n : ~ Conflicts(facts[m])}
           new  == {f \in FileFacts \cup RowFacts : Same(f) = {}}
       IN  ledger' = ledger \o Only(SubSeq(facts, 1, Cardinality(good)), new)
    /\ UNCHANGED <<starts, writes, stores, writer, reader, eraser, orderly, calm>>

(* seal_task_events: the segment is published, then its manifest. *)
Seal(t) ==
    /\ sealed[t] = "none" /\ \E i \in DOMAIN ledger : ledger[i].task = t
    /\ sealed' = [sealed EXCEPT ![t] = "bare"]
    /\ Moved
    /\ UNCHANGED <<starts, writes, files, table, objects, ledger, writer, reader, eraser, orderly>>

List(t) ==
    /\ sealed[t] = "bare"
    /\ sealed' = [sealed EXCEPT ![t] = "listed"]
    /\ Moved
    /\ UNCHANGED <<starts, writes, files, table, objects, ledger, writer, reader, eraser, orderly>>

----------------------------------------------------------------------------
(* erase_task_state.                                                       *)

Named(facts) == {ArtifactOf[facts[i].key[1]] : i \in {j \in DOMAIN facts : facts[j].key[1] \in Keys}}
                \ {NoValue}

NamedInFile(t) == {ArtifactOf[files[t][n]] : n \in DOMAIN files[t]} \ {NoValue}

Quiet ==
    /\ \A w \in Writers : writer[w].stage = "idle"
    /\ reader.stage = "idle" /\ "bare" \notin {sealed[t] : t \in Tasks}
    /\ \A t \in Tasks : ToSet(files[t]) = ToSet(KeysOf(Events(t)))

Begin(t, doomed) ==
    /\ eraser.stage \in {"idle", "cut"}
    /\ eraser' = [stage |-> "ledger", task |-> t, next |-> 1,
                  doomed |-> doomed, named |-> NamedInFile(t)]
    /\ calm' = Quiet
    /\ UNCHANGED <<starts, writes, stores, ledger, writer, reader, orderly>>

(* A mutant: what other tasks name is not looked up. *)
ScanOwn(t) == Begin(t, Named(Events(t)))

(* The artifacts that only this task's events name, as the ledger has them. *)
Scan(t) == Begin(t, Named(Events(t)) \ UNION {Named(Events(u)) : u \in Tasks \ {t}})

EraseLedger ==
    /\ eraser.stage = "ledger"
    /\ ledger' = Only(ledger, {f \in ToSet(ledger) : f.task # eraser.task})
    /\ eraser' = [eraser EXCEPT !.stage = "tables"]
    /\ orderly' = FALSE
    /\ UNCHANGED <<starts, writes, stores, writer, reader, calm>>

EraseTable ==
    /\ eraser.stage = "tables"
    /\ table' = [i \in Items |->
                    IF TaskOf[i] = eraser.task /\ StoreOf[i] = Stores[eraser.next]
                    THEN NoRow ELSE table[i]]
    /\ eraser' = [eraser EXCEPT !.next = @ + 1,
                                !.stage = IF eraser.next = Len(Stores) THEN "file" ELSE @]
    /\ UNCHANGED <<starts, writes, files, objects, sealed, ledger, writer, reader, orderly, calm>>

EraseFile ==
    /\ eraser.stage = "file"
    /\ files' = [files EXCEPT ![eraser.task] = <<>>]
    /\ eraser' = [eraser EXCEPT !.stage = "artifacts"]
    /\ UNCHANGED <<starts, writes, table, objects, sealed, ledger, writer, reader, orderly, calm>>

(* A segment is found by its manifest. *)
EraseArtifacts ==
    /\ eraser.stage = "artifacts"
    /\ objects' = objects \ eraser.doomed
    /\ sealed' = [sealed EXCEPT ![eraser.task] = IF @ = "listed" THEN "none" ELSE @]
    /\ eraser' = [NoErasure EXCEPT !.stage = "done"]
    /\ UNCHANGED <<starts, writes, files, table, ledger, writer, reader, orderly, calm>>

----------------------------------------------------------------------------

(* The process stops; an erasure that was cut off may be made again. *)
ProcessStops ==
    /\ starts < MaxStarts
    /\ starts' = starts + 1
    /\ writer' = [w \in Writers |-> Idle]
    /\ reader' = NoRead
    /\ eraser' = IF eraser.stage \in {"idle", "done"} THEN eraser
                 ELSE [NoErasure EXCEPT !.stage = "cut"]
    /\ Moved
    /\ UNCHANGED <<writes, stores, ledger, orderly>>

LedgerNext ==
    \/ \E w \in Writers :
          \/ \E k \in Keys : Put(w, k)
          \/ \E i \in Items : Change(w, i) \/ Observe(w, i)
          \/ AppendEvent(w) \/ Record(w) \/ CommitSpan(w)
    \/ \E t \in Tasks : BeginRead(t) \/ Seal(t) \/ List(t) \/ Scan(t)
    \/ Repair \/ Serve \/ Backfill
    \/ EraseLedger \/ EraseTable \/ EraseFile \/ EraseArtifacts
    \/ ProcessStops

LedgerSpec == LedgerInit /\ [][LedgerNext]_ledgerVars

----------------------------------------------------------------------------
(* Properties.                                                             *)

(* The shape of the state: what is in which store, and what is under way. *)
LedgerTypeOK ==
    /\ starts \in 1 .. MaxStarts /\ writes \in 0 .. MaxWrites
    /\ \A t \in Tasks : ToSet(files[t]) \subseteq {k \in Keys : TaskOf[k] = t}
    /\ \A i \in Items : table[i].version \in (0 .. MaxVersion) \cup (1 .. MaxStarts)
    /\ objects \subseteq {ArtifactOf[k] : k \in Keys}
    /\ sealed \in [Tasks -> {"none", "bare", "listed"}]
    /\ \A i \in DOMAIN ledger : ledger[i].task \in Tasks
    /\ \A w \in Writers : writer[w].stage \in {"idle", "append", "import", "commit"}
    /\ reader.stage \in {"idle", "repairing"}
    /\ eraser.stage \in {"idle", "ledger", "tables", "file", "artifacts", "done", "cut"}
    /\ orderly \in BOOLEAN /\ calm \in BOOLEAN

(* shadow.py:26: a read repairs what a stop left out.  What is served holds
   every event that the file held when the read began, each event once, and
   nothing else; if each event was imported before the next was appended, in
   the order of the file. *)
ServesTheTask ==
    [][(Serve /\ eraser.stage = "idle") =>
          LET got == Served(reader.task)
          IN  /\ ToSet(reader.want) \subseteq ToSet(got)
              /\ ToSet(got) \subseteq ToSet(files[reader.task])
              /\ IsInjective(got)
              /\ orderly => IsPrefix(reader.want, got)]_ledgerVars

(* "removes an exact task" (IMPLEMENTATION_STATUS.md:180): an erasure that
   nothing disturbs leaves no event, row, line, segment or artifact of the task
   and takes no artifact that an event of another task names. *)
ErasureIsExact ==
    [][(EraseArtifacts /\ calm) =>
          LET t == eraser.task
              others == UNION {NamedInFile(u) : u \in Tasks \ {t}}
          IN  /\ \A i \in DOMAIN ledger' : ledger'[i].task # t
              /\ \A i \in Items : TaskOf[i] = t => table'[i] = NoRow
              /\ files'[t] = <<>> /\ sealed'[t] = "none"
              /\ eraser.named \cap objects' \subseteq others
              /\ others \subseteq objects']_ledgerVars

=============================================================================
