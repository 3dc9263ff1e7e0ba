------------------------ MODULE RunCoordinatorProofs ------------------------
(***************************************************************************)
(* Theorems about RunCoordinator, for any runs, clients and bounds: types, *)
(* the invariant of RunCoordinatorInvariant and what follows from it, what *)
(* may abandon a run; and the coordinator implements RunHistory.           *)
(***************************************************************************)
EXTENDS RunCoordinatorInvariant, SequenceTheorems, TLAPS

(* Taking the k-th task out of a lock. *)
LEMMA RemoveAtProperties ==
  ASSUME NEW S, NEW s \in Seq(S), NEW k \in 1..Len(s)
  PROVE  /\ RemoveAt(s, k) \in Seq(S)
         /\ Len(RemoveAt(s, k)) = Len(s) - 1
         /\ \A i \in 1..Len(s)-1 : RemoveAt(s, k)[i] = s[IF i < k THEN i ELSE i + 1]
<1> DEFINE n == Len(s)  front == SubSeq(s, 1, k-1)  back == SubSeq(s, k+1, n)
<1>1. n \in Nat /\ k \in 1..n /\ \A i \in 1..n : s[i] \in S
  OBVIOUS
<1>2. /\ front \in Seq(S) /\ Len(front) = k - 1
      /\ \A i \in 1..k-1 : front[i] = s[i]
  <2>1. 1 \in Int /\ k-1 \in Int /\ \A i \in 1..k-1 : s[i] \in S
    BY <1>1
  <2>2. /\ front \in Seq(S)
        /\ Len(front) = IF 1 <= k-1 THEN (k-1)-1+1 ELSE 0
        /\ \A i \in 1..(k-1)-1+1 : front[i] = s[1+i-1]
    BY ONLY <2>1, SubSeqProperties
  <2> HIDE DEF front
  <2> QED BY ONLY <1>1, <2>2
<1>3. /\ back \in Seq(S) /\ Len(back) = n - k
      /\ \A i \in 1..n-k : back[i] = s[k+i]
  <2>1. k+1 \in Int /\ n \in Int /\ \A i \in k+1..n : s[i] \in S
    BY <1>1
  <2>2. /\ back \in Seq(S)
        /\ Len(back) = IF k+1 <= n THEN n-(k+1)+1 ELSE 0
        /\ \A i \in 1..n-(k+1)+1 : back[i] = s[(k+1)+i-1]
    BY ONLY <2>1, SubSeqProperties
  <2> HIDE DEF back, n
  <2> QED BY ONLY <1>1, <2>2
<1>4. RemoveAt(s, k) = front \o back
  BY DEF RemoveAt
<1> HIDE DEF front, back
<1>5. /\ front \o back \in Seq(S)
      /\ Len(front \o back) = Len(front) + Len(back)
      /\ \A i \in 1..Len(front) + Len(back) :
           (front \o back)[i] = IF i <= Len(front) THEN front[i] ELSE back[i - Len(front)]
  BY ONLY <1>2, <1>3, ConcatProperties
<1> HIDE DEF n
<1>6. Len(front) + Len(back) = n - 1
  BY ONLY <1>1, <1>2, <1>3
<1>7. ASSUME NEW i \in 1..n-1
      PROVE  RemoveAt(s, k)[i] = s[IF i < k THEN i ELSE i + 1]
  <2>1. CASE i < k
    BY ONLY <1>1, <1>2, <1>4, <1>5, <1>6, <2>1
  <2>2. CASE i >= k
    <3>1. (front \o back)[i] = back[i - (k-1)]
      BY ONLY <1>1, <1>2, <1>5, <1>6, <2>2
    <3>2. i - (k-1) \in 1..n-k /\ k + (i - (k-1)) = i + 1 /\ ~(i < k)
      BY ONLY <1>1, <2>2
    <3> QED BY ONLY <1>3, <1>4, <3>1, <3>2
  <2> QED BY ONLY <1>1, <2>1, <2>2
<1> QED BY <1>4, <1>5, <1>6, <1>7 DEF n

(***************************************************************************)
(* Taking a task out of a lock keeps the order of the others; the holder    *)
(* stays the holder unless it is the one taken out.                         *)
(***************************************************************************)
LEMMA WithoutProperties ==
  ASSUME NEW S, NEW lock \in Seq(S), NEW x
  PROVE  /\ Without(lock, x) \in Seq(S)
         /\ \A i \in 1..Len(Without(lock, x)) :
              \E j \in 1..Len(lock) : Without(lock, x)[i] = lock[j]
         /\ \A y : y # x /\ lock # <<>> /\ lock[1] = y
              => Without(lock, x) # <<>> /\ Without(lock, x)[1] = y
         /\ (\A i, j \in 1..Len(lock) : lock[i] = lock[j] => i = j)
              => /\ \A i \in 1..Len(Without(lock, x)) : Without(lock, x)[i] # x
                 /\ \A i, j \in 1..Len(Without(lock, x)) :
                      Without(lock, x)[i] = Without(lock, x)[j] => i = j
<1>1. CASE ~Waits(lock, x)
  BY <1>1 DEF Without, Waits
<1>2. CASE Waits(lock, x)
  <2>1. PICK k \in 1..Len(lock) : k = CHOOSE i \in 1..Len(lock) : lock[i] = x
    BY <1>2 DEF Waits
  <2>2. lock[k] = x
    BY <1>2, <2>1 DEF Waits
  <2> DEFINE rest == RemoveAt(lock, k)
  <2>3. Without(lock, x) = rest
    BY <1>2, <2>1 DEF Without
  <2>4. /\ rest \in Seq(S)
        /\ Len(rest) = Len(lock) - 1
        /\ \A i \in 1..Len(lock)-1 : rest[i] = lock[IF i < k THEN i ELSE i + 1]
    BY RemoveAtProperties
  <2> HIDE DEF rest
  <2>5. \A i \in 1..Len(rest) : \E j \in 1..Len(lock) : rest[i] = lock[j]
    BY <2>4
  <2>6. ASSUME NEW y, y # x, lock # <<>>, lock[1] = y
        PROVE  rest # <<>> /\ rest[1] = y
    <3>1. k > 1 /\ Len(lock) > 1
      BY <2>1, <2>2, <2>6
    <3> QED BY <3>1, <2>4, <2>6
  <2>7. ASSUME \A i, j \in 1..Len(lock) : lock[i] = lock[j] => i = j
        PROVE  /\ \A i \in 1..Len(rest) : rest[i] # x
               /\ \A i, j \in 1..Len(rest) : rest[i] = rest[j] => i = j
    <3> DEFINE at(i) == IF i < k THEN i ELSE i + 1
    <3>1. ASSUME NEW i \in 1..Len(rest)
          PROVE  at(i) \in 1..Len(lock) /\ at(i) # k /\ rest[i] = lock[at(i)]
      <4>1. i \in 1..Len(lock)-1 /\ Len(lock) \in Nat
        BY <2>4
      <4>2. rest[i] = lock[at(i)]
        BY <2>4, <4>1
      <4>3. at(i) \in 1..Len(lock) /\ at(i) # k
        <5> DEFINE n == Len(lock)
        <5>1. n \in Nat /\ k \in 1..n /\ i \in 1..n-1
          BY <2>1, <4>1
        <5> HIDE DEF n
        <5>2. at(i) \in 1..n /\ at(i) # k
          BY ONLY <5>1
        <5> QED BY ONLY <5>2 DEF n
      <4> QED BY <4>2, <4>3
    <3>2. \A i, j \in 1..Len(rest) : at(i) = at(j) => i = j
      OBVIOUS
    <3> HIDE DEF at
    <3>3. ASSUME NEW i \in 1..Len(rest)  PROVE rest[i] # x
      <4>1. lock[at(i)] = lock[k] => at(i) = k
        BY <2>1, <2>7, <3>1
      <4> QED BY <2>2, <3>1, <4>1
    <3>4. ASSUME NEW i \in 1..Len(rest), NEW j \in 1..Len(rest), rest[i] = rest[j]
          PROVE  i = j
      <4>1. at(i) \in 1..Len(lock) /\ at(j) \in 1..Len(lock) /\ lock[at(i)] = lock[at(j)]
        BY <3>1, <3>4
      <4> QED BY <2>7, <3>2, <4>1
    <3> QED BY <3>3, <3>4
  <2> QED BY <2>3, <2>4, <2>5, <2>6, <2>7
<1> QED BY <1>1, <1>2
-----------------------------------------------------------------------------
(* Registry calls, and the sections made of them. *)
LEMMA CallType ==
  /\ \A from, to \in Status : Move(from, to) \in Call
  /\ \A k \in NoticeKind : Note(k) \in Call
BY DEF Move, Note, Call

LEMMA SectionType ==
  ASSUME NEW r \in Runs, NEW cs \in Seq(Call), Do(r, cs)
  PROVE  /\ section' \in [run : Runs \cup {NoRun}, calls : Seq(Call)]
         /\ section'.calls # <<>> => section'.run \in Runs
BY DEF Do

(* The pieces the sections of the coordinator are put together from. *)
LEMMA SectionPieces ==
  ASSUME TypeOK, NEW r \in Runs
  PROVE  /\ \A from, to \in Status : <<Move(from, to)>> \in Seq(Call)
         /\ \A k \in NoticeKind : <<Note(k)>> \in Seq(Call)
         /\ Opening \in Seq(Call)
         /\ \A w \in BOOLEAN : Warning(w) \in Seq(Call)
         /\ \A to \in Status : Settling(r, to) \in Seq(Call)
         /\ Cancelled(r) \in Seq(Call)
<1>1. status[r] \in Status /\ ActiveStatus \subseteq Status
  BY DEF TypeOK, Status
<1>2. \A from, to \in Status : <<Move(from, to)>> \in Seq(Call)
  BY CallType
<1>3. \A k \in NoticeKind : <<Note(k)>> \in Seq(Call)
  BY CallType
<1>4. Opening \in Seq(Call)
  BY CallType DEF Opening, Status, ActiveStatus, NoticeKind
<1>5. \A w \in BOOLEAN : Warning(w) \in Seq(Call)
  BY <1>3 DEF Warning, NoticeKind
<1>6. \A to \in Status : Settling(r, to) \in Seq(Call)
  BY <1>1, <1>2 DEF Settling
<1>7. Cancelled(r) \in Seq(Call)
  <2>1. <<Note("cancelled")>> \in Seq(Call) /\ Settling(r, "cancelled") \in Seq(Call)
    BY <1>3, <1>6 DEF NoticeKind, Status, TerminalStatus
  <2> QED BY <2>1 DEF Cancelled
<1> QED BY <1>2, <1>3, <1>4, <1>5, <1>6, <1>7

LEMMA ReleaseType ==
  ASSUME TypeOK, NEW c
  PROVE  Without(lifecycle, c) \in Seq(Clients)
BY WithoutProperties DEF TypeOK

LEMMA LeaveType ==
  ASSUME TypeOK, NEW r
  PROVE  Without(workspace, r) \in Seq(Runs)
BY WithoutProperties DEF TypeOK

LEMMA CallerType ==
  ASSUME TypeOK, NEW c \in Callers, NEW x \in Caller, x.pc # "idle" => x.run \in Runs,
         caller' = [caller EXCEPT ![c] = x]
  PROVE  /\ caller' \in [Callers -> Caller]
         /\ \A d \in Callers : caller'[d].pc # "idle" => caller'[d].run \in Runs
BY DEF TypeOK

LEMMA IdleType == Idle \in Caller /\ Idle.pc = "idle"
BY DEF Idle, Caller, Status

LEMMA CommitType ==
  ASSUME TypeOK, Commit  PROVE TypeOK'
<1> DEFINE r == section.run  call == Head(section.calls)
<1>1. /\ section.calls \in Seq(Call) /\ section.calls # <<>>
      /\ r \in Runs /\ call \in Call /\ Tail(section.calls) \in Seq(Call)
  BY DEF TypeOK, Commit, Quiescent
<1>2. /\ section' \in [run : Runs \cup {NoRun}, calls : Seq(Call)]
      /\ section'.calls # <<>> => section'.run \in Runs
  <2>1. Do(r, Tail(section.calls))
    BY DEF Commit
  <2> QED BY <1>1, <2>1, SectionType
<1>3. status' \in [Runs -> Status] /\ journal' \in [Runs -> Seq(Kind)]
  <2> HIDE DEF r, call
  <2>1. CASE call.kind = "move" /\ Moved(r, call)
    <3>1. call.to \in Status
      BY <1>1, <2>1 DEF Call
    <3>2. call.to \in TerminalStatus => TerminalEvent(call.to) \in Kind
      BY DEF TerminalEvent, TerminalStatus, Kind, TerminalKind
    <3>3. CASE status[r] = call.from /\ call.to \in TerminalStatus
      <4>1. /\ status' = [status EXCEPT ![r] = call.to]
            /\ journal' = [journal EXCEPT ![r] = Append(@, TerminalEvent(call.to))]
        BY <2>1, <3>3 DEF Moved
      <4>2. Append(journal[r], TerminalEvent(call.to)) \in Seq(Kind)
        BY <1>1, <3>2, <3>3 DEF TypeOK
      <4> QED BY <1>1, <3>1, <4>1, <4>2 DEF TypeOK
    <3>4. CASE ~(status[r] = call.from /\ call.to \in TerminalStatus)
      <4>1. \/ status' = [status EXCEPT ![r] = call.to] /\ journal' = journal
            \/ UNCHANGED <<status, journal>>
        BY <2>1, <3>4 DEF Moved, durable
      <4> QED BY <1>1, <3>1, <4>1 DEF TypeOK
    <3> QED BY <3>3, <3>4
  <2>2. CASE call.kind = "note" /\ Noted(r, call)
    <3>1. call.event \in Kind
      BY <1>1, <2>2 DEF Call, Kind
    <3> QED BY <1>1, <2>2, <3>1 DEF Noted, TypeOK
  <2> QED BY <2>1, <2>2 DEF Commit, r, call
<1>4. UNCHANGED volatile
  BY DEF Commit
<1> QED BY <1>2, <1>3, <1>4 DEF TypeOK, volatile, tasks, callers

(* What start does once it holds the lifecycle lock. *)
LEMMA LockedType ==
  ASSUME TypeOK, NEW c \in Clients, NEW r \in Runs, NEW seen \in Status,
         NEW cs \in Seq(Call), Locked(c, r, seen, cs)
  PROVE  /\ section' \in [run : Runs \cup {NoRun}, calls : Seq(Call)]
         /\ section'.calls # <<>> => section'.run \in Runs
         /\ lifecycle' \in Seq(Clients)
         /\ caller' \in [Callers -> Caller]
         /\ \A d \in Callers : caller'[d].pc # "idle" => caller'[d].run \in Runs
<1> c \in Callers
  BY DEF Callers
<1>1. Without(lifecycle, c) \in Seq(Clients)
  BY ReleaseType
<1>2. CASE /\ Do(r, cs \o <<Move("running", "failed")>>)
           /\ caller' = [caller EXCEPT ![c] = Idle]
           /\ Release(c)
  <2>1. cs \o <<Move("running", "failed")>> \in Seq(Call)
    BY SectionPieces DEF Status, ActiveStatus, TerminalStatus
  <2> QED BY <1>1, <1>2, <2>1, SectionType, CallerType, IdleType DEF Release
<1>3. CASE /\ Do(r, cs)
           /\ caller' = [caller EXCEPT ![c] = [pc |-> "creating", run |-> r, seen |-> seen]]
           /\ lifecycle' = IF lifecycle = <<>> THEN <<c>> ELSE lifecycle
  <2>1. lifecycle' \in Seq(Clients)
    BY <1>3 DEF TypeOK
  <2>2. [pc |-> "creating", run |-> r, seen |-> seen] \in Caller
    BY DEF Caller
  <2> QED BY <1>3, <2>1, <2>2, SectionType, CallerType
<1>4. CASE /\ Do(r, cs)
           /\ caller' = [caller EXCEPT ![c] = Idle]
           /\ Release(c)
  BY <1>1, <1>4, SectionType, CallerType, IdleType DEF Release
<1> QED BY <1>2, <1>3, <1>4 DEF Locked

LEMMA StartType ==
  ASSUME TypeOK, NEW c \in Clients, NEW r \in Runs, Start(c, r)  PROVE TypeOK'
<1> DEFINE new   == status[r] = "none"
           seen  == IF new THEN "queued" ELSE status[r]
           cs    == IF new THEN <<Move("none", "queued")>> ELSE <<>>
<1>1. seen \in Status /\ cs \in Seq(Call)
  BY SectionPieces DEF TypeOK, Status, ActiveStatus
<1>2. /\ section' \in [run : Runs \cup {NoRun}, calls : Seq(Call)]
      /\ section'.calls # <<>> => section'.run \in Runs
      /\ lifecycle' \in Seq(Clients)
      /\ caller' \in [Callers -> Caller]
      /\ \A d \in Callers : caller'[d].pc # "idle" => caller'[d].run \in Runs
  <2> HIDE DEF seen, cs
  <2>1. CASE Locked(c, r, seen, cs)
    BY <1>1, <2>1, LockedType
  <2>2. CASE /\ Do(r, cs)
             /\ caller' = [caller EXCEPT ![c] = [pc |-> "starting", run |-> r, seen |-> seen]]
             /\ lifecycle' = Append(lifecycle, c)
    <3>1. [pc |-> "starting", run |-> r, seen |-> seen] \in Caller
      BY <1>1 DEF Caller
    <3>2. Append(lifecycle, c) \in Seq(Clients)
      BY DEF TypeOK
    <3> QED BY <1>1, <2>2, <3>1, <3>2, SectionType, CallerType DEF Callers
  <2> QED BY <2>1, <2>2 DEF Start, seen, cs
<1> QED BY <1>2 DEF Start, TypeOK, durable, tasks

LEMMA StartLockedType ==
  ASSUME TypeOK, NEW c \in Clients, StartLocked(c)  PROVE TypeOK'
<1>1. caller[c].run \in Runs /\ caller[c].seen \in Status /\ <<>> \in Seq(Call)
  BY DEF TypeOK, StartLocked, Caller, Callers
<1>2. Locked(c, caller[c].run, caller[c].seen, <<>>)
  BY DEF StartLocked
<1> QED BY <1>1, <1>2, LockedType DEF StartLocked, TypeOK, durable, tasks

LEMMA ContinueType ==
  ASSUME TypeOK, NEW c \in Clients, Continue(c)  PROVE TypeOK'
<1> c \in Callers
  BY DEF Callers
<1>1. CASE StartLocked(c)
  BY <1>1, StartLockedType
<1>2. ASSUME NEW r \in Runs, Created(c, r)  PROVE TypeOK'
  <2>1. /\ driver' \in [Runs -> Driver] /\ active' \in SUBSET Runs
        /\ lifecycle' \in Seq(Clients)
    BY <1>2, ReleaseType DEF Created, Release, TypeOK, Driver
  <2>2. /\ caller' \in [Callers -> Caller]
        /\ \A d \in Callers : caller'[d].pc # "idle" => caller'[d].run \in Runs
    BY <1>2, CallerType, IdleType DEF Created
  <2> QED BY <1>2, <2>1, <2>2 DEF Created, TypeOK, durable
<1>3. ASSUME NEW r \in Runs, CreateFails(c, r)  PROVE TypeOK'
  <2>1. <<Move("queued", "failed")>> \in Seq(Call)
    BY SectionPieces DEF Status, ActiveStatus, TerminalStatus
  <2>2. /\ section' \in [run : Runs \cup {NoRun}, calls : Seq(Call)]
        /\ section'.calls # <<>> => section'.run \in Runs
    BY <1>3, <2>1, SectionType DEF CreateFails
  <2>3. /\ caller' \in [Callers -> Caller]
        /\ \A d \in Callers : caller'[d].pc # "idle" => caller'[d].run \in Runs
    BY <1>3, CallerType, IdleType DEF CreateFails
  <2>4. lifecycle' \in Seq(Clients)
    BY <1>3, ReleaseType DEF CreateFails, Release
  <2> QED BY <1>3, <2>2, <2>3, <2>4 DEF CreateFails, TypeOK, durable, tasks
<1> QED BY <1>1, <1>2, <1>3 DEF Continue

LEMMA GrantedType ==
  ASSUME TypeOK, NEW r \in Runs, Granted(r)
  PROVE  /\ section' \in [run : Runs \cup {NoRun}, calls : Seq(Call)]
         /\ section'.calls # <<>> => section'.run \in Runs
         /\ driver' \in [Runs -> Driver]
         /\ workspace' \in Seq(Runs)
<1>1. CASE /\ Do(r, Opening)
           /\ Goto(r, "events")
           /\ workspace' = IF workspace = <<>> THEN <<r>> ELSE workspace
  <2>1. Opening \in Seq(Call)
    BY SectionPieces
  <2>2. driver' \in [Runs -> Driver] /\ workspace' \in Seq(Runs)
    BY <1>1 DEF TypeOK, Goto, Driver, Holding
  <2> QED BY <1>1, <2>1, <2>2, SectionType
<1>2. CASE Goto(r, "failClose") /\ Leave(r) /\ UNCHANGED section
  BY <1>2, LeaveType DEF TypeOK, Goto, Leave, Driver
<1> QED BY <1>1, <1>2 DEF Granted

LEMMA EnterType ==
  ASSUME TypeOK, NEW r \in Runs, Enter(r) \/ Acquire(r)  PROVE TypeOK'
<1>1. CASE Granted(r)
  BY <1>1, GrantedType DEF Enter, Acquire, TypeOK, durable, callers
<1>2. CASE Goto(r, "lock") /\ workspace' = Append(workspace, r) /\ UNCHANGED section
  <2>1. driver' \in [Runs -> Driver] /\ workspace' \in Seq(Runs)
    BY <1>2 DEF TypeOK, Goto, Driver
  <2> QED BY <1>2, <2>1 DEF Enter, Acquire, TypeOK, durable, callers
<1> QED BY <1>1, <1>2 DEF Enter, Acquire

LEMMA YieldType ==
  ASSUME TypeOK, NEW r \in Runs, Yield(r)  PROVE TypeOK'
<1>1. CASE Activity(r) \/ Fault(r)
  BY <1>1 DEF Activity, Fault, TypeOK, Stream, durable, callers
<1>2. CASE Output(r)
  <2>1. <<Note("output")>> \in Seq(Call)
    BY SectionPieces DEF NoticeKind
  <2>2. stream' \in [Runs -> Stream]
    BY <1>2 DEF Output, TypeOK, Stream
  <2> QED BY <1>2, <2>1, <2>2, SectionType DEF Output, TypeOK, durable, callers
<1> QED BY <1>1, <1>2 DEF Yield

(* The end of a driver, with the section it leaves behind. *)
LEMMA EndType ==
  ASSUME TypeOK, NEW r \in Runs, End(r)
  PROVE  /\ driver' \in [Runs -> Driver] /\ active' \in SUBSET Runs
         /\ attempt' \in [Runs -> 0..MaxRetries] /\ stream' \in [Runs -> Stream]
BY ConstantsAssumption DEF End, Goto, TypeOK, Driver, Over, Stream

LEMMA ClosedType ==
  ASSUME TypeOK, NEW r \in Runs, NEW w \in BOOLEAN,
         RetryClosed(r, w) \/ Closed(r, w) \/ FailClosed(r, w) \/ CancelClosed(r, w)
  PROVE  TypeOK'
<1>1. Warning(w) \in Seq(Call)
  BY SectionPieces
<1>2. CASE RetryClosed(r, w)
  <2>1. driver' \in [Runs -> Driver]
    BY <1>2 DEF RetryClosed, Goto, TypeOK, Driver, Holding
  <2> QED BY <1>1, <1>2, <2>1, SectionType DEF RetryClosed, TypeOK, durable, callers
<1>3. CASE Closed(r, w)
  <2> DEFINE to == IF stream[r] = "errored" THEN "failed" ELSE "completed"
  <2>1. <<Move("running", to)>> \in Seq(Call)
    BY SectionPieces DEF Status, ActiveStatus, TerminalStatus
  <2>2. Warning(w) \o <<Move("running", to)>> \in Seq(Call)
    BY <1>1, <2>1
  <2>3. Do(r, Warning(w) \o <<Move("running", to)>>) /\ End(r) /\ Leave(r)
    BY <1>3 DEF Closed
  <2>4. /\ section' \in [run : Runs \cup {NoRun}, calls : Seq(Call)]
        /\ section'.calls # <<>> => section'.run \in Runs
    BY <2>2, <2>3, SectionType
  <2>5. /\ driver' \in [Runs -> Driver] /\ active' \in SUBSET Runs
        /\ attempt' \in [Runs -> 0..MaxRetries] /\ stream' \in [Runs -> Stream]
    BY <2>3, EndType
  <2>6. workspace' \in Seq(Runs)
    BY <2>3, LeaveType DEF Leave
  <2>7. UNCHANGED <<durable, server, cancelling, callers>>
    BY <1>3 DEF Closed
  <2> QED BY <2>4, <2>5, <2>6, <2>7 DEF TypeOK, durable, callers
<1>4. CASE FailClosed(r, w)
  <2>1. Warning(w) \o Settling(r, "failed") \in Seq(Call)
    BY <1>1, SectionPieces DEF Status, TerminalStatus
  <2> QED BY <1>4, <2>1, SectionType, EndType DEF FailClosed, TypeOK, durable, callers
<1>5. CASE CancelClosed(r, w)
  <2>1. Warning(w) \o Cancelled(r) \in Seq(Call)
    BY <1>1, SectionPieces
  <2> QED BY <1>5, <2>1, SectionType, EndType DEF CancelClosed, TypeOK, durable, callers
<1> QED BY <1>2, <1>3, <1>4, <1>5

LEMMA InterruptType ==
  ASSUME TypeOK, NEW r \in Runs, Interrupt(r)  PROVE TypeOK'
<1>1. Without(workspace, r) \in Seq(Runs) /\ Cancelled(r) \in Seq(Call)
  BY LeaveType, SectionPieces
<1>2. /\ section' \in [run : Runs \cup {NoRun}, calls : Seq(Call)]
      /\ section'.calls # <<>> => section'.run \in Runs
  BY <1>1, SectionType DEF Interrupt, TypeOK
<1>3. /\ driver' \in [Runs -> Driver] /\ active' \in SUBSET Runs
      /\ attempt' \in [Runs -> 0..MaxRetries] /\ stream' \in [Runs -> Stream]
  <2>1. CASE End(r)
    BY <2>1, EndType
  <2>2. CASE /\ Goto(r, "unstarted") \/ Goto(r, "cancelClose")
             /\ UNCHANGED <<active, attempt, stream>>
    BY <2>2 DEF Goto, TypeOK, Driver, Over
  <2> QED BY <2>1, <2>2 DEF Interrupt
<1> QED BY <1>1, <1>2, <1>3 DEF Interrupt, Leave, TypeOK, durable, callers

LEMMA DriveType ==
  ASSUME TypeOK, NEW r \in Runs, Drive(r)  PROVE TypeOK'
<1>1. CASE FirstEventTimeout(r)
  <2>1. <<Note("retry")>> \in Seq(Call)
    BY SectionPieces DEF NoticeKind
  <2>2. driver' \in [Runs -> Driver] /\ attempt' \in [Runs -> 0..MaxRetries]
    BY <1>1, ConstantsAssumption DEF FirstEventTimeout, Goto, TypeOK, Driver, Holding
  <2> QED BY <1>1, <2>1, <2>2, SectionType DEF FirstEventTimeout, TypeOK, durable, callers
<1>2. CASE RetryCreated(r) \/ StreamEnds(r)
  BY <1>2 DEF RetryCreated, StreamEnds, Goto, TypeOK, Driver, Holding, durable, callers
<1>3. CASE RetryCreateFails(r)
  <2>1. Settling(r, "failed") \in Seq(Call)
    BY SectionPieces DEF Status, TerminalStatus
  <2> QED BY <1>3, <2>1, SectionType, EndType, LeaveType
          DEF RetryCreateFails, Leave, TypeOK, durable, callers
<1>4. CASE StreamFails(r)
  BY <1>4, LeaveType DEF StreamFails, Leave, Goto, TypeOK, Driver, durable, callers
<1> QED BY <1>1, <1>2, <1>3, <1>4, EnterType, ClosedType, InterruptType,
           ConstantsAssumption DEF Drive

LEMMA RequestType ==
  ASSUME TypeOK, NEW c \in Clients, NEW r \in Runs, Request(c, r)  PROVE TypeOK'
<1>1. CASE Start(c, r)
  BY <1>1, StartType
<1>2. CASE CancelQueued(c, r)
  <2>1. <<Move("queued", "cancelled")>> \in Seq(Call)
    BY SectionPieces DEF Status, ActiveStatus, TerminalStatus
  <2> QED BY <1>2, <2>1, SectionType
          DEF CancelQueued, TypeOK, durable, volatile, tasks, callers
<1>3. CASE CancelActive(c, r)
  <2>1. [pc |-> "cancelling", run |-> r, seen |-> "none"] \in Caller
    BY DEF Caller, Status
  <2>2. /\ caller' \in [Callers -> Caller]
        /\ \A d \in Callers : caller'[d].pc # "idle" => caller'[d].run \in Runs
    BY <1>3, <2>1, CallerType DEF CancelActive, Callers
  <2>3. cancelling' \in SUBSET Runs
    BY <1>3 DEF CancelActive, Running, TypeOK
  <2> QED BY <1>3, <2>2, <2>3 DEF CancelActive, TypeOK, durable
<1> QED BY <1>1, <1>2, <1>3 DEF Request

LEMMA AwaitType ==
  ASSUME TypeOK, NEW c \in Callers, NEW r \in Runs, Awaited(c, r) \/ UnstartedClosed(c, r)
  PROVE  TypeOK'
<1>1. <<Move("queued", "cancelled")>> \in Seq(Call)
  BY SectionPieces DEF Status, ActiveStatus, TerminalStatus
<1>2. /\ section' \in [run : Runs \cup {NoRun}, calls : Seq(Call)]
      /\ section'.calls # <<>> => section'.run \in Runs
  BY <1>1, SectionType DEF Awaited, UnstartedClosed, TypeOK
<1>3. driver' \in [Runs -> Driver] /\ active' \in SUBSET Runs
  BY DEF Awaited, UnstartedClosed, Goto, TypeOK, Driver, Over
<1>4. /\ caller' \in [Callers -> Caller]
      /\ \A d \in Callers : caller'[d].pc # "idle" => caller'[d].run \in Runs
  <2>1. CASE caller' = [caller EXCEPT ![c] = Idle]
    BY <2>1, CallerType, IdleType
  <2>2. CASE At(c, "cancelling", r) /\ caller' = [caller EXCEPT ![c] = [@ EXCEPT !.pc = "closing"]]
    <3> DEFINE x == [caller[c] EXCEPT !.pc = "closing"]
    <3>1. x \in Caller /\ x.run = r
      BY <2>2 DEF TypeOK, Caller, At
    <3>2. caller' = [caller EXCEPT ![c] = x]
      BY <2>2
    <3> HIDE DEF x
    <3> QED BY <3>1, <3>2, CallerType
  <2> QED BY <2>1, <2>2 DEF Awaited, UnstartedClosed
<1> QED BY <1>2, <1>3, <1>4 DEF Awaited, UnstartedClosed, TypeOK, durable

LEMMA FreshType ==
  ASSUME Fresh
  PROVE  /\ active' \in SUBSET Runs /\ driver' \in [Runs -> Driver]
         /\ attempt' \in [Runs -> 0..MaxRetries] /\ stream' \in [Runs -> Stream]
         /\ cancelling' \in SUBSET Runs /\ workspace' \in Seq(Runs)
         /\ lifecycle' \in Seq(Clients) /\ targets' \in SUBSET Runs
         /\ caller' \in [Callers -> Caller]
         /\ \A d \in Callers : caller'[d].pc # "idle" => caller'[d].run \in Runs
<1>1. 0 \in 0..MaxRetries /\ "none" \in Driver /\ "silent" \in Stream
  BY ConstantsAssumption DEF Driver, Over, Stream
<1>2. caller' = [c \in Callers |-> Idle]
  BY DEF Fresh
<1>3. \A d \in Callers : caller'[d] = Idle
  BY <1>2
<1>4. caller' \in [Callers -> Caller]
  BY <1>2, IdleType
<1>5. workspace' \in Seq(Runs) /\ lifecycle' \in Seq(Clients)
  BY DEF Fresh
<1> QED BY <1>1, <1>3, <1>4, <1>5, IdleType DEF Fresh

LEMMA ServerType ==
  ASSUME TypeOK, Stop \/ Stopped \/ Crash \/ Serve \/ \E r \in Runs : StopNext(r) \/ Recover(r)
  PROVE  TypeOK'
<1>1. CASE Stop
  BY <1>1 DEF Stop, Running, TypeOK, durable
<1>2. ASSUME NEW r \in Runs, StopNext(r)  PROVE TypeOK'
  <2>1. Stopper \in Callers /\ [pc |-> "cancelling", run |-> r, seen |-> "none"] \in Caller
    BY DEF Callers, Caller, Status
  <2>2. /\ caller' \in [Callers -> Caller]
        /\ \A d \in Callers : caller'[d].pc # "idle" => caller'[d].run \in Runs
    BY <1>2, <2>1, CallerType DEF StopNext
  <2> QED BY <1>2, <2>2 DEF StopNext, TypeOK, durable, tasks
<1>3. ASSUME NEW r \in Runs, Recover(r)  PROVE TypeOK'
  <2>1. Settling(r, "failed") \in Seq(Call)
    BY SectionPieces DEF Status, TerminalStatus
  <2> QED BY <1>3, <2>1, SectionType
          DEF Recover, TypeOK, durable, volatile, tasks, callers
<1>4. CASE Stopped \/ Crash
  <2>1. Fresh
    BY <1>4 DEF Stopped, Crash
  <2>2. /\ section' \in [run : Runs \cup {NoRun}, calls : Seq(Call)]
        /\ section'.calls # <<>> => section'.run \in Runs
    <3>1. CASE section' = [run |-> NoRun, calls |-> <<>>]
      BY <3>1
    <3>2. CASE UNCHANGED section
      BY <3>2 DEF TypeOK
    <3> QED BY <1>4, <3>1, <3>2 DEF Stopped, Crash
  <2>3. server' = "down" /\ UNCHANGED <<status, journal>>
    BY <1>4 DEF Stopped, Crash, durable
  <2> QED BY <2>1, <2>2, <2>3, FreshType DEF TypeOK
<1>5. CASE Serve
  BY <1>5 DEF Serve, TypeOK, durable, tasks, callers
<1> QED BY <1>1, <1>2, <1>3, <1>4, <1>5

LEMMA TypeStep == TypeOK /\ [Next]_vars => TypeOK'
<1> SUFFICES ASSUME TypeOK, [Next]_vars  PROVE TypeOK'
  OBVIOUS
<1>1. CASE UNCHANGED vars
  BY <1>1 DEF vars, durable, volatile, tasks, callers, TypeOK
<1>2. CASE Next
  BY <1>2, CommitType, DriveType, YieldType, ContinueType, RequestType, AwaitType,
     ServerType DEF Next, Await, Restart
<1> QED BY <1>1, <1>2

(***************************************************************************)
(* The coordinator's state keeps its shape through every interleaving of    *)
(* clients, drivers, aclose, crashes and restarts.                          *)
(***************************************************************************)
THEOREM TypeCorrect == Spec => []TypeOK
<1>1. Init => TypeOK
  BY ConstantsAssumption, IdleType
     DEF Init, TypeOK, Status, Driver, Over, Stream
<1> QED BY <1>1, TypeStep, PTL DEF Spec
-----------------------------------------------------------------------------
(***************************************************************************)
(* The safety properties of RunCoordinator, for any runs, clients, bounds:  *)
(* Inv is inductive, one lemma per action.                                  *)
(***************************************************************************)

USE DEF ActiveStatus, TerminalStatus

(* What Inv says between two sections. *)
LEMMA QuietFacts ==
  ASSUME TypeOK, Inv, Quiescent, NEW r \in Runs
  PROVE  /\ driver[r] \in Holding => r \in active /\ status[r] = "running"
         /\ driver[r] \in {"new", "lock"} => r \in active \/ status[r] \in TerminalStatus
         /\ \A c \in Callers : At(c, "closing", r) =>
              driver[r] = "unstarted" \/ status[r] \in TerminalStatus
         /\ \/ driver[r] # "none" \/ r \in active \/ r \in targets
            \/ \E c \in Callers : caller[c].run = r
            => status[r] # "none"
<1>1. \A call : ~Pending(r, call)
  BY DEF Pending, Quiescent
<1>2. ~Beginning(r)
  BY DEF Beginning, Opening, Quiescent
<1> QED BY <1>1, <1>2 DEF Inv, HoldersLegal, Registered, ClosersLegal, Settled, Recorded
-----------------------------------------------------------------------------
(* Short sequences, put together. *)
LEMMA Joins ==
  ASSUME NEW a, NEW b, NEW c
  PROVE  /\ <<>> \o <<a>> = <<a>> /\ <<>> \o <<a, b>> = <<a, b>>
         /\ <<a>> \o <<>> = <<a>>
         /\ <<a>> \o <<b>> = <<a, b>>
         /\ <<a>> \o <<b, c>> = <<a, b, c>>
<1> DEFINE ab == <<a>> \o <<b>>  abc == <<a>> \o <<b, c>>
<1>1. ab \in Seq({a, b}) /\ Len(ab) = 2 /\ ab[1] = a /\ ab[2] = b
  OBVIOUS
<1>2. /\ abc \in Seq({a, b, c}) /\ Len(abc) = 3
      /\ abc[1] = a /\ abc[2] = b /\ abc[3] = c
  OBVIOUS
<1>3. <<a, b>> \in Seq({a, b}) /\ <<a, b, c>> \in Seq({a, b, c}) /\ <<a>> \in Seq({a})
  OBVIOUS
<1> HIDE DEF ab, abc
<1>4. ab = <<a, b>>
  BY <1>1, <1>3
<1>5. abc = <<a, b, c>>
  BY <1>2, <1>3
<1>6. <<>> \o <<a>> = <<a>> /\ <<>> \o <<a, b>> = <<a, b>> /\ <<a>> \o <<>> = <<a>>
  BY <1>3
<1> QED BY <1>4, <1>5, <1>6 DEF ab, abc

(* The sections of the coordinator are legal. *)
LEMMA LegalNothing == ASSUME NEW r  PROVE LegalCalls(r, <<>>)
BY DEF LegalCalls

LEMMA LegalNote ==
  ASSUME NEW r, NEW k, status[r] # "none", k = "cancelled" => status[r] \in ActiveStatus,
         k \in {"started", "output", "retry"} => status[r] = "running"
  PROVE  LegalCalls(r, <<Note(k)>>)
BY DEF LegalCalls, Note

LEMMA LegalMove ==
  ASSUME NEW r, NEW from \in ActiveStatus, NEW to \in TerminalStatus,
         to = "completed" => from = "running"
  PROVE  LegalCalls(r, <<Move(from, to)>>)
BY DEF LegalCalls, Move, Lifecycle

LEMMA LegalOpening ==
  ASSUME NEW r, status[r] = "queued"  PROVE LegalCalls(r, Opening)
BY DEF LegalCalls, Opening, Move, Note, Lifecycle

(* A section with the calls spelled out. *)
LEMMA LegalSpelled ==
  ASSUME NEW r, status[r] # "none", NEW cs,
         NEW from \in ActiveStatus, NEW to \in TerminalStatus,
         to = "completed" => from = "running",
         \/ cs = <<Move(from, to)>>
         \/ cs = <<Note("warning"), Move(from, to)>>
         \/ cs = <<Note("cancelled"), Move(from, to)>> /\ status[r] \in ActiveStatus
         \/ /\ cs = <<Note("warning"), Note("cancelled"), Move(from, to)>>
            /\ status[r] \in ActiveStatus
  PROVE  LegalCalls(r, cs)
<1> DEFINE m == Move(from, to)  n(k) == Note(k)
<1>1. /\ m.kind = "move" /\ m.from = from /\ m.to = to
      /\ to # "queued" /\ to # "running" /\ Lifecycle(from, to)
  BY DEF Move, Lifecycle
<1>2. \A k \in {"warning", "cancelled"} : n(k).kind = "note" /\ n(k).event = k
  BY DEF Note
<1> HIDE DEF m, n
<1>3. CASE cs = <<m>>
  BY <1>1, <1>3 DEF LegalCalls
<1>4. CASE cs = <<n("warning"), m>>
  BY <1>1, <1>2, <1>4 DEF LegalCalls
<1>5. CASE cs = <<n("cancelled"), m>> /\ status[r] \in ActiveStatus
  BY <1>1, <1>2, <1>5 DEF LegalCalls
<1>6. CASE cs = <<n("warning"), n("cancelled"), m>> /\ status[r] \in ActiveStatus
  BY <1>1, <1>2, <1>6 DEF LegalCalls
<1> QED BY <1>3, <1>4, <1>5, <1>6 DEF m, n

LEMMA LegalWarned ==
  ASSUME NEW r, status[r] # "none", NEW w \in BOOLEAN,
         NEW from \in ActiveStatus, NEW to \in TerminalStatus,
         to = "completed" => from = "running"
  PROVE  LegalCalls(r, Warning(w) \o <<Move(from, to)>>)
<1> DEFINE cs == Warning(w) \o <<Move(from, to)>>
<1>1. cs = <<Move(from, to)>> \/ cs = <<Note("warning"), Move(from, to)>>
  BY Joins DEF Warning
<1> HIDE DEF cs
<1>2. LegalCalls(r, cs)
  BY <1>1, LegalSpelled
<1> QED BY <1>2 DEF cs

LEMMA LegalWarning ==
  ASSUME NEW r, status[r] # "none", NEW w \in BOOLEAN
  PROVE  LegalCalls(r, Warning(w))
BY LegalNothing, LegalNote DEF Warning

LEMMA LegalCancelled ==
  ASSUME NEW r, status[r] # "none", NEW w \in BOOLEAN
  PROVE  /\ LegalCalls(r, Cancelled(r))
         /\ LegalCalls(r, Warning(w) \o Cancelled(r))
<1> DEFINE end == Move(status[r], "cancelled")  cs == Warning(w) \o Cancelled(r)
<1>1. CASE status[r] \in ActiveStatus
  <2>1. Cancelled(r) = <<Note("cancelled"), end>>
    BY <1>1, Joins DEF Cancelled, Settling
  <2>2. cs = <<Note("cancelled"), end>> \/ cs = <<Note("warning"), Note("cancelled"), end>>
    <3> HIDE DEF end
    <3>1. CASE w
      <4>1. Warning(w) = <<Note("warning")>>
        BY <3>1 DEF Warning
      <4> QED BY <2>1, <4>1, Joins
    <3>2. CASE ~w
      <4>1. Warning(w) = <<>>
        BY <3>2 DEF Warning
      <4> QED BY <2>1, <4>1, Joins
    <3> QED BY <3>1, <3>2
  <2> HIDE DEF cs
  <2>3. LegalCalls(r, Cancelled(r)) /\ LegalCalls(r, cs)
    BY <1>1, <2>1, <2>2, LegalSpelled
  <2> QED BY <2>3 DEF cs
<1>2. CASE status[r] \notin ActiveStatus
  <2>1. Cancelled(r) = <<>>
    BY <1>2 DEF Cancelled
  <2>2. cs = Warning(w)
    BY <2>1, Joins DEF Warning
  <2> HIDE DEF cs
  <2>3. LegalCalls(r, Cancelled(r)) /\ LegalCalls(r, cs)
    BY <2>1, <2>2, LegalNothing, LegalWarning
  <2> QED BY <2>3 DEF cs
<1> QED BY <1>1, <1>2

LEMMA LegalSettling ==
  ASSUME NEW r, status[r] # "none", NEW w \in BOOLEAN
  PROVE  /\ LegalCalls(r, Settling(r, "failed"))
         /\ LegalCalls(r, Warning(w) \o Settling(r, "failed"))
<1>1. CASE status[r] \in ActiveStatus
  BY <1>1, LegalMove, LegalWarned DEF Settling
<1>2. CASE status[r] \notin ActiveStatus
  <2>1. Settling(r, "failed") = <<>> /\ Warning(w) \o Settling(r, "failed") = Warning(w)
    BY <1>2 DEF Settling, Warning
  <2> QED BY <2>1, LegalNothing, LegalWarning
<1> QED BY <1>1, <1>2

LEMMA LegalSection ==
  ASSUME NEW r, NEW cs, Do(r, cs), LegalCalls(r, cs), UNCHANGED durable
  PROVE  SectionLegal'
<1>1. section'.calls = cs /\ (cs # <<>> => section'.run = r) /\ status' = status
  BY DEF Do, durable
<1> QED BY <1>1 DEF SectionLegal, LegalCalls
-----------------------------------------------------------------------------
(* The registry call a section makes next, and what it leaves. *)
LEMMA CommitFacts ==
  ASSUME TypeOK, Inv, Commit
  PROVE  LET r == section.run  cs == section.calls  call == section.calls[1] IN
         /\ r \in Runs /\ cs \in Seq(Call) /\ cs # <<>> /\ call \in Call
         /\ section'.calls = Tail(cs)
         /\ section'.run = IF Tail(cs) = <<>> THEN NoRun ELSE r
         /\ Len(Tail(cs)) = Len(cs) - 1
         /\ \A i \in 1..Len(Tail(cs)) : i+1 \in 1..Len(cs) /\ Tail(cs)[i] = cs[i+1]
         /\ \/ /\ call.kind = "move" /\ status[r] = call.from
               /\ Lifecycle(call.from, call.to)
               /\ status' = [status EXCEPT ![r] = call.to]
            \/ /\ call.kind = "move" /\ status[r] # call.from /\ call.to \in TerminalStatus
               /\ status' = status
            \/ call.kind = "note" /\ status' = status
         /\ UNCHANGED volatile
<1> DEFINE r == section.run  cs == section.calls  call == section.calls[1]
<1>1. cs \in Seq(Call) /\ cs # <<>> /\ r \in Runs
  BY DEF TypeOK, Commit, Quiescent
<1>2. Head(cs) = call /\ call \in Call /\ 1 \in 1..Len(cs)
  BY <1>1
<1>3. /\ Len(Tail(cs)) = Len(cs) - 1
      /\ \A i \in 1..Len(Tail(cs)) : i+1 \in 1..Len(cs) /\ Tail(cs)[i] = cs[i+1]
  BY <1>1
<1>4. Do(r, Tail(cs)) /\ UNCHANGED volatile
  BY DEF Commit
<1>5. call.kind = "move" =>
        /\ Lifecycle(call.from, call.to)
        /\ call.to \in {"queued", "running"} => status[r] = call.from
  <2>1. LegalCalls(r, cs)
    BY DEF Inv, SectionLegal
  <2>2. call.kind = "move" =>
          /\ Lifecycle(call.from, call.to)
          /\ call.to = "queued" => status[r] = "none"
          /\ call.to = "running" => status[r] = "queued"
    BY <1>2, <2>1 DEF LegalCalls
  <2> QED BY <2>2 DEF Lifecycle
<1>6. \/ call.kind = "move" /\ Moved(r, call)
      \/ call.kind = "note" /\ Noted(r, call)
  BY <1>2 DEF Commit
<1>7. \/ /\ call.kind = "move" /\ status[r] = call.from
         /\ Lifecycle(call.from, call.to)
         /\ status' = [status EXCEPT ![r] = call.to]
      \/ /\ call.kind = "move" /\ status[r] # call.from /\ call.to \in TerminalStatus
         /\ status' = status
      \/ call.kind = "note" /\ status' = status
  <2> HIDE DEF call, r
  <2> QED BY <1>5, <1>6 DEF Moved, Noted, durable, Lifecycle
<1> QED BY <1>1, <1>2, <1>3, <1>4, <1>7 DEF Do

LEMMA CommitInv ==
  ASSUME TypeOK, Inv, Commit  PROVE Inv'
<1> DEFINE r == section.run  cs == section.calls  call == section.calls[1]
           rest == Tail(section.calls)
<1>1. /\ r \in Runs /\ cs \in Seq(Call) /\ cs # <<>> /\ call \in Call
      /\ section'.calls = rest /\ section'.run = IF rest = <<>> THEN NoRun ELSE r
      /\ Len(rest) = Len(cs) - 1
      /\ \A i \in 1..Len(rest) : i+1 \in 1..Len(cs) /\ rest[i] = cs[i+1]
  BY CommitFacts
<1>2. \/ /\ call.kind = "move" /\ status[r] = call.from
         /\ Lifecycle(call.from, call.to)
         /\ status' = [status EXCEPT ![r] = call.to]
      \/ /\ call.kind = "move" /\ status[r] # call.from /\ call.to \in TerminalStatus
         /\ status' = status
      \/ call.kind = "note" /\ status' = status
  BY CommitFacts
<1>3. UNCHANGED <<server, active, driver, caller, targets, workspace>>
  BY CommitFacts DEF volatile, tasks, callers
<1>4. LegalCalls(r, cs) /\ Len(cs) \in Nat /\ Len(cs) >= 1 /\ NoRun \notin Runs
  BY <1>1, ConstantsAssumption DEF Inv, SectionLegal
<1>5. /\ status \in [Runs -> Status] /\ status' \in [Runs -> Status]
      /\ \A q \in Runs : q # r => status'[q] = status[q]
      /\ status'[r] = status[r] \/ Lifecycle(status[r], status'[r])
      /\ rest # <<>> /\ call.kind = "move" =>
           cs = Opening /\ status[r] = "queued" /\ status'[r] = "running"
  <2>1. rest # <<>> => Len(cs) > 1
    BY <1>1
  <2>2. call.kind = "move" =>
          /\ call.to \in TerminalStatus => Len(cs) = 1
          /\ call.to = "queued" => Len(cs) = 1 /\ status[r] = "none"
          /\ call.to = "running" => cs = Opening /\ status[r] = "queued"
          /\ Lifecycle(call.from, call.to)
    <3>1. 1 \in 1..Len(cs) /\ call = cs[1]
      BY <1>4
    <3> HIDE DEF cs, call
    <3> QED BY <1>4, <3>1 DEF LegalCalls
  <2>3. status \in [Runs -> Status]
    BY DEF TypeOK
  <2> HIDE DEF call, cs, rest, r
  <2>4. CASE call.kind = "note"
    BY <1>1, <1>2, <2>3, <2>4
  <2>5. CASE call.kind = "move" /\ status' = status
    BY <1>1, <1>2, <2>1, <2>2, <2>3, <2>5 DEF Lifecycle
  <2>6. CASE /\ call.kind = "move" /\ status[r] = call.from
             /\ status' = [status EXCEPT ![r] = call.to]
    <3>1. status'[r] = call.to /\ \A q \in Runs : q # r => status'[q] = status[q]
      BY <1>1, <2>3, <2>6
    <3>2. call.to \in Status /\ (rest # <<>> => call.to = "running")
      BY <2>1, <2>2, <2>6 DEF Lifecycle, Status
    <3> QED BY <1>1, <2>2, <2>3, <2>6, <3>1, <3>2
  <2> QED BY <1>2, <2>4, <2>5, <2>6
<1>6. \A i \in 1..Len(rest) : rest[i].kind = "move" =>
        rest[i].to \in TerminalStatus /\ i = Len(rest) /\ Lifecycle(rest[i].from, rest[i].to)
  <2> SUFFICES ASSUME NEW i \in 1..Len(rest), rest[i].kind = "move"
               PROVE  /\ rest[i].to \in TerminalStatus /\ i = Len(rest)
                      /\ Lifecycle(rest[i].from, rest[i].to)
    OBVIOUS
  <2> DEFINE j == i + 1
  <2>1. /\ j \in 1..Len(cs) /\ rest[i] = cs[j] /\ j # 1
        /\ Len(cs) # 1 /\ (j = Len(cs) => i = Len(rest))
    BY <1>1, <1>4
  <2> HIDE DEF cs, rest, j
  <2>2. /\ Lifecycle(cs[j].from, cs[j].to)
        /\ cs[j].to \in TerminalStatus => j = Len(cs)
        /\ cs[j].to = "queued" => Len(cs) = 1
        /\ cs[j].to = "running" => j = 1
    BY <1>4, <2>1 DEF LegalCalls
  <2> QED BY <2>1, <2>2 DEF Lifecycle
<1>7. \A i \in 1..Len(rest) : rest[i].kind = "note" =>
        /\ status[r] # "none"
        /\ rest[i].event = "cancelled" => status[r] \in ActiveStatus
        /\ rest[i].event \in {"started", "output", "retry"} =>
             status[r] = "running" \/ (status[r] = "queued" /\ cs = Opening)
  <2> SUFFICES ASSUME NEW i \in 1..Len(rest), rest[i].kind = "note"
               PROVE  /\ status[r] # "none"
                      /\ rest[i].event = "cancelled" => status[r] \in ActiveStatus
                      /\ rest[i].event \in {"started", "output", "retry"} =>
                           status[r] = "running" \/ (status[r] = "queued" /\ cs = Opening)
    OBVIOUS
  <2> DEFINE j == i + 1
  <2>1. j \in 1..Len(cs) /\ rest[i] = cs[j]
    BY <1>1
  <2> HIDE DEF cs, rest, j, r
  <2>2. cs[j].kind = "note" =>
          /\ status[r] # "none"
          /\ cs[j].event = "cancelled" => status[r] \in ActiveStatus
          /\ cs[j].event \in {"started", "output", "retry"} =>
               status[r] = "running" \/ (status[r] = "queued" /\ cs = Opening)
    BY <1>4, <2>1 DEF LegalCalls
  <2> QED BY <2>1, <2>2
<1>8. call.kind = "note" => cs # Opening
  BY DEF Opening, Move
<1>9. rest # <<>> => Len(rest) >= 1
  BY <1>1
<1>10. call.kind \in {"move", "note"}
  BY <1>2
<1> HIDE DEF r, cs, call, rest
<1>11. SectionLegal'
  <2> SUFFICES ASSUME NEW i \in 1..Len(rest)
               PROVE  /\ rest[i].kind = "move" =>
                           /\ Lifecycle(rest[i].from, rest[i].to)
                           /\ i = Len(rest)
                           /\ rest[i].to \in TerminalStatus
                      /\ rest[i].kind = "note" =>
                           /\ status'[r] # "none"
                           /\ rest[i].event = "cancelled" => status'[r] \in ActiveStatus
                           /\ rest[i].event \in {"started", "output", "retry"} =>
                                status'[r] = "running"
    <3>1. section'.calls = rest
      BY <1>1
    <3>2. rest # <<>> => section'.run = r
      BY <1>1
    <3>3. Len(<<>>) = 0
      OBVIOUS
    <3> QED BY <3>1, <3>2, <3>3, <1>1 DEF SectionLegal, LegalCalls
  <2>1. rest # <<>>
    BY <1>1
  <2>2. CASE call.kind = "move"
    BY <1>5, <1>6, <2>1, <2>2
  <2>3. CASE call.kind = "note"
    BY <1>2, <1>6, <1>7, <1>8, <2>3
  <2> QED BY <1>10, <2>2, <2>3
<1>12. \A q \in Runs : status'[q] = "none" =>
         status[q] = "none" /\ ~Pending(q, Move("none", "queued"))
  <2> SUFFICES ASSUME NEW q \in Runs, status'[q] = "none"
               PROVE  status[q] = "none" /\ ~Pending(q, Move("none", "queued"))
    OBVIOUS
  <2>1. status[q] = "none"
    BY <1>5 DEF Lifecycle
  <2>2. ASSUME Pending(q, Move("none", "queued"))  PROVE FALSE
    <3>1. q = r /\ call = Move("none", "queued")
      BY <2>2 DEF Pending, r, call
    <3>2. call.kind = "move" /\ call.from = "none" /\ call.to = "queued"
      BY <3>1 DEF Move
    <3> QED BY <1>1, <1>2, <1>5, <2>1, <3>1, <3>2
  <2> QED BY <2>1, <2>2
<1>13. Recorded'
  BY <1>3, <1>12 DEF Inv, Recorded
<1>14. ASSUME NEW q \in Runs  PROVE status'[q] = status[q] \/ Lifecycle(status[q], status'[q])
  BY <1>5
<1>15. ASSUME NEW q \in Runs, Settled(q)  PROVE Settled(q)'
  <2>1. CASE status[q] \in TerminalStatus
    BY <1>14, <2>1 DEF Lifecycle, Settled
  <2>2. CASE status[q] = "queued" /\ Pending(q, Move("queued", "cancelled"))
    <3>1. q = r /\ call = Move("queued", "cancelled")
      BY <2>2 DEF Pending, r, call
    <3>2. call.kind = "move" /\ call.from = "queued" /\ call.to = "cancelled"
      BY <3>1 DEF Move
    <3>3. status'[q] = "cancelled"
      BY <1>1, <1>2, <1>5, <2>2, <3>1, <3>2
    <3> QED BY <3>3 DEF Settled
  <2> QED BY <1>15, <2>1, <2>2 DEF Settled
<1>16. HoldersLegal'
  <2> SUFFICES ASSUME NEW q \in Runs, driver[q] \in Holding
               PROVE  q \in active /\ Spared(q)' /\ status'[q] = "running"
    BY <1>3 DEF HoldersLegal
  <2>1. q \in active /\ Spared(q) /\ (status[q] = "running" \/ Beginning(q))
    BY DEF Inv, HoldersLegal
  <2>2. Beginning(q) => /\ status[q] = "queued" /\ q = r
                        /\ call.kind = "move" /\ call.from = "queued" /\ call.to = "running"
    BY DEF Beginning, Opening, Move, r, call
  <2>3. status[q] = "running" /\ q = r /\ call.kind = "move" => call.from # "running"
    <3>1. Spared(q) /\ q = r => \A i \in 1..Len(cs) :
            cs[i].kind = "move" /\ cs[i].to \in TerminalStatus => cs[i].from # status[r]
      BY DEF Spared, r, cs
    <3>2. 1 \in 1..Len(cs) /\ call = cs[1]
      BY <1>4 DEF call, cs
    <3> QED BY <1>2, <2>1, <3>1, <3>2 DEF Lifecycle
  <2>4. status'[q] = "running"
    BY <1>1, <1>2, <1>5, <2>1, <2>2, <2>3
  <2>5. Spared(q)'
    <3> SUFFICES ASSUME section'.run = q, NEW i \in 1..Len(rest),
                        rest[i].kind = "move", rest[i].to \in TerminalStatus
                 PROVE  rest[i].from # "running"
      BY <1>1, <2>4 DEF Spared
    <3>1. q = r /\ rest # <<>>
      BY <1>1, <1>4
    <3>2. ASSUME rest[i].from = "running"  PROVE FALSE
      <4>1. i+1 \in 1..Len(cs) /\ cs[i+1] = rest[i]
        BY <1>1
      <4>2. status[q] # "running"
        BY <2>1, <3>1, <3>2, <4>1 DEF Spared, r, cs
      <4>3. cs = Opening
        BY <2>1, <3>1, <4>2 DEF Beginning, cs
      <4>4. i + 1 = 2 /\ cs[2].kind = "note"
        BY <4>1, <4>3, <1>1 DEF Opening, Note
      <4> QED BY <4>1, <4>4
    <3> QED BY <3>2
  <2> QED BY <2>1, <2>4, <2>5
<1>17. Registered'
  BY <1>3, <1>15 DEF Inv, Registered
<1>18. ClosersLegal'
  BY <1>3, <1>15 DEF Inv, ClosersLegal, At
<1>19. DownLegal'
  BY <1>3 DEF Inv, DownLegal
<1>20. WorkspaceLegal'
  BY <1>3 DEF Inv, WorkspaceLegal
<1>21. ThreadLegal'
  <2> SUFFICES ASSUME NEW q \in Runs, rest = <<Move("none", "queued")>>  PROVE FALSE
    BY <1>1 DEF ThreadLegal, Pending
  <2>1. 1 \in 1..Len(rest) /\ rest[1].kind = "move" /\ rest[1].to = "queued"
    BY DEF Move
  <2> QED BY <1>6, <2>1
<1>22. OneActivePerThread'
  <2> SUFFICES ASSUME NEW p \in Runs, NEW q \in Runs, ThreadOf[p] = ThreadOf[q],
                      status'[p] \in ActiveStatus, status'[q] \in ActiveStatus
               PROVE  p = q
    BY DEF OneActivePerThread
  <2>1. ASSUME NEW x \in Runs, status'[x] \in ActiveStatus, status[x] \notin ActiveStatus
        PROVE  x = r /\ Pending(x, Move("none", "queued"))
    <3>1. x = r /\ status[x] = "none" /\ status'[x] = "queued"
      BY <1>5, <2>1 DEF Lifecycle
    <3>2. /\ call.kind = "move" /\ call.from = "none" /\ call.to = "queued"
          /\ Len(cs) = 1
      <4>1. call.kind = "move" /\ call.from = "none" /\ call.to = "queued"
        BY <1>1, <1>2, <1>5, <3>1 DEF TypeOK
      <4>2. 1 \in 1..Len(cs) /\ call = cs[1]
        BY <1>4 DEF call, cs
      <4> QED BY <1>4, <4>1, <4>2 DEF LegalCalls
    <3>3. call = Move("none", "queued")
      BY <1>1, <3>2 DEF Call, Move
    <3>4. cs = <<call>>
      BY <1>1, <3>2 DEF call, cs
    <3> QED BY <3>1, <3>3, <3>4 DEF Pending, r, cs
  <2>2. \A x, y \in Runs : /\ ThreadOf[x] = ThreadOf[y] /\ status'[x] \in ActiveStatus
                           /\ status[x] \notin ActiveStatus
                           => status[y] \notin ActiveStatus
    BY <2>1 DEF Inv, ThreadLegal, Sibling
  <2>3. CASE status[p] \in ActiveStatus /\ status[q] \in ActiveStatus
    BY <2>3 DEF Inv, OneActivePerThread
  <2>4. CASE status[p] \notin ActiveStatus \/ status[q] \notin ActiveStatus
    BY <2>1, <2>2, <2>4
  <2> QED BY <2>3, <2>4
<1> QED BY <1>11, <1>13, <1>16, <1>17, <1>18, <1>19, <1>20, <1>21, <1>22 DEF Inv
-----------------------------------------------------------------------------
(* What a section that has just been handed over preserves. *)
LEMMA QuietSection ==
  ASSUME TypeOK, Inv, Quiescent, UNCHANGED <<durable, section>>
  PROVE  /\ SectionLegal' /\ ThreadLegal' /\ OneActivePerThread'
         /\ \A q \in Runs : Spared(q)'
<1>1. section'.calls = <<>> /\ section' = section /\ status' = status
  BY DEF Quiescent, durable
<1>2. \A q \in Runs : \A call : ~Pending(q, call)'
  BY <1>1 DEF Pending
<1>3. SectionLegal' /\ \A q \in Runs : Spared(q)'
  BY <1>1 DEF SectionLegal, LegalCalls, Spared
<1> QED BY <1>1, <1>2, <1>3 DEF Inv, ThreadLegal, OneActivePerThread

LEMMA CallsSection ==
  ASSUME TypeOK, Inv, Quiescent, UNCHANGED durable, NEW r \in Runs, NEW cs, Do(r, cs),
         LegalCalls(r, cs), cs # <<Move("none", "queued")>>
  PROVE  /\ SectionLegal' /\ ThreadLegal' /\ OneActivePerThread'
         /\ \A q \in Runs : q # r => Spared(q)'
         /\ (\A i \in 1..Len(cs) : cs[i].kind = "move" /\ cs[i].to \in TerminalStatus
                                   => cs[i].from # status[r]) => Spared(r)'
<1>1. /\ section'.calls = cs /\ section'.run \in {r, NoRun} /\ status' = status
      /\ NoRun \notin Runs
  BY ConstantsAssumption DEF Do, durable
<1>2. SectionLegal'
  BY LegalSection
<1>3. ThreadLegal' /\ OneActivePerThread'
  BY <1>1 DEF ThreadLegal, Pending, Inv, OneActivePerThread
<1> QED BY <1>1, <1>2, <1>3 DEF Spared

(* A step of a driver from one position to another. *)
LEMMA DriverMoves ==
  ASSUME TypeOK, Inv, Quiescent, UNCHANGED <<durable, server, caller, targets>>,
         NEW r \in Runs, driver[r] \notin Over,
         NEW pc, Goto(r, pc), pc # "new", pc = "lock" => driver[r] = "new",
         \/ active' = active
         \/ active' = active \ {r} /\ pc = "none",
         \A q \in Runs : q # r => Spared(q)',
         pc \in Holding => r \in active /\ Spared(r)' /\ (status[r] = "running" \/ Beginning(r)')
  PROVE  Recorded' /\ HoldersLegal' /\ Registered' /\ ClosersLegal' /\ DownLegal'
<1>1. /\ driver \in [Runs -> Driver] /\ driver' = [driver EXCEPT ![r] = pc]
      /\ UNCHANGED <<status, server, caller, targets>>
      /\ \A q \in Runs : q # r => driver'[q] = driver[q] /\ (q \in active' <=> q \in active)
      /\ driver'[r] = pc /\ active' \subseteq active
  BY DEF TypeOK, Goto, durable
<1>2. driver[r] \notin {"none", "unstarted"}
  BY DEF Over
<1>3. Recorded'
  <2> SUFFICES ASSUME NEW q \in Runs, status[q] = "none"
               PROVE  /\ driver'[q] = "none" /\ q \notin active' /\ q \notin targets
                      /\ \A c \in Callers : caller[c].run # q
    BY <1>1 DEF Recorded
  <2>1. q # r /\ driver[q] = "none" /\ q \notin active
        /\ q \notin targets /\ \A c \in Callers : caller[c].run # q
    BY <1>2, QuietFacts
  <2> QED BY <1>1, <2>1
<1>4. HoldersLegal'
  <2> SUFFICES ASSUME NEW q \in Runs, driver'[q] \in Holding
               PROVE  q \in active' /\ Spared(q)' /\ (status[q] = "running" \/ Beginning(q)')
    BY <1>1 DEF HoldersLegal
  <2>1. CASE q = r
    BY <1>1, <2>1 DEF Holding
  <2>2. CASE q # r
    BY <1>1, <2>2, QuietFacts
  <2> QED BY <2>1, <2>2
<1>5. Registered'
  <2> SUFFICES ASSUME NEW q \in Runs, driver'[q] \in {"new", "lock"}
               PROVE  q \in active' \/ status[q] \in TerminalStatus
    BY <1>1 DEF Registered, Settled
  <2>1. driver[q] \in {"new", "lock"} /\ (q = r => active' = active)
    BY <1>1
  <2>2. q \in active \/ status[q] \in TerminalStatus
    BY <2>1, QuietFacts
  <2> QED BY <1>1, <2>1, <2>2
<1>6. ClosersLegal'
  <2> SUFFICES ASSUME NEW c \in Callers, NEW q \in Runs, At(c, "closing", q)
               PROVE  /\ driver'[q] = "unstarted" \/ status[q] \in TerminalStatus
                      /\ \A d \in Callers : At(d, "closing", q) => c = d
    BY <1>1 DEF ClosersLegal, Settled, At
  <2>1. driver[q] = "unstarted" \/ status[q] \in TerminalStatus
    BY QuietFacts
  <2> QED BY <1>1, <1>2, <2>1 DEF Inv, ClosersLegal
<1>7. DownLegal'
  BY <1>1, <1>2 DEF Inv, DownLegal
<1> QED BY <1>3, <1>4, <1>5, <1>6, <1>7

(* A driver that leaves the workspace, and one that has nothing to do with it. *)
LEMMA WorkspaceLeft ==
  ASSUME TypeOK, Inv, NEW r \in Runs, NEW pc, pc \notin Holding, Goto(r, pc), Leave(r)
  PROVE  WorkspaceLegal'
<1> DEFINE rest == Without(workspace, r)
<1>1. workspace' = rest /\ workspace \in Seq(Runs) /\ driver \in [Runs -> Driver]
      /\ driver' = [driver EXCEPT ![r] = pc]
  BY DEF Leave, TypeOK, Goto
<1>2. /\ \A i, j \in 1..Len(workspace) : workspace[i] = workspace[j] => i = j
      /\ \A i \in 1..Len(workspace) : driver[workspace[i]] \in Holding \cup {"lock"}
      /\ \A q \in Runs : driver[q] \in Holding => workspace # <<>> /\ workspace[1] = q
  BY DEF Inv, WorkspaceLegal
<1>3. /\ rest \in Seq(Runs)
      /\ \A i \in 1..Len(rest) : \E j \in 1..Len(workspace) : rest[i] = workspace[j]
      /\ \A y : y # r /\ workspace # <<>> /\ workspace[1] = y => rest # <<>> /\ rest[1] = y
      /\ \A i \in 1..Len(rest) : rest[i] # r
      /\ \A i, j \in 1..Len(rest) : rest[i] = rest[j] => i = j
  BY <1>1, <1>2, WithoutProperties
<1> HIDE DEF rest
<1>4. \A i \in 1..Len(rest) : driver'[rest[i]] \in Holding \cup {"lock"}
  <2> SUFFICES ASSUME NEW i \in 1..Len(rest)
               PROVE  driver'[rest[i]] \in Holding \cup {"lock"}
    OBVIOUS
  <2>1. rest[i] \in Runs /\ rest[i] # r /\ driver[rest[i]] \in Holding \cup {"lock"}
    BY <1>2, <1>3
  <2> QED BY <1>1, <2>1
<1>5. \A q \in Runs : driver'[q] \in Holding => rest # <<>> /\ rest[1] = q
  <2> SUFFICES ASSUME NEW q \in Runs, driver'[q] \in Holding
               PROVE  rest # <<>> /\ rest[1] = q
    OBVIOUS
  <2>1. q # r /\ driver[q] \in Holding
    BY <1>1
  <2> QED BY <1>2, <1>3, <2>1
<1> QED BY <1>1, <1>3, <1>4, <1>5 DEF WorkspaceLegal

LEMMA WorkspaceKept ==
  ASSUME TypeOK, Inv, NEW r \in Runs, NEW pc, Goto(r, pc), UNCHANGED workspace,
         \/ driver[r] \notin Holding \cup {"lock"} /\ pc \notin Holding
         \/ driver[r] \in Holding /\ pc \in Holding
  PROVE  WorkspaceLegal'
<1>1. /\ \A i, j \in 1..Len(workspace) : workspace[i] = workspace[j] => i = j
      /\ \A i \in 1..Len(workspace) : driver[workspace[i]] \in Holding \cup {"lock"}
      /\ \A q \in Runs : driver[q] \in Holding => workspace # <<>> /\ workspace[1] = q
      /\ \A i \in 1..Len(workspace) : workspace[i] \in Runs
  BY DEF Inv, WorkspaceLegal, TypeOK
<1>2. driver \in [Runs -> Driver] /\ driver' = [driver EXCEPT ![r] = pc]
  BY DEF TypeOK, Goto
<1>3. /\ \A q \in Runs : driver[q] \in Holding \cup {"lock"} =>
           driver'[q] \in Holding \cup {"lock"}
      /\ \A q \in Runs : driver'[q] \in Holding => driver[q] \in Holding
  BY <1>2
<1> QED BY <1>1, <1>3 DEF WorkspaceLegal
-----------------------------------------------------------------------------
(* The workspace is granted, or waited for. *)
LEMMA WorkspaceGranted ==
  ASSUME TypeOK, Inv, NEW r \in Runs, Goto(r, "events"), driver[r] \in {"new", "lock"},
         workspace' = IF workspace = <<>> THEN <<r>> ELSE workspace,
         workspace # <<>> => workspace[1] = r
  PROVE  WorkspaceLegal'
<1>1. /\ \A i, j \in 1..Len(workspace) : workspace[i] = workspace[j] => i = j
      /\ \A i \in 1..Len(workspace) : driver[workspace[i]] \in Holding \cup {"lock"}
      /\ \A q \in Runs : driver[q] \in Holding => workspace # <<>> /\ workspace[1] = q
      /\ \A i \in 1..Len(workspace) : workspace[i] \in Runs
  BY DEF Inv, WorkspaceLegal, TypeOK
<1>2. /\ driver \in [Runs -> Driver] /\ driver' = [driver EXCEPT ![r] = "events"]
      /\ "events" \in Holding /\ driver[r] \notin Holding
  BY DEF TypeOK, Goto, Holding
<1>3. CASE workspace = <<>>
  <2>1. workspace' = <<r>>
    BY <1>3
  <2>2. \A q \in Runs : driver'[q] \in Holding => q = r
    BY <1>1, <1>2, <1>3
  <2> QED BY <1>2, <2>1, <2>2 DEF WorkspaceLegal
<1>4. CASE workspace # <<>>
  <2>1. workspace' = workspace /\ workspace[1] = r
    BY <1>4
  <2>2. \A q \in Runs : /\ driver[q] \in Holding \cup {"lock"} =>
                             driver'[q] \in Holding \cup {"lock"}
                        /\ driver'[q] \in Holding => q = r
    BY <1>1, <1>2, <2>1
  <2> QED BY <1>1, <1>2, <1>4, <2>1, <2>2 DEF WorkspaceLegal
<1> QED BY <1>3, <1>4

LEMMA WorkspaceAwaited ==
  ASSUME TypeOK, Inv, NEW r \in Runs, Goto(r, "lock"), driver[r] = "new",
         workspace' = Append(workspace, r)
  PROVE  WorkspaceLegal'
<1> DEFINE n == Len(workspace)
<1>1. /\ \A i, j \in 1..n : workspace[i] = workspace[j] => i = j
      /\ \A i \in 1..n : driver[workspace[i]] \in Holding \cup {"lock"}
      /\ \A q \in Runs : driver[q] \in Holding => workspace # <<>> /\ workspace[1] = q
      /\ \A i \in 1..n : workspace[i] \in Runs
      /\ workspace \in Seq(Runs) /\ n \in Nat /\ (workspace # <<>> => n >= 1)
  BY DEF Inv, WorkspaceLegal, TypeOK
<1>2. /\ driver \in [Runs -> Driver] /\ driver' = [driver EXCEPT ![r] = "lock"]
      /\ "lock" \notin Holding /\ "new" \notin Holding
  BY DEF TypeOK, Goto, Holding
<1>3. /\ Len(workspace') = n + 1 /\ workspace'[n+1] = r
      /\ \A i \in 1..n : workspace'[i] = workspace[i]
      /\ workspace' # <<>>
  BY <1>1
<1> HIDE DEF n
<1>4. \A i \in 1..n : workspace[i] # r
  BY <1>1, <1>2
<1>5. \A i \in 1..n+1 : i \in 1..n \/ i = n+1
  BY <1>1
<1>6. \A i, j \in 1..n+1 : workspace'[i] = workspace'[j] => i = j
  BY <1>1, <1>3, <1>4, <1>5
<1>7. \A i \in 1..n+1 : driver'[workspace'[i]] \in Holding \cup {"lock"}
  BY <1>1, <1>2, <1>3, <1>4, <1>5
<1>8. \A q \in Runs : driver'[q] \in Holding => workspace'[1] = q
  <2> SUFFICES ASSUME NEW q \in Runs, driver'[q] \in Holding  PROVE workspace'[1] = q
    OBVIOUS
  <2>1. q # r /\ driver[q] \in Holding
    BY <1>2
  <2>2. workspace # <<>> /\ workspace[1] = q
    BY <1>1, <2>1
  <2>3. 1 \in 1..n
    BY <1>1, <2>2
  <2> QED BY <1>3, <2>2, <2>3
<1> QED BY <1>3, <1>6, <1>7, <1>8 DEF WorkspaceLegal

LEMMA EnterInv ==
  ASSUME TypeOK, Inv, NEW r \in Runs, Enter(r) \/ Acquire(r)  PROVE Inv'
<1>1. /\ Quiescent /\ driver[r] \in {"new", "lock"} /\ driver[r] \notin Over
      /\ UNCHANGED <<durable, server, active, caller, targets>>
  BY DEF Enter, Acquire, Steps, callers, Over
<1>2. workspace # <<>> => Head(workspace) = workspace[1]
  BY DEF TypeOK
<1>3. CASE /\ status[r] = "queued" /\ Do(r, Opening) /\ Goto(r, "events")
           /\ workspace' = IF workspace = <<>> THEN <<r>> ELSE workspace
           /\ workspace # <<>> => r = Head(workspace)
  <2>1. Opening # <<Move("none", "queued")>> /\ LegalCalls(r, Opening)
    BY <1>3, LegalOpening DEF Opening
  <2>2. \A i \in 1..Len(Opening) : Opening[i].kind = "move" /\ Opening[i].to \in TerminalStatus
                                   => Opening[i].from # status[r]
    BY DEF Opening, Move, Note
  <2>3. /\ SectionLegal' /\ ThreadLegal' /\ OneActivePerThread'
        /\ \A q \in Runs : q # r => Spared(q)'
        /\ Spared(r)'
    BY <1>1, <1>3, <2>1, <2>2, CallsSection
  <2>4. Beginning(r)'
    BY <1>1, <1>3 DEF Beginning, Do, Opening, durable
  <2>5. r \in active
    BY <1>1, <1>3, QuietFacts
  <2>6. Recorded' /\ HoldersLegal' /\ Registered' /\ ClosersLegal' /\ DownLegal'
    BY <1>1, <1>3, <2>3, <2>4, <2>5, DriverMoves
  <2>7. WorkspaceLegal'
    BY <1>1, <1>2, <1>3, WorkspaceGranted
  <2> QED BY <2>3, <2>6, <2>7 DEF Inv
<1>4. CASE Goto(r, "failClose") /\ Leave(r) /\ UNCHANGED section
  <2>1. /\ SectionLegal' /\ ThreadLegal' /\ OneActivePerThread'
        /\ \A q \in Runs : Spared(q)'
    BY <1>1, <1>4, QuietSection
  <2>2. Recorded' /\ HoldersLegal' /\ Registered' /\ ClosersLegal' /\ DownLegal'
    BY <1>1, <1>4, <2>1, DriverMoves DEF Holding
  <2>3. WorkspaceLegal'
    BY <1>4, WorkspaceLeft DEF Holding
  <2> QED BY <2>1, <2>2, <2>3 DEF Inv
<1>5. CASE /\ driver[r] = "new" /\ Goto(r, "lock") /\ workspace' = Append(workspace, r)
           /\ UNCHANGED section
  <2>1. /\ SectionLegal' /\ ThreadLegal' /\ OneActivePerThread'
        /\ \A q \in Runs : Spared(q)'
    BY <1>1, <1>5, QuietSection
  <2>2. Recorded' /\ HoldersLegal' /\ Registered' /\ ClosersLegal' /\ DownLegal'
    BY <1>1, <1>5, <2>1, DriverMoves DEF Holding
  <2>3. WorkspaceLegal'
    BY <1>5, WorkspaceAwaited
  <2> QED BY <2>1, <2>2, <2>3 DEF Inv
<1> QED BY <1>3, <1>4, <1>5 DEF Enter, Acquire, Granted, Steps

(* Steps inside the workspace that record at most a notice. *)
LEMMA NoticeInv ==
  ASSUME TypeOK, Inv, Quiescent, NEW r \in Runs, driver[r] \in Holding,
         NEW pc \in Holding, Goto(r, pc) \/ (UNCHANGED driver /\ pc = driver[r]),
         UNCHANGED <<durable, server, active, workspace, callers>>,
         \/ UNCHANGED section
         \/ \E k \in {"output", "retry"} : Do(r, <<Note(k)>>)
         \/ \E w \in BOOLEAN : Do(r, Warning(w))
  PROVE  Inv'
<1>1. /\ r \in active /\ status[r] = "running" /\ driver[r] \notin Over
      /\ UNCHANGED <<caller, targets>> /\ Goto(r, pc) /\ pc \notin {"new", "lock"}
  BY QuietFacts DEF Holding, Over, callers, Goto, TypeOK
<1>2. /\ SectionLegal' /\ ThreadLegal' /\ OneActivePerThread'
      /\ \A q \in Runs : Spared(q)'
  <2>1. CASE UNCHANGED section
    BY <2>1, QuietSection
  <2>2. ASSUME NEW cs, Do(r, cs), cs = <<>> \/ \E k \in NoticeKind \ {"started", "cancelled"} : cs = <<Note(k)>>
        PROVE  /\ SectionLegal' /\ ThreadLegal' /\ OneActivePerThread'
               /\ \A q \in Runs : Spared(q)'
    <3>1. LegalCalls(r, cs)
      BY <1>1, <2>2, LegalNothing, LegalNote
    <3>2. /\ cs # <<Move("none", "queued")>>
          /\ \A i \in 1..Len(cs) : cs[i].kind # "move"
      BY <2>2 DEF Move, Note
    <3> QED BY <2>2, <3>1, <3>2, CallsSection
  <2>3. \A w \in BOOLEAN : Warning(w) = <<>> \/ Warning(w) = <<Note("warning")>>
    BY DEF Warning
  <2> QED BY <2>1, <2>2, <2>3 DEF NoticeKind
<1>3. Recorded' /\ HoldersLegal' /\ Registered' /\ ClosersLegal' /\ DownLegal'
  BY <1>1, <1>2, DriverMoves
<1>4. WorkspaceLegal'
  BY <1>1, WorkspaceKept
<1> QED BY <1>2, <1>3, <1>4 DEF Inv
(* Steps with which a driver leaves the workspace, or ends outside it. *)
LEMMA LeaveInv ==
  ASSUME TypeOK, Inv, Quiescent, NEW r \in Runs, driver[r] \notin Over,
         NEW pc \in {"none", "unstarted", "failClose", "cancelClose"}, Goto(r, pc),
         \/ active' = active
         \/ active' = active \ {r} /\ pc = "none",
         \/ Leave(r)
         \/ UNCHANGED workspace /\ driver[r] \notin Holding \cup {"lock"},
         UNCHANGED <<durable, server, caller, targets>>,
         \/ UNCHANGED section
         \/ \E cs : /\ Do(r, cs) /\ LegalCalls(r, cs) /\ cs # <<Move("none", "queued")>>
  PROVE  Inv'
<1>1. pc \notin Holding \cup {"new", "lock"}
  BY DEF Holding
<1>2. /\ SectionLegal' /\ ThreadLegal' /\ OneActivePerThread'
      /\ \A q \in Runs : q # r => Spared(q)'
  BY QuietSection, CallsSection
<1>3. Recorded' /\ HoldersLegal' /\ Registered' /\ ClosersLegal' /\ DownLegal'
  BY <1>1, <1>2, DriverMoves
<1>4. WorkspaceLegal'
  BY <1>1, WorkspaceLeft, WorkspaceKept
<1> QED BY <1>2, <1>3, <1>4 DEF Inv

(* Only the section of a run without a record creates one. *)
LEMMA NotCreating ==
  ASSUME NEW r, NEW cs, LegalCalls(r, cs), status[r] # "none"
  PROVE  cs # <<Move("none", "queued")>>
<1> SUFFICES ASSUME cs = <<Move("none", "queued")>>  PROVE FALSE
  OBVIOUS
<1>1. 1 \in 1..Len(cs) /\ cs[1].kind = "move" /\ cs[1].to = "queued"
  BY DEF Move
<1> QED BY <1>1 DEF LegalCalls

LEMMA ClosedInv ==
  ASSUME TypeOK, Inv, NEW r \in Runs, NEW w \in BOOLEAN,
         Closed(r, w) \/ FailClosed(r, w) \/ CancelClosed(r, w)
  PROVE  Inv'
<1>1. Quiescent /\ driver[r] \notin Over /\ status[r] # "none"
  <2>1. Quiescent /\ driver[r] \in {"close", "failClose", "cancelClose"}
    BY DEF Closed, FailClosed, CancelClosed, Steps
  <2> QED BY <2>1, QuietFacts DEF Over
<1>2. Goto(r, "none") /\ active' = active \ {r}
  BY DEF Closed, FailClosed, CancelClosed, End
<1>3. /\ UNCHANGED <<durable, server, caller, targets>>
      /\ \/ Leave(r)
         \/ UNCHANGED workspace /\ driver[r] \notin Holding \cup {"lock"}
  BY DEF Closed, FailClosed, CancelClosed, Steps, Holding, callers
<1>4. \E cs : Do(r, cs) /\ LegalCalls(r, cs) /\ cs # <<Move("none", "queued")>>
  <2>1. CASE Closed(r, w)
    <3> DEFINE to == IF stream[r] = "errored" THEN "failed" ELSE "completed"
    <3>1. Do(r, Warning(w) \o <<Move("running", to)>>) /\ to \in {"completed", "failed"}
      BY <2>1 DEF Closed
    <3> HIDE DEF to
    <3>2. LegalCalls(r, Warning(w) \o <<Move("running", to)>>)
      BY <1>1, <3>1, LegalWarned
    <3> QED BY <1>1, <3>1, <3>2, NotCreating
  <2>2. CASE FailClosed(r, w)
    BY <1>1, <2>2, LegalSettling, NotCreating DEF FailClosed
  <2>3. CASE CancelClosed(r, w)
    BY <1>1, <2>3, LegalCancelled, NotCreating DEF CancelClosed
  <2> QED BY <2>1, <2>2, <2>3
<1> QED BY <1>1, <1>2, <1>3, <1>4, LeaveInv

LEMMA InterruptInv ==
  ASSUME TypeOK, Inv, NEW r \in Runs, Interrupt(r)  PROVE Inv'
<1>1. Quiescent /\ driver[r] \notin Over
  BY DEF Interrupt, Over
<1>2. status[r] # "none"
  BY <1>1, QuietFacts DEF Over
<1>3. UNCHANGED <<durable, server, caller, targets>> /\ Leave(r)
  BY DEF Interrupt, callers
<1>4. \/ /\ Goto(r, "unstarted") \/ Goto(r, "cancelClose")
         /\ UNCHANGED <<section, active>>
      \/ /\ Goto(r, "none") /\ active' = active \ {r}
         /\ Do(r, Cancelled(r)) \/ UNCHANGED section
  BY DEF Interrupt, End
<1>5. LegalCalls(r, Cancelled(r)) /\ Cancelled(r) # <<Move("none", "queued")>>
  BY <1>2, LegalCancelled, NotCreating
<1> QED BY <1>1, <1>3, <1>4, <1>5, LeaveInv

LEMMA DriveInv ==
  ASSUME TypeOK, Inv, NEW r \in Runs, Drive(r) \/ Yield(r)  PROVE Inv'
<1>1. CASE Enter(r) \/ Acquire(r)
  BY <1>1, EnterInv
<1>2. CASE FirstEventTimeout(r)
  BY <1>2, NoticeInv DEF FirstEventTimeout, Steps, Holding
<1>3. ASSUME NEW w \in CloseWarns, RetryClosed(r, w)  PROVE Inv'
  BY <1>3, NoticeInv, ConstantsAssumption DEF RetryClosed, Steps, Holding
<1>4. CASE RetryCreated(r) \/ StreamEnds(r)
  BY <1>4, NoticeInv DEF RetryCreated, StreamEnds, Steps, Holding
<1>5. CASE RetryCreateFails(r)
  <2>1. /\ Quiescent /\ driver[r] \notin Over /\ Do(r, Settling(r, "failed"))
        /\ Goto(r, "none") /\ active' = active \ {r} /\ Leave(r)
        /\ UNCHANGED <<durable, server, caller, targets>>
    BY <1>5 DEF RetryCreateFails, Steps, Over, End, callers
  <2>2. status[r] # "none"
    BY <2>1, QuietFacts DEF Over
  <2>3. LegalCalls(r, Settling(r, "failed")) /\ Settling(r, "failed") # <<Move("none", "queued")>>
    BY <2>2, LegalSettling, NotCreating
  <2> QED BY <2>1, <2>3, LeaveInv
<1>6. CASE StreamFails(r)
  BY <1>6, LeaveInv DEF StreamFails, Steps, Over, callers
<1>7. ASSUME NEW w \in CloseWarns, Closed(r, w) \/ FailClosed(r, w) \/ CancelClosed(r, w)
      PROVE  Inv'
  BY <1>7, ClosedInv, ConstantsAssumption
<1>8. CASE Interrupt(r)
  BY <1>8, InterruptInv
<1>9. CASE Yield(r)
  BY <1>9, NoticeInv DEF Yield, Activity, Output, Fault, Steps, Holding
<1> QED BY <1>1, <1>2, <1>3, <1>4, <1>5, <1>6, <1>7, <1>8, <1>9 DEF Drive
-----------------------------------------------------------------------------
(* The section that creates the record of a run. *)
LEMMA CreatingSection ==
  ASSUME TypeOK, Inv, Quiescent, UNCHANGED durable, NEW r \in Runs, status[r] = "none",
         \A q \in Sibling(r) : status[q] \notin ActiveStatus,
         Do(r, <<Move("none", "queued")>>)
  PROVE  /\ SectionLegal' /\ ThreadLegal' /\ OneActivePerThread'
         /\ \A q \in Runs : Spared(q)'
         /\ Pending(r, Move("none", "queued"))'
<1> DEFINE m == Move("none", "queued")
<1>1. /\ section'.calls = <<m>> /\ section'.run = r /\ status' = status
      /\ m.kind = "move" /\ m.from = "none" /\ m.to = "queued"
  BY DEF Do, durable, Move
<1>2. Pending(r, m)'
  BY <1>1 DEF Pending, Move
<1>3. LegalCalls(r, <<m>>)
  BY <1>1 DEF LegalCalls, Lifecycle
<1>4. SectionLegal'
  BY <1>3, LegalSection
<1>5. ThreadLegal'
  BY <1>1 DEF ThreadLegal, Pending, Sibling
<1>6. OneActivePerThread'
  BY <1>1 DEF Inv, OneActivePerThread
<1>7. \A q \in Runs : Spared(q)'
  BY <1>1 DEF Spared
<1> QED BY <1>2, <1>4, <1>5, <1>6, <1>7

(* A step of a caller, which begins or ends a request without moving a driver. *)
LEMMA CallerMoves ==
  ASSUME TypeOK, Inv, Quiescent, UNCHANGED <<durable, driver, active, workspace>>,
         server # "down" /\ server' # "down",
         NEW c \in Callers, NEW x, x.pc # "closing",
         caller' = [caller EXCEPT ![c] = x] \/ UNCHANGED caller,
         x.run \in Runs =>
           status[x.run] # "none" \/ Pending(x.run, Move("none", "queued"))',
         \A q \in targets' : status[q] # "none",
         \A q \in Runs : driver[q] \in Holding => Spared(q)'
  PROVE  /\ Recorded' /\ HoldersLegal' /\ Registered' /\ ClosersLegal' /\ DownLegal'
         /\ WorkspaceLegal'
<1>1. status' = status /\ caller \in [Callers -> Caller]
  BY DEF durable, TypeOK
<1>2. Recorded'
  <2> SUFFICES ASSUME NEW q \in Runs, status[q] = "none", NEW d \in Callers
               PROVE  /\ driver[q] = "none" /\ q \notin active /\ q \notin targets'
                      /\ caller'[d].run = q => Pending(q, Move("none", "queued"))'
    BY <1>1 DEF Recorded
  <2>1. driver[q] = "none" /\ q \notin active /\ caller[d].run # q
    BY QuietFacts
  <2>2. caller'[d] \in {caller[d], x}
    BY <1>1
  <2>3. caller'[d].run = q => Pending(q, Move("none", "queued"))'
    BY <2>1, <2>2
  <2>4. q \notin targets'
    OBVIOUS
  <2> QED BY <2>1, <2>3, <2>4
<1>3. HoldersLegal'
  BY <1>1, QuietFacts DEF HoldersLegal
<1>4. Registered'
  BY <1>1, QuietFacts DEF Registered, Settled
<1>5. ClosersLegal'
  <2> SUFFICES ASSUME NEW b \in Callers, NEW q \in Runs, At(b, "closing", q)'
               PROVE  /\ driver[q] = "unstarted" \/ status[q] \in TerminalStatus
                      /\ \A d \in Callers : At(d, "closing", q)' => b = d
    BY <1>1 DEF ClosersLegal, Settled
  <2>1. \A d \in Callers : At(d, "closing", q)' => At(d, "closing", q)
    BY <1>1 DEF At
  <2>2. driver[q] = "unstarted" \/ status[q] \in TerminalStatus
    BY <2>1, QuietFacts
  <2> QED BY <2>1, <2>2 DEF Inv, ClosersLegal
<1>6. DownLegal'
  BY DEF DownLegal
<1>7. WorkspaceLegal'
  BY <1>1 DEF Inv, WorkspaceLegal
<1> QED BY <1>2, <1>3, <1>4, <1>5, <1>6, <1>7

(* What start does once it has the record and the lifecycle lock. *)
LEMMA LockedInv ==
  ASSUME TypeOK, Inv, Quiescent, server = "up" \/ server = "stopping",
         NEW c \in Clients, NEW r \in Runs, NEW seen \in Status, NEW cs,
         Locked(c, r, seen, cs) \/ (/\ Do(r, cs)
              /\ caller' = [caller EXCEPT ![c] = [pc |-> "starting", run |-> r, seen |-> seen]]),
         \/ cs = <<>> /\ status[r] # "none"
         \/ /\ cs = <<Move("none", "queued")>> /\ seen = "queued" /\ status[r] = "none"
            /\ \A q \in Sibling(r) : status[q] \notin ActiveStatus,
         UNCHANGED <<durable, server, active, driver, workspace, targets>>
  PROVE  Inv'
<1>1. c \in Callers /\ NoRun \notin Runs
  BY ConstantsAssumption DEF Callers
<1>2. PICK x \in {Idle, [pc |-> "creating", run |-> r, seen |-> seen],
                  [pc |-> "starting", run |-> r, seen |-> seen]} :
        caller' = [caller EXCEPT ![c] = x]
  BY DEF Locked
<1> x.pc # "closing" /\ x.run \in {r, NoRun}
  BY DEF Idle
<1>3. \A q \in targets' : status[q] # "none"
  BY QuietFacts DEF TypeOK
<1>4. \/ Do(r, cs)
      \/ /\ seen = "running" /\ r \notin active
         /\ Do(r, cs \o <<Move("running", "failed")>>)
  BY DEF Locked
<1>5. /\ SectionLegal' /\ ThreadLegal' /\ OneActivePerThread'
      /\ \A q \in Runs : driver[q] \in Holding => Spared(q)'
      /\ status[r] # "none" \/ Pending(r, Move("none", "queued"))'
  <2>1. CASE Do(r, cs) /\ cs = <<>> /\ status[r] # "none"
    <3>1. \A i \in 1..Len(cs) : FALSE
      BY <2>1
    <3>2. LegalCalls(r, cs) /\ cs # <<Move("none", "queued")>>
      BY <2>1, LegalNothing
    <3> QED BY <2>1, <3>1, <3>2, CallsSection
  <2>2. CASE /\ Do(r, cs) /\ cs = <<Move("none", "queued")>> /\ status[r] = "none"
             /\ \A q \in Sibling(r) : status[q] \notin ActiveStatus
    BY <2>2, CreatingSection
  <2>3. CASE /\ seen = "running" /\ r \notin active
             /\ Do(r, cs \o <<Move("running", "failed")>>)
    <3>1. cs \o <<Move("running", "failed")>> = <<Move("running", "failed")>>
      BY <2>3, Joins
    <3>2. LegalCalls(r, <<Move("running", "failed")>>) /\ status[r] # "none"
      BY <2>3, LegalMove
    <3>3. driver[r] \notin Holding
      BY <2>3, QuietFacts
    <3> QED BY <2>3, <3>1, <3>2, <3>3, CallsSection, NotCreating
  <2> QED BY <1>4, <2>1, <2>2, <2>3
<1>6. /\ Recorded' /\ HoldersLegal' /\ Registered' /\ ClosersLegal' /\ DownLegal'
      /\ WorkspaceLegal'
  BY <1>1, <1>2, <1>3, <1>5, CallerMoves
<1> QED BY <1>5, <1>6 DEF Inv

LEMMA StartInv ==
  ASSUME TypeOK, Inv, NEW c \in Clients, NEW r \in Runs, Start(c, r)  PROVE Inv'
<1> DEFINE new   == status[r] = "none"
           seen  == IF new THEN "queued" ELSE status[r]
           cs    == IF new THEN <<Move("none", "queued")>> ELSE <<>>
<1>1. seen \in Status
  BY DEF TypeOK, Status
<1>2. /\ Quiescent /\ server = "up"
      /\ UNCHANGED <<durable, server, active, driver, workspace, targets>>
  BY DEF Start, tasks
<1>3. \/ cs = <<>> /\ status[r] # "none"
      \/ /\ cs = <<Move("none", "queued")>> /\ seen = "queued" /\ status[r] = "none"
         /\ \A q \in Sibling(r) : status[q] \notin ActiveStatus
  BY DEF Start
<1>4. \/ Locked(c, r, seen, cs)
      \/ /\ Do(r, cs)
         /\ caller' = [caller EXCEPT ![c] = [pc |-> "starting", run |-> r, seen |-> seen]]
  BY DEF Start
<1> HIDE DEF seen, cs
<1> QED BY <1>1, <1>2, <1>3, <1>4, LockedInv

LEMMA StartLockedInv ==
  ASSUME TypeOK, Inv, NEW c \in Clients, StartLocked(c)  PROVE Inv'
<1> DEFINE r == caller[c].run  seen == caller[c].seen
<1>1. c \in Callers /\ caller[c].pc = "starting" /\ Quiescent
  BY DEF StartLocked, Callers
<1>2. r \in Runs /\ seen \in Status
  BY <1>1 DEF TypeOK, Caller
<1>3. status[r] # "none"
  BY <1>1, <1>2, QuietFacts
<1>4. server = "up" \/ server = "stopping"
  BY <1>1 DEF Inv, DownLegal, TypeOK
<1>5. /\ Locked(c, r, seen, <<>>)
      /\ UNCHANGED <<durable, server, active, driver, workspace, targets>>
  BY DEF StartLocked, tasks
<1> HIDE DEF r, seen
<1> QED BY <1>1, <1>2, <1>3, <1>4, <1>5, LockedInv

LEMMA CreatedInv ==
  ASSUME TypeOK, Inv, NEW c \in Clients, NEW r \in Runs, Created(c, r)  PROVE Inv'
<1>1. /\ Quiescent /\ At(c, "creating", r) /\ driver[r] = "none" /\ c \in Callers
      /\ driver' = [driver EXCEPT ![r] = "new"] /\ active' = active \cup {r}
      /\ caller' = [caller EXCEPT ![c] = Idle]
      /\ UNCHANGED <<durable, section, server, workspace, targets>>
  BY DEF Created, Callers
<1>2. /\ status' = status /\ driver \in [Runs -> Driver] /\ caller \in [Callers -> Caller]
      /\ "new" \notin Holding
  BY <1>1 DEF durable, TypeOK, Holding
<1>3. status[r] # "none" /\ caller[c].run = r /\ caller[c].pc = "creating"
  BY <1>1, QuietFacts DEF At
<1>4. /\ SectionLegal' /\ ThreadLegal' /\ OneActivePerThread'
      /\ \A q \in Runs : Spared(q)'
  BY <1>1, QuietSection
<1>5. Idle.run \notin Runs /\ Idle.pc = "idle"
  BY ConstantsAssumption DEF Idle
<1>6. Recorded'
  <2> SUFFICES ASSUME NEW q \in Runs, status[q] = "none"
               PROVE  /\ driver'[q] = "none" /\ q \notin active' /\ q \notin targets
                      /\ \A d \in Callers : caller'[d].run # q
    BY <1>1, <1>2 DEF Recorded
  <2>1. /\ q # r /\ driver[q] = "none" /\ q \notin active /\ q \notin targets
        /\ \A d \in Callers : caller[d].run # q
    BY <1>1, <1>3, QuietFacts
  <2> QED BY <1>1, <1>2, <1>5, <2>1
<1>7. HoldersLegal'
  <2> SUFFICES ASSUME NEW q \in Runs, driver'[q] \in Holding
               PROVE  q \in active' /\ Spared(q)' /\ status[q] = "running"
    BY <1>2 DEF HoldersLegal
  <2>1. driver[q] \in Holding
    BY <1>1, <1>2
  <2> QED BY <1>1, <1>4, <2>1, QuietFacts
<1>8. Registered'
  <2> SUFFICES ASSUME NEW q \in Runs, driver'[q] \in {"new", "lock"}
               PROVE  q \in active' \/ status[q] \in TerminalStatus
    BY <1>2 DEF Registered, Settled
  <2>1. q # r => driver[q] \in {"new", "lock"}
    BY <1>1, <1>2
  <2> QED BY <1>1, <2>1, QuietFacts
<1>9. ClosersLegal'
  <2> SUFFICES ASSUME NEW b \in Callers, NEW q \in Runs, At(b, "closing", q)'
               PROVE  /\ driver'[q] = "unstarted" \/ status[q] \in TerminalStatus
                      /\ \A d \in Callers : At(d, "closing", q)' => b = d
    BY <1>2 DEF ClosersLegal, Settled
  <2>1. \A d \in Callers : At(d, "closing", q)' => At(d, "closing", q)
    BY <1>1, <1>2, <1>5 DEF At
  <2>2. driver[q] = "unstarted" \/ status[q] \in TerminalStatus
    BY <1>1, <2>1, QuietFacts
  <2>3. driver[q] = "unstarted" => driver'[q] = "unstarted"
    BY <1>1, <1>2
  <2> QED BY <2>1, <2>2, <2>3 DEF Inv, ClosersLegal
<1>10. DownLegal'
  BY <1>1, <1>3 DEF Inv, DownLegal
<1>11. WorkspaceLegal'
  BY <1>1, <1>2, WorkspaceKept DEF Goto, Holding
<1> QED BY <1>4, <1>6, <1>7, <1>8, <1>9, <1>10, <1>11 DEF Inv

LEMMA CreateFailsInv ==
  ASSUME TypeOK, Inv, NEW c \in Clients, NEW r \in Runs, CreateFails(c, r)  PROVE Inv'
<1>1. /\ Quiescent /\ At(c, "creating", r) /\ c \in Callers
      /\ Do(r, <<Move("queued", "failed")>>)
      /\ caller' = [caller EXCEPT ![c] = Idle]
      /\ UNCHANGED <<durable, server, active, driver, workspace, targets>>
  BY DEF CreateFails, Callers, tasks
<1>2. status[r] # "none" /\ server # "down"
  BY <1>1, QuietFacts DEF At, Inv, DownLegal
<1>3. LegalCalls(r, <<Move("queued", "failed")>>)
  BY LegalMove
<1>4. /\ SectionLegal' /\ ThreadLegal' /\ OneActivePerThread'
      /\ \A q \in Runs : driver[q] \in Holding => Spared(q)'
  <2>1. driver[r] \in Holding => status[r] # "queued"
    BY <1>1, QuietFacts
  <2>2. Move("queued", "failed").from = "queued"
    BY DEF Move
  <2> QED BY <1>1, <1>2, <1>3, <2>1, <2>2, CallsSection, NotCreating
<1>5. Idle.run \notin Runs /\ Idle.pc # "closing"
  BY ConstantsAssumption DEF Idle
<1>6. \A q \in targets' : status[q] # "none"
  BY <1>1, QuietFacts DEF TypeOK
<1>7. /\ Recorded' /\ HoldersLegal' /\ Registered' /\ ClosersLegal' /\ DownLegal'
      /\ WorkspaceLegal'
  BY <1>1, <1>2, <1>4, <1>5, <1>6, CallerMoves
<1> QED BY <1>4, <1>7 DEF Inv

LEMMA CancelInv ==
  ASSUME TypeOK, Inv, NEW c \in Clients, NEW r \in Runs,
         CancelQueued(c, r) \/ CancelActive(c, r)
  PROVE  Inv'
<1>1. /\ Quiescent /\ c \in Callers /\ server = "up"
      /\ UNCHANGED <<durable, server, active, driver, workspace, targets>>
  BY DEF CancelQueued, CancelActive, Callers, volatile, tasks, callers
<1>2. \A q \in targets' : status[q] # "none"
  BY <1>1, QuietFacts DEF TypeOK
<1>3. CASE CancelQueued(c, r)
  <2>1. /\ Do(r, <<Move("queued", "cancelled")>>) /\ status[r] = "queued" /\ r \notin active
        /\ UNCHANGED caller
    BY <1>3 DEF CancelQueued, volatile, callers
  <2>2. LegalCalls(r, <<Move("queued", "cancelled")>>) /\ driver[r] \notin Holding
    BY <1>1, <2>1, LegalMove, QuietFacts
  <2>3. /\ SectionLegal' /\ ThreadLegal' /\ OneActivePerThread'
        /\ \A q \in Runs : driver[q] \in Holding => Spared(q)'
    BY <1>1, <2>1, <2>2, CallsSection, NotCreating
  <2>4. Idle.run \notin Runs /\ Idle.pc # "closing"
    BY ConstantsAssumption DEF Idle
  <2>5. /\ Recorded' /\ HoldersLegal' /\ Registered' /\ ClosersLegal' /\ DownLegal'
        /\ WorkspaceLegal'
    BY <1>1, <1>2, <2>1, <2>3, <2>4, CallerMoves
  <2> QED BY <2>3, <2>5 DEF Inv
<1>4. CASE CancelActive(c, r)
  <2> DEFINE x == [pc |-> "cancelling", run |-> r, seen |-> "none"]
  <2>1. /\ r \in active /\ UNCHANGED section
        /\ caller' = [caller EXCEPT ![c] = x]
    BY <1>4 DEF CancelActive
  <2>2. x.pc # "closing" /\ x.run = r /\ status[r] # "none"
    BY <1>1, <2>1, QuietFacts
  <2>3. /\ SectionLegal' /\ ThreadLegal' /\ OneActivePerThread'
        /\ \A q \in Runs : Spared(q)'
    BY <1>1, <2>1, QuietSection
  <2> HIDE DEF x
  <2>4. /\ Recorded' /\ HoldersLegal' /\ Registered' /\ ClosersLegal' /\ DownLegal'
        /\ WorkspaceLegal'
    BY <1>1, <1>2, <2>1, <2>2, <2>3, CallerMoves
  <2> QED BY <2>3, <2>4 DEF Inv
<1> QED BY <1>3, <1>4

LEMMA StopInv ==
  ASSUME TypeOK, Inv, Stop \/ \E r \in Runs : StopNext(r)  PROVE Inv'
<1>1. /\ Quiescent /\ Stopper \in Callers /\ server # "down" /\ server' # "down"
      /\ UNCHANGED <<durable, section, active, driver, workspace>>
  BY DEF Stop, StopNext, Callers, tasks
<1>2. \A q \in targets' : status[q] # "none"
  <2>1. targets' \subseteq active \cup targets /\ active \cup targets \subseteq Runs
    BY DEF Stop, StopNext, TypeOK
  <2> QED BY <1>1, <2>1, QuietFacts
<1>3. /\ SectionLegal' /\ ThreadLegal' /\ OneActivePerThread'
      /\ \A q \in Runs : Spared(q)'
  BY <1>1, QuietSection
<1>4. CASE UNCHANGED caller
  <2>1. Idle.run \notin Runs /\ Idle.pc # "closing"
    BY ConstantsAssumption DEF Idle
  <2>2. /\ Recorded' /\ HoldersLegal' /\ Registered' /\ ClosersLegal' /\ DownLegal'
        /\ WorkspaceLegal'
    BY <1>1, <1>2, <1>3, <1>4, <2>1, CallerMoves
  <2> QED BY <1>3, <2>2 DEF Inv
<1>5. ASSUME NEW r \in Runs, StopNext(r)  PROVE Inv'
  <2> DEFINE x == [pc |-> "cancelling", run |-> r, seen |-> "none"]
  <2>1. caller' = [caller EXCEPT ![Stopper] = x] /\ r \in targets
    BY <1>5 DEF StopNext
  <2>2. x.pc # "closing" /\ x.run = r /\ status[r] # "none"
    BY <1>1, <2>1, QuietFacts
  <2> HIDE DEF x
  <2>3. /\ Recorded' /\ HoldersLegal' /\ Registered' /\ ClosersLegal' /\ DownLegal'
        /\ WorkspaceLegal'
    BY <1>1, <1>2, <1>3, <2>1, <2>2, CallerMoves
  <2> QED BY <1>3, <2>3 DEF Inv
<1> QED BY <1>4, <1>5 DEF Stop

LEMMA AwaitInv ==
  ASSUME TypeOK, Inv, NEW c \in Callers, NEW r \in Runs,
         Awaited(c, r) \/ UnstartedClosed(c, r)
  PROVE  Inv'
<1> DEFINE settle == <<Move("queued", "cancelled")>>
<1>1. /\ Quiescent /\ caller[c].run = r /\ caller[c].pc # "idle"
      /\ UNCHANGED <<durable, server, workspace, targets>>
  BY DEF Awaited, UnstartedClosed, At
<1>2. /\ status' = status /\ driver \in [Runs -> Driver] /\ caller \in [Callers -> Caller]
      /\ status[r] # "none" /\ server # "down"
  BY <1>1, QuietFacts DEF TypeOK, durable, Inv, DownLegal
<1>3. Idle.run \notin Runs /\ Idle.pc = "idle"
  BY ConstantsAssumption DEF Idle
<1>4. LegalCalls(r, settle) /\ settle # <<Move("none", "queued")>>
  BY <1>2, LegalMove, NotCreating
<1>5. \A q \in targets' : status[q] # "none"
  BY <1>1, QuietFacts DEF TypeOK
<1>6. CASE UNCHANGED <<section, active, driver>> /\ caller' = [caller EXCEPT ![c] = Idle]
  <2>1. /\ SectionLegal' /\ ThreadLegal' /\ OneActivePerThread'
        /\ \A q \in Runs : Spared(q)'
    BY <1>1, <1>6, QuietSection
  <2>2. /\ Recorded' /\ HoldersLegal' /\ Registered' /\ ClosersLegal' /\ DownLegal'
        /\ WorkspaceLegal'
    BY <1>1, <1>2, <1>3, <1>5, <1>6, <2>1, CallerMoves
  <2> QED BY <2>1, <2>2 DEF Inv
<1>7. CASE /\ driver[r] = "unstarted" /\ \A d \in Callers : ~At(d, "closing", r)
           /\ caller' = [caller EXCEPT ![c] = [@ EXCEPT !.pc = "closing"]]
           /\ UNCHANGED <<section, active, driver>>
  <2> DEFINE x == [caller[c] EXCEPT !.pc = "closing"]
  <2>1. /\ SectionLegal' /\ ThreadLegal' /\ OneActivePerThread'
        /\ \A q \in Runs : Spared(q)'
    BY <1>1, <1>7, QuietSection
  <2>2. x.run = r /\ x.pc = "closing" /\ caller' = [caller EXCEPT ![c] = x]
    BY <1>1, <1>2, <1>7 DEF Caller
  <2> HIDE DEF x
  <2>3. \A d \in Callers : /\ caller'[d].run = caller[d].run
                           /\ d # c => caller'[d] = caller[d]
    BY <1>1, <1>2, <2>2
  <2>4. Recorded'
    BY <1>1, <1>2, <1>7, <2>3, QuietFacts DEF Recorded
  <2>5. HoldersLegal' /\ Registered'
    BY <1>1, <1>2, <1>7, <2>1, QuietFacts DEF HoldersLegal, Registered, Settled
  <2>6. ClosersLegal'
    <3>1. \A d \in Callers, q \in Runs : At(d, "closing", q)' =>
            At(d, "closing", q) \/ (d = c /\ q = r)
      BY <1>2, <2>2, <2>3 DEF At
    <3>2. \A d \in Callers, q \in Runs : At(d, "closing", q) => q # r
      BY <1>7
    <3>3. ~At(c, "closing", r)
      BY <1>7
    <3>4. \A d \in Callers, q \in Runs : At(d, "closing", q)' =>
            driver'[q] = "unstarted" \/ status'[q] \in TerminalStatus
      BY <1>1, <1>2, <1>7, <3>1, QuietFacts
    <3>5. \A d, b \in Callers, q \in Runs :
            At(d, "closing", q)' /\ At(b, "closing", q)' => d = b
      BY <3>1, <3>2 DEF Inv, ClosersLegal
    <3> QED BY <3>4, <3>5 DEF ClosersLegal, Settled
  <2>7. DownLegal' /\ WorkspaceLegal'
    BY <1>1, <1>2, <1>7 DEF DownLegal, Inv, WorkspaceLegal
  <2> QED BY <2>1, <2>4, <2>5, <2>6, <2>7 DEF Inv
<1>8. CASE /\ Do(r, settle) /\ active' = active \ {r}
           /\ caller' = [caller EXCEPT ![c] = Idle]
           /\ driver[r] \notin Holding
           /\ \/ driver'[r] = "none" /\ driver[r] \in Over
              \/ driver'[r] = driver[r] /\ driver[r] # "unstarted"
           /\ \E pc : driver' = [driver EXCEPT ![r] = pc]
           /\ \/ status[r] = "queued" /\ driver'[r] = "none"
              \/ At(c, "closing", r)
  <2>1. /\ SectionLegal' /\ ThreadLegal' /\ OneActivePerThread'
        /\ \A q \in Runs : q # r => Spared(q)'
    BY <1>1, <1>4, <1>8, CallsSection
  <2>2. /\ driver'[r] \notin Holding
        /\ \A q \in Runs : q # r => driver'[q] = driver[q] /\ (q \in active' <=> q \in active)
    BY <1>2, <1>8 DEF Holding
  <2>3. Recorded'
    BY <1>1, <1>2, <1>3, <1>8, <2>2, QuietFacts DEF Recorded
  <2>4. HoldersLegal'
    BY <1>1, <1>2, <2>1, <2>2, QuietFacts DEF HoldersLegal
  <2>5. At(c, "closing", r) /\ driver[r] # "unstarted" => status[r] \in TerminalStatus
    BY <1>1, QuietFacts
  <2>6. Registered'
    <3>1. driver'[r] \in {"new", "lock"} => status[r] \in TerminalStatus
      BY <1>8, <2>5
    <3> QED BY <1>1, <1>2, <2>2, <3>1, QuietFacts DEF Registered, Settled
  <2>7. ClosersLegal'
    <3> SUFFICES ASSUME NEW b \in Callers, NEW q \in Runs, At(b, "closing", q)'
                 PROVE  /\ driver'[q] = "unstarted" \/ Settled(q)'
                        /\ \A d \in Callers : At(d, "closing", q)' => b = d
      BY DEF ClosersLegal
    <3>1. \A d \in Callers : At(d, "closing", q)' => At(d, "closing", q) /\ d # c
      BY <1>2, <1>3, <1>8 DEF At
    <3>2. \A d \in Callers : At(d, "closing", q) => b = d
      BY <3>1 DEF Inv, ClosersLegal
    <3>3. driver[q] = "unstarted" \/ status[q] \in TerminalStatus
      BY <1>1, <3>1, QuietFacts
    <3>4. q = r => \/ status[r] = "queued" /\ Pending(r, Move("queued", "cancelled"))'
                   \/ status[r] \in TerminalStatus
      BY <1>1, <1>8, <3>1, <3>2 DEF Pending, Do
    <3> QED BY <1>2, <2>2, <3>1, <3>2, <3>3, <3>4 DEF Settled
  <2>8. DownLegal'
    BY <1>1, <1>2 DEF DownLegal
  <2>9. WorkspaceLegal'
    <3>1. driver'[r] = driver[r] \/ driver[r] \notin Holding \cup {"lock"}
      BY <1>8 DEF Over, Holding
    <3>2. \A i \in 1..Len(workspace) : workspace[i] \in Runs
      BY DEF TypeOK
    <3> QED BY <1>1, <2>2, <3>1, <3>2 DEF Inv, WorkspaceLegal
  <2> QED BY <2>1, <2>3, <2>4, <2>6, <2>7, <2>8, <2>9 DEF Inv
<1>9. CASE Awaited(c, r)
  <2>1. driver[r] \in Over /\ driver[r] \notin Holding
    BY <1>9 DEF Awaited, Over, Holding
  <2>2. Goto(r, "none") => driver'[r] = "none" /\ \E pc : driver' = [driver EXCEPT ![r] = pc]
    BY <1>2 DEF Goto
  <2> QED BY <1>6, <1>7, <1>8, <1>9, <2>1, <2>2 DEF Awaited
<1>10. CASE UnstartedClosed(c, r)
  <2> DEFINE pc == IF driver[r] = "unstarted" THEN "none" ELSE driver[r]
  <2>1. At(c, "closing", r) /\ driver' = [driver EXCEPT ![r] = pc]
    BY <1>10 DEF UnstartedClosed
  <2>2. driver'[r] = pc
    BY <1>2, <2>1
  <2>3. driver[r] \notin Holding
    BY <1>1, <2>1, QuietFacts DEF Holding
  <2>4. \/ driver'[r] = "none" /\ driver[r] \in Over
        \/ driver'[r] = driver[r] /\ driver[r] # "unstarted"
    BY <2>2 DEF Over
  <2> QED BY <1>8, <1>10, <2>1, <2>3, <2>4 DEF UnstartedClosed
<1> QED BY <1>9, <1>10

LEMMA ProcessInv ==
  ASSUME TypeOK, Inv, Stopped \/ Crash \/ Serve  PROVE Inv'
<1>1. CASE Stopped \/ Crash
  <2>1. /\ active' = {} /\ driver' = [r \in Runs |-> "none"] /\ workspace' = <<>>
        /\ caller' = [c \in Callers |-> Idle] /\ targets' = {}
        /\ status' = status /\ section'.calls = <<>>
    BY <1>1 DEF Stopped, Crash, Fresh, durable, Quiescent
  <2>2. Idle.run \notin Runs /\ Idle.pc = "idle"
    BY ConstantsAssumption DEF Idle
  <2>3. /\ \A r \in Runs : driver'[r] = "none" /\ ~Beginning(r)'
        /\ \A c \in Callers : caller'[c].run \notin Runs /\ caller'[c].pc = "idle"
        /\ \A r \in Runs : \A call : ~Pending(r, call)'
    BY <2>1, <2>2 DEF Pending, Beginning, Opening
  <2>4. SectionLegal' /\ ThreadLegal'
    BY <2>1, <2>3 DEF SectionLegal, LegalCalls, ThreadLegal
  <2>5. Recorded' /\ HoldersLegal' /\ Registered' /\ ClosersLegal' /\ DownLegal'
    BY <2>1, <2>3 DEF Recorded, HoldersLegal, Registered, ClosersLegal, DownLegal, At, Holding
  <2>6. WorkspaceLegal' /\ OneActivePerThread'
    BY <2>1, <2>3 DEF WorkspaceLegal, Inv, OneActivePerThread, Holding
  <2> QED BY <2>4, <2>5, <2>6 DEF Inv
<1>2. CASE Serve
  <2>1. /\ server' = "up" /\ Quiescent
        /\ UNCHANGED <<durable, section, active, driver, workspace, caller, targets>>
    BY <1>2 DEF Serve, tasks, callers
  <2>2. UNCHANGED status
    BY <2>1 DEF durable
  <2>3. /\ SectionLegal' /\ ThreadLegal' /\ OneActivePerThread'
        /\ \A q \in Runs : Spared(q)'
    BY <2>1, QuietSection
  <2>4. Recorded' /\ HoldersLegal' /\ Registered' /\ ClosersLegal' /\ DownLegal'
    BY <2>1, <2>2, <2>3, QuietFacts
       DEF Inv, Recorded, HoldersLegal, Registered, ClosersLegal, DownLegal, At, Settled
  <2>5. WorkspaceLegal'
    BY <2>1 DEF WorkspaceLegal, Inv
  <2> QED BY <2>3, <2>4, <2>5 DEF Inv
<1> QED BY <1>1, <1>2

LEMMA RecoverInv ==
  ASSUME TypeOK, Inv, NEW r \in Runs, Recover(r)  PROVE Inv'
<1>1. /\ Quiescent /\ server = "down" /\ status[r] \in ActiveStatus
      /\ Do(r, <<Move(status[r], "failed")>>)
      /\ UNCHANGED <<durable, server, active, driver, workspace, caller, targets>>
  BY DEF Recover, Settling, volatile, tasks, callers
<1>2. status' = status /\ status[r] # "none"
  BY <1>1 DEF durable
<1>3. /\ \A q \in Runs : driver[q] = "none"
      /\ \A c \in Callers : caller[c].pc = "idle"
  BY <1>1 DEF Inv, DownLegal
<1>4. LegalCalls(r, <<Move(status[r], "failed")>>)
  BY <1>1, LegalMove
<1>5. SectionLegal' /\ ThreadLegal' /\ OneActivePerThread'
  BY <1>1, <1>2, <1>4, CallsSection, NotCreating
<1>6. Recorded'
  BY <1>1, <1>2, QuietFacts DEF Recorded
<1>7. HoldersLegal' /\ Registered' /\ ClosersLegal' /\ DownLegal'
  BY <1>1, <1>2, <1>3 DEF HoldersLegal, Registered, ClosersLegal, DownLegal, At, Holding
<1>8. WorkspaceLegal'
  BY <1>1 DEF WorkspaceLegal, Inv
<1> QED BY <1>5, <1>6, <1>7, <1>8 DEF Inv

LEMMA InvStep == TypeOK /\ Inv /\ [Next]_vars => Inv'
<1> SUFFICES ASSUME TypeOK, Inv, [Next]_vars  PROVE Inv'
  OBVIOUS
<1>1. CASE UNCHANGED vars
  BY <1>1 DEF vars, durable, volatile, tasks, callers, Inv, SectionLegal, LegalCalls,
     Recorded, HoldersLegal, Registered, ClosersLegal, DownLegal, WorkspaceLegal, ThreadLegal,
     OneActivePerThread, Spared, Settled, Beginning, Pending, At
<1>2. CASE Next
  BY <1>2, CommitInv, DriveInv, StopInv, StartInv, StartLockedInv, CreatedInv, CreateFailsInv,
     CancelInv, AwaitInv, ProcessInv, RecoverInv
     DEF Next, Await, Restart, Continue, Request
<1> QED BY <1>1, <1>2

LEMMA InvInit == Init => Inv
<1> SUFFICES ASSUME Init  PROVE Inv
  OBVIOUS
<1>1. /\ Idle.run \notin Runs /\ Idle.pc = "idle"
      /\ section.calls = <<>> /\ workspace = <<>>
      /\ \A r \in Runs : status[r] = "none" /\ driver[r] = "none"
      /\ \A c \in Callers : caller[c] = Idle
  BY ConstantsAssumption DEF Init, Idle
<1>2. \A r \in Runs : \A call : ~Pending(r, call)
  BY <1>1 DEF Pending
<1> QED BY <1>1, <1>2
        DEF Init, Inv, SectionLegal, LegalCalls, Recorded, HoldersLegal, Registered, ClosersLegal,
            DownLegal, WorkspaceLegal, ThreadLegal, OneActivePerThread, At, Holding
-----------------------------------------------------------------------------
(***************************************************************************)
(* The inductive invariant holds, and with it: a conversation never has two *)
(* active turns, and the agent is only ever invoked, one run at a time, for *)
(* a run whose record says so.                                              *)
(***************************************************************************)
THEOREM Invariance == Spec => []Inv
<1>1. Init => Inv
  BY InvInit
<1>2. TypeOK /\ Inv /\ [Next]_vars => Inv'
  BY InvStep
<1> QED BY <1>1, <1>2, TypeCorrect, PTL DEF Spec

(* At most one active turn per conversation, for any runs and clients. *)
THEOREM ThreadsExclusive == Spec => []OneActivePerThread
<1>1. Inv => OneActivePerThread
  BY DEF Inv
<1> QED BY <1>1, Invariance, PTL

(* Only the running run at the head of the workspace lock is invoked. *)
THEOREM InvocationsExclusive == Spec => []InvokesOnlyRunning
<1>1. TypeOK /\ Inv => InvokesOnlyRunning
  BY DEF TypeOK, Inv, InvokesOnlyRunning, HoldersLegal, WorkspaceLegal
<1> QED BY <1>1, TypeCorrect, Invariance, PTL
-----------------------------------------------------------------------------
(***************************************************************************)
(* What nobody forgets, one lemma per kind of step.                         *)
(***************************************************************************)

(* Between two sections a run is not being created and does not begin. *)
LEMMA QuietCare ==
  ASSUME Quiescent
  PROVE  section.calls = <<>> /\ Opening # <<>> /\ <<Move("none", "queued")>> # <<>>
BY DEF Quiescent, Opening

(* The calls a section starts with create and begin what they should. *)
LEMMA SectionCare ==
  ASSUME TypeOK, Quiescent, NEW r \in Runs,
         \/ UNCHANGED section
         \/ \E cs : /\ Do(r, cs)
                    /\ cs = <<Move("none", "queued")>> => \E c \in Callers : caller'[c].run = r
                    /\ cs = Opening => driver'[r] = "events"
  PROVE  BirthsAwaited' /\ BeginsInside'
<1>1. CASE UNCHANGED section
  BY <1>1, QuietCare DEF BirthsAwaited, BeginsInside, Pending
<1>2. ASSUME NEW cs, Do(r, cs),
             cs = <<Move("none", "queued")>> => \E c \in Callers : caller'[c].run = r,
             cs = Opening => driver'[r] = "events"
      PROVE  BirthsAwaited' /\ BeginsInside'
  <2>1. section'.calls = cs /\ (cs # <<>> => section'.run = r)
    BY <1>2 DEF Do
  <2>2. Opening # <<>> /\ <<Move("none", "queued")>> # <<>>
    BY DEF Opening
  <2>3. BirthsAwaited'
    <3> SUFFICES ASSUME NEW q \in Runs, Pending(q, Move("none", "queued"))'
                 PROVE  \E c \in Callers : caller'[c].run = q
      BY DEF BirthsAwaited
    <3>1. section'.run = q /\ section'.calls = <<Move("none", "queued")>>
      BY DEF Pending, Move
    <3> QED BY <1>2, <2>1, <2>2, <3>1
  <2>4. BeginsInside'
    <3> SUFFICES ASSUME NEW q \in Runs, section'.run = q, section'.calls = Opening
                 PROVE  driver'[q] = "events"
      BY DEF BeginsInside, Opening, Move, Note
    <3> QED BY <1>2, <2>1, <2>2
  <2> QED BY <2>3, <2>4
<1> QED BY <1>1, <1>2

(* A step of a driver. *)
LEMMA DriverCare ==
  ASSUME TypeOK, Cared, Quiescent, UNCHANGED <<durable, server, caller, targets>>,
         NEW r \in Runs, NEW pc, Goto(r, pc),
         active' = active \/ active' = active \ {r}, cancelling' \subseteq cancelling,
         pc \in Over => r \notin cancelling' /\ (r \in active' => r \in cancelling),
         \/ UNCHANGED section
         \/ \E cs : Do(r, cs) /\ cs # <<Move("none", "queued")>> /\ (cs = Opening => pc = "events")
  PROVE  Cared'
<1>1. /\ status' = status /\ driver' = [driver EXCEPT ![r] = pc] /\ driver \in [Runs -> Driver]
      /\ UNCHANGED <<caller, targets>> /\ active \subseteq Runs /\ cancelling \subseteq Runs
  BY DEF TypeOK, Goto, durable
<1>2. driver'[r] = pc /\ \A q \in Runs : q # r => driver'[q] = driver[q]
  BY <1>1
<1>3. \A q, pcs : Awaiter(q, pcs)' <=> Awaiter(q, pcs)
  BY <1>1 DEF Awaiter
<1>4. CancelledAwaited'
  BY <1>1, <1>2, <1>3 DEF Cared, CancelledAwaited
<1>5. ActiveAttended'
  <2> SUFFICES ASSUME NEW q \in active', status[q] = "queued", driver'[q] \in Over
               PROVE  Awaiter(q, {"cancelling", "closing"})
    BY <1>1, <1>3 DEF ActiveAttended
  <2>1. q \in Runs /\ q \in active
    BY <1>1
  <2>2. CASE q = r
    <3>1. Awaiter(r, {"cancelling"})
      BY <1>2, <2>2 DEF Cared, CancelledAwaited
    <3> QED BY <2>2, <3>1 DEF Awaiter
  <2>3. CASE q # r
    BY <1>2, <2>1, <2>3 DEF Cared, ActiveAttended
  <2> QED BY <2>2, <2>3
<1>6. SeenKept'
  BY <1>1 DEF Cared, SeenKept, At
<1>7. BirthsAwaited' /\ BeginsInside'
  BY <1>2, SectionCare
<1>8. TargetsStopping'
  BY <1>1 DEF Cared, TargetsStopping
<1> QED BY <1>4, <1>5, <1>6, <1>7, <1>8 DEF Cared

(* A step of a caller. *)
LEMMA CallerCare ==
  ASSUME TypeOK, Cared, Quiescent, UNCHANGED <<durable, server, targets>>,
         NEW c \in Callers, NEW x, caller' = [caller EXCEPT ![c] = x],
         cancelling' \subseteq Runs,
         \A q \in cancelling' : q \in cancelling
                                \/ (driver[q] \notin Over /\ x.pc = "cancelling" /\ x.run = q),
         \A q \in Runs : driver'[q] \in Over => driver[q] \in Over,
         active' \subseteq Runs,
         \A q \in active' : q \in active \/ driver'[q] \notin Over,
         \A q \in Runs : At(c, "cancelling", q) => driver[q] \in Over,
         \A q \in Runs : At(c, "cancelling", q) \/ At(c, "closing", q) =>
             q \notin active' \/ status[q] # "queued" \/ (x.pc = "closing" /\ x.run = q),
         x.pc = "starting" /\ x.run \in Runs /\ status[x.run] \in {"none", "queued"}
             => x.seen = "queued",
         \/ UNCHANGED section
         \/ \E r \in Runs : \E cs : /\ Do(r, cs) /\ cs # Opening
                                    /\ cs = <<Move("none", "queued")>> => x.run = r
  PROVE  Cared'
<1>1. /\ status' = status /\ caller \in [Callers -> Caller] /\ UNCHANGED <<server, targets>>
      /\ active \subseteq Runs /\ cancelling \subseteq Runs
  BY DEF TypeOK, durable
<1>2. caller'[c] = x /\ \A d \in Callers : d # c => caller'[d] = caller[d]
  BY <1>1
<1>3. CancelledAwaited'
  <2> SUFFICES ASSUME NEW q \in cancelling'
               PROVE  driver'[q] \notin Over /\ Awaiter(q, {"cancelling"})'
    BY DEF CancelledAwaited
  <2>0. CASE driver[q] \notin Over /\ x.pc = "cancelling" /\ x.run = q
    BY <1>2, <2>0 DEF Awaiter
  <2>9. CASE q \in cancelling
    <3>1. q \in Runs /\ driver[q] \notin Over /\ Awaiter(q, {"cancelling"})
      BY <1>1, <2>9 DEF Cared, CancelledAwaited
    <3>2. ASSUME NEW d \in Callers, caller[d].pc \in {"cancelling"}, caller[d].run = q
          PROVE  caller'[d] = caller[d]
      BY <1>2, <3>1, <3>2 DEF At
    <3> QED BY <1>1, <3>1, <3>2 DEF Awaiter
  <2> QED BY <2>0, <2>9
<1>4. ActiveAttended'
  <2> SUFFICES ASSUME NEW q \in active', status[q] = "queued", driver'[q] \in Over
               PROVE  Awaiter(q, {"cancelling", "closing"})'
    BY <1>1 DEF ActiveAttended
  <2>1. q \in Runs /\ q \in active /\ driver[q] \in Over
    OBVIOUS
  <2>2. Awaiter(q, {"cancelling", "closing"})
    BY <2>1 DEF Cared, ActiveAttended
  <2>3. ASSUME NEW d \in Callers, caller[d].pc \in {"cancelling", "closing"}, caller[d].run = q
        PROVE  caller'[d].pc \in {"cancelling", "closing"} /\ caller'[d].run = q
    <3>1. CASE d = c
      <4>1. x.pc = "closing" /\ x.run = q
        BY <2>1, <2>3, <3>1 DEF At
      <4> QED BY <1>2, <3>1, <4>1
    <3>2. CASE d # c
      BY <1>2, <2>3, <3>2
    <3> QED BY <3>1, <3>2
  <2> QED BY <1>1, <2>2, <2>3 DEF Awaiter
<1>5. SeenKept'
  <2> SUFFICES ASSUME NEW d \in Callers, NEW q \in Runs, At(d, "starting", q)',
                      status[q] \in {"none", "queued"}
               PROVE  caller'[d].seen = "queued"
    BY <1>1 DEF SeenKept
  <2> QED BY <1>2 DEF Cared, SeenKept, At
<1>6. BirthsAwaited' /\ BeginsInside'
  <2>1. CASE UNCHANGED section
    <3>1. BirthsAwaited /\ BeginsInside /\ section.calls = <<>>
      BY QuietCare DEF Cared
    <3> QED BY <2>1, <3>1, QuietCare DEF BirthsAwaited, BeginsInside, Pending
  <2>2. CASE section' # section
    <3>1. PICK r \in Runs : \E cs : /\ Do(r, cs) /\ cs # Opening
                                    /\ cs = <<Move("none", "queued")>> => x.run = r
      BY <2>2
    <3>2. PICK cs : /\ Do(r, cs) /\ cs # Opening
                    /\ cs = <<Move("none", "queued")>> => x.run = r
      BY <3>1
    <3> QED BY <1>2, <3>2, SectionCare
  <2> QED BY <2>1, <2>2
<1>7. TargetsStopping'
  BY <1>1 DEF Cared, TargetsStopping
<1> QED BY <1>3, <1>4, <1>5, <1>6, <1>7 DEF Cared
-----------------------------------------------------------------------------
(***************************************************************************)
(* That a step leaves no run without anyone to settle it, the exceptions    *)
(* named in AbandonedOnlyInHandler apart.                                   *)
(***************************************************************************)
Attending(r) == status[r] \in ActiveStatus => Attended(r)

Excepted(r) == /\ r \in cancelling
               /\ \/ driver[r] \in {"failClose", "cancelClose"}
                  \/ driver[r] = "new" /\ status[r] = "running"

StaysAttended == \A q \in Runs : Attending(q) => Attending(q)' \/ Excepted(q)

(* The calls settle the run from the status it has. *)
Settles(r, cs) == \E i \in DOMAIN cs : cs[i].kind = "move" /\ cs[i].from = status[r]

LEMMA QuietAttended ==
  ASSUME Quiescent, NEW q \in Runs
  PROVE  Attended(q) <=> \/ driver[q] \notin Over
                         \/ /\ status[q] = "queued"
                            /\ q \in targets \/ \E c \in Callers : caller[c].run = q
<1>1. DOMAIN section.calls = {}
  BY DEF Quiescent
<1> QED BY <1>1 DEF Attended

LEMMA SettlesAttended ==
  ASSUME NEW r \in Runs, NEW cs, Do(r, cs), status' = status, Settles(r, cs)
  PROVE  Attended(r)'
<1>1. cs # <<>>
  BY DEF Settles
<1>2. section'.calls = cs /\ section'.run = r
  BY <1>1 DEF Do
<1> QED BY <1>2 DEF Attended, Settles

(* The sections that end a run. *)
LEMMA SettlingSpelled ==
  ASSUME NEW r \in Runs, NEW cs, NEW to, status[r] \in ActiveStatus,
         \/ cs = <<Move(status[r], to)>>
         \/ cs = <<Note("warning"), Move(status[r], to)>>
         \/ cs = <<Note("cancelled"), Move(status[r], to)>>
         \/ cs = <<Note("warning"), Note("cancelled"), Move(status[r], to)>>
  PROVE  cs # Opening /\ Settles(r, cs)
<1> DEFINE m == Move(status[r], to)  n(k) == Note(k)
<1>1. m.kind = "move" /\ m.from = status[r]
  BY DEF Move
<1>2. \A k : n(k).kind = "note"
  BY DEF Note
<1>3. Len(Opening) = 2 /\ Opening[1].kind = "move"
  BY DEF Opening, Move
<1> HIDE DEF m, n
<1>4. CASE cs = <<m>>
  BY <1>1, <1>3, <1>4 DEF Settles
<1>5. ASSUME NEW k, cs = <<n(k), m>> PROVE cs # Opening /\ Settles(r, cs)
  BY <1>1, <1>2, <1>3, <1>5 DEF Settles
<1>6. ASSUME NEW k, NEW l, cs = <<n(k), n(l), m>> PROVE cs # Opening /\ Settles(r, cs)
  BY <1>1, <1>3, <1>6 DEF Settles
<1> QED BY <1>4, <1>5, <1>6 DEF m, n

LEMMA SettlingSections ==
  ASSUME NEW r \in Runs, NEW w \in BOOLEAN, NEW cs,
         \/ cs = Settling(r, "failed")
         \/ cs = Warning(w) \o Settling(r, "failed")
         \/ cs = Cancelled(r)
         \/ cs = Warning(w) \o Cancelled(r)
         \/ /\ status[r] = "running"
            /\ \E to : cs = Warning(w) \o <<Move("running", to)>>
  PROVE  cs # Opening /\ (status[r] \in ActiveStatus => Settles(r, cs))
<1>1. CASE status[r] \in ActiveStatus
  <2>1. PICK to : \/ cs = <<Move(status[r], to)>> \/ cs = Warning(w) \o <<Move(status[r], to)>>
                  \/ cs = <<Note("cancelled")>> \o <<Move(status[r], to)>>
                  \/ cs = Warning(w) \o (<<Note("cancelled")>> \o <<Move(status[r], to)>>)
    BY <1>1 DEF Settling, Cancelled
  <2> DEFINE m == Move(status[r], to)  n(k) == Note(k)
  <2>2. Warning(w) = <<>> \/ Warning(w) = <<n("warning")>>
    BY DEF Warning
  <2> HIDE DEF m, n
  <2>3. \/ cs = <<m>> \/ cs = <<n("warning"), m>> \/ cs = <<n("cancelled"), m>>
        \/ cs = <<n("warning"), n("cancelled"), m>>
    <3>1. cs = <<m>> \/ cs = Warning(w) \o <<m>> \/ cs = <<n("cancelled")>> \o <<m>>
          \/ cs = Warning(w) \o (<<n("cancelled")>> \o <<m>>)
      BY <2>1 DEF m, n
    <3>2. cs = <<m>> \/ cs = Warning(w) \o <<m>> \/ cs = <<n("cancelled"), m>>
          \/ cs = Warning(w) \o <<n("cancelled"), m>>
      BY <3>1, Joins
    <3>3. /\ <<>> \o <<m>> = <<m>> /\ <<>> \o <<n("cancelled"), m>> = <<n("cancelled"), m>>
          /\ <<n("warning")>> \o <<m>> = <<n("warning"), m>>
          /\ <<n("warning")>> \o <<n("cancelled"), m>> = <<n("warning"), n("cancelled"), m>>
      BY ZenonT(40), Joins
    <3> QED BY <2>2, <3>2, <3>3
  <2> QED BY <1>1, <2>3, SettlingSpelled DEF m, n
<1>2. CASE status[r] \notin ActiveStatus
  <2>1. Settling(r, "failed") = <<>> /\ Cancelled(r) = <<>>
    BY <1>2 DEF Settling, Cancelled
  <2>2. cs = <<>> \/ cs = Warning(w) \o <<>>
    BY <1>2, <2>1
  <2>3. cs = <<>> \/ cs = <<Note("warning")>>
    <3>1. Warning(w) = <<>> \/ Warning(w) = <<Note("warning")>>
      BY DEF Warning
    <3> QED BY <2>2, <3>1, Joins
  <2>4. Len(Opening) = 2
    BY DEF Opening
  <2>5. Len(<<>>) = 0 /\ Len(<<Note("warning")>>) = 1
    OBVIOUS
  <2> QED BY <1>2, <2>3, <2>4, <2>5
<1> QED BY <1>1, <1>2

(* A step of a driver. *)
LEMMA DriverAttends ==
  ASSUME TypeOK, Cared, Quiescent, UNCHANGED <<durable, server, caller, targets>>,
         NEW r \in Runs, driver[r] \notin Over, NEW pc, Goto(r, pc),
         active' = active \/ active' = active \ {r}, cancelling' \subseteq cancelling,
         pc \in Over => r \notin cancelling' /\ (r \in active' => r \in cancelling),
         NEW cs, UNCHANGED section \/ Do(r, cs),
         cs # <<Move("none", "queued")>>, cs = Opening => pc = "events",
         \/ pc \notin Over \/ Excepted(r) \/ status[r] \notin ActiveStatus
         \/ Do(r, cs) /\ Settles(r, cs)
         \/ status[r] = "queued" /\ r \in cancelling
  PROVE  Cared' /\ StaysAttended
<1>1. Cared'
  BY DriverCare
<1>2. /\ status' = status /\ driver' = [driver EXCEPT ![r] = pc] /\ driver \in [Runs -> Driver]
      /\ UNCHANGED <<caller, targets>>
  BY DEF TypeOK, Goto, durable
<1>3. driver'[r] = pc /\ \A q \in Runs : q # r => driver'[q] = driver[q]
  BY <1>2
<1>4. ASSUME NEW q \in Runs, q # r, Attended(q) PROVE Attended(q)'
  BY <1>2, <1>3, <1>4, QuietAttended DEF Attended
<1>5. Attending(r)' \/ Excepted(r)
  <2>1. CASE pc \notin Over
    BY <1>3, <2>1 DEF Attending, Attended
  <2>2. CASE Excepted(r)
    BY <2>2
  <2>3. CASE status[r] \notin ActiveStatus
    BY <1>2, <2>3 DEF Attending
  <2>4. CASE Do(r, cs) /\ Settles(r, cs)
    BY <1>2, <2>4, SettlesAttended DEF Attending
  <2>5. CASE status[r] = "queued" /\ r \in cancelling
    <3>1. Awaiter(r, {"cancelling"})
      BY <2>5 DEF Cared, CancelledAwaited
    <3> QED BY <1>2, <2>5, <3>1 DEF Attending, Attended, Awaiter
  <2> QED BY <2>1, <2>2, <2>3, <2>4, <2>5
<1> QED BY <1>1, <1>2, <1>4, <1>5 DEF StaysAttended, Attending

LEMMA YieldAttends ==
  ASSUME TypeOK, Inv, Cared, NEW r \in Runs, Yield(r)  PROVE Cared' /\ StaysAttended
<1>1. PICK cs \in {<<>>, <<Note("output")>>} : UNCHANGED section \/ Do(r, cs)
  BY DEF Yield, Activity, Output, Fault
<1>2. cs # <<Move("none", "queued")>> /\ cs # Opening
  <2>1. Len(Opening) = 2 /\ Len(<<>>) = 0 /\ Len(<<Note("output")>>) = 1
    BY DEF Opening
  <2> QED BY <2>1 DEF Move, Note
<1>3. /\ Quiescent /\ driver[r] = "events" /\ r \notin cancelling
      /\ UNCHANGED <<durable, server, active, driver, cancelling, caller, targets>>
  BY DEF Yield, Activity, Output, Fault, Steps, callers
<1>4. Goto(r, "events") /\ driver[r] \notin Over /\ "events" \notin Over
  BY <1>3 DEF Goto, TypeOK, Over
<1> QED BY <1>1, <1>2, <1>3, <1>4, DriverAttends

LEMMA EnterAttends ==
  ASSUME TypeOK, Inv, Cared, NEW r \in Runs, Enter(r) \/ Acquire(r)
  PROVE  Cared' /\ StaysAttended
<1>1. /\ Quiescent /\ driver[r] \in {"new", "lock"} /\ driver[r] \notin Over
      /\ UNCHANGED <<durable, server, active, cancelling, caller, targets>>
  BY DEF Enter, Acquire, Steps, callers, Over
<1>2. \/ Do(r, Opening) /\ Goto(r, "events")
      \/ UNCHANGED section /\ (Goto(r, "failClose") \/ Goto(r, "lock"))
  BY DEF Enter, Acquire, Granted
<1>3. Opening # <<Move("none", "queued")>> /\ <<>> # Opening /\ <<>> # <<Move("none", "queued")>>
  BY DEF Opening
<1>4. "events" \notin Over /\ "failClose" \notin Over /\ "lock" \notin Over
  BY DEF Over
<1> QED BY <1>1, <1>2, <1>3, <1>4, DriverAttends

(* Steps inside the workspace that record at most a notice. *)
LEMMA NoticeAttends ==
  ASSUME TypeOK, Cared, Quiescent, NEW r \in Runs, driver[r] \in Holding,
         NEW pc, pc \notin Over, Goto(r, pc),
         UNCHANGED <<durable, server, active, cancelling, caller, targets>>,
         \/ UNCHANGED section
         \/ Do(r, <<Note("retry")>>)
         \/ \E w \in BOOLEAN : Do(r, Warning(w))
  PROVE  Cared' /\ StaysAttended
<1>1. PICK cs \in {<<>>, <<Note("retry")>>, <<Note("warning")>>} : UNCHANGED section \/ Do(r, cs)
  BY DEF Warning
<1>2. cs # <<Move("none", "queued")>> /\ cs # Opening
  <2>1. /\ Len(Opening) = 2 /\ Len(<<>>) = 0 /\ Len(<<Note("retry")>>) = 1
        /\ Len(<<Note("warning")>>) = 1
    BY DEF Opening
  <2> QED BY <2>1 DEF Move, Note
<1>3. driver[r] \notin Over
  BY DEF Holding, Over
<1> QED BY <1>1, <1>2, <1>3, DriverAttends

(* Steps that end a driver, settling its run. *)
LEMMA EndAttends ==
  ASSUME TypeOK, Cared, Quiescent, NEW r \in Runs, driver[r] \notin Over,
         Goto(r, "none"), active' = active \ {r},
         cancelling' \subseteq cancelling, r \notin cancelling',
         UNCHANGED <<durable, server, caller, targets>>,
         NEW cs, Do(r, cs), cs # <<Move("none", "queued")>>, cs # Opening,
         status[r] \in ActiveStatus => Settles(r, cs)
  PROVE  Cared' /\ StaysAttended
<1>1. r \notin active'
  OBVIOUS
<1> QED BY <1>1, DriverAttends

LEMMA ClosedAttends ==
  ASSUME TypeOK, Inv, Cared, NEW r \in Runs, NEW w \in BOOLEAN,
         Closed(r, w) \/ FailClosed(r, w) \/ CancelClosed(r, w) \/ RetryCreateFails(r)
  PROVE  Cared' /\ StaysAttended
<1>1. /\ Quiescent /\ driver[r] \in {"close", "failClose", "cancelClose", "retryCreate"}
      /\ r \notin cancelling
  BY DEF Closed, FailClosed, CancelClosed, RetryCreateFails, Steps
<1>2. driver[r] \notin Over /\ status[r] # "none"
  BY <1>1, QuietFacts DEF Over
<1>3. /\ Goto(r, "none") /\ active' = active \ {r}
      /\ UNCHANGED <<durable, server, cancelling, caller, targets>>
  BY DEF Closed, FailClosed, CancelClosed, RetryCreateFails, End, callers
<1>4. \E cs : /\ Do(r, cs) /\ cs # Opening /\ cs # <<Move("none", "queued")>>
              /\ status[r] \in ActiveStatus => Settles(r, cs)
  <2>1. CASE Closed(r, w)
    <3> DEFINE to == IF stream[r] = "errored" THEN "failed" ELSE "completed"
    <3>1. Do(r, Warning(w) \o <<Move("running", to)>>) /\ to \in {"completed", "failed"}
      BY <2>1 DEF Closed
    <3> HIDE DEF to
    <3>2. status[r] = "running"
      BY <1>1, <2>1, QuietFacts DEF Closed, Steps, Holding
    <3>3. LegalCalls(r, Warning(w) \o <<Move("running", to)>>)
      BY <1>2, <3>1, LegalWarned
    <3> QED BY <1>2, <3>1, <3>2, <3>3, NotCreating, SettlingSections
  <2>2. CASE FailClosed(r, w)
    BY <1>2, <2>2, LegalSettling, NotCreating, SettlingSections DEF FailClosed
  <2>3. CASE CancelClosed(r, w)
    BY <1>2, <2>3, LegalCancelled, NotCreating, SettlingSections DEF CancelClosed
  <2>4. CASE RetryCreateFails(r)
    BY <1>2, <2>4, LegalSettling, NotCreating, SettlingSections DEF RetryCreateFails
  <2> QED BY <2>1, <2>2, <2>3, <2>4
<1> QED BY <1>1, <1>2, <1>3, <1>4, EndAttends

LEMMA InterruptAttends ==
  ASSUME TypeOK, Inv, Cared, NEW r \in Runs, Interrupt(r)
  PROVE  Cared' /\ StaysAttended
<1>1. /\ Quiescent /\ r \in cancelling /\ cancelling' = cancelling \ {r}
      /\ UNCHANGED <<durable, server, caller, targets>>
  BY DEF Interrupt, callers
<1>2. driver[r] \notin Over /\ status[r] # "none"
  BY <1>1, QuietFacts DEF Cared, CancelledAwaited, Over
<1>3. cancelling' \subseteq cancelling /\ r \notin cancelling'
  BY <1>1
<1>4. <<>> # Opening /\ <<>> # <<Move("none", "queued")>>
  BY DEF Opening
<1>5. CASE driver[r] = "new" /\ Goto(r, "unstarted") /\ UNCHANGED <<section, active>>
  <2>1. status[r] \notin ActiveStatus \/ status[r] = "queued" \/ Excepted(r)
    BY <1>1, <1>5 DEF Excepted
  <2> QED BY <1>1, <1>2, <1>3, <1>4, <1>5, <2>1, DriverAttends
<1>6. CASE Goto(r, "cancelClose") /\ UNCHANGED <<section, active>>
  <2>1. "cancelClose" \notin Over
    BY DEF Over
  <2> QED BY <1>1, <1>2, <1>3, <1>4, <1>6, <2>1, DriverAttends
<1>7. CASE Do(r, Cancelled(r)) /\ Goto(r, "none") /\ active' = active \ {r}
  <2>1. LegalCalls(r, Cancelled(r))
    BY <1>2, LegalCancelled
  <2>2. Cancelled(r) # <<Move("none", "queued")>>
    BY <1>2, <2>1, NotCreating
  <2>3. Cancelled(r) # Opening /\ (status[r] \in ActiveStatus => Settles(r, Cancelled(r)))
    BY SettlingSections
  <2> QED BY <1>1, <1>2, <1>3, <1>7, <2>2, <2>3, EndAttends
<1>8. CASE /\ driver[r] \in {"failClose", "cancelClose"} /\ Goto(r, "none")
           /\ active' = active \ {r} /\ UNCHANGED section
  <2>1. Excepted(r) /\ r \notin active'
    BY <1>1, <1>8 DEF Excepted
  <2> QED BY <1>1, <1>2, <1>3, <1>4, <1>8, <2>1, DriverAttends
<1> QED BY <1>5, <1>6, <1>7, <1>8 DEF Interrupt, End

LEMMA DriveAttends ==
  ASSUME TypeOK, Inv, Cared, NEW r \in Runs, Drive(r) \/ Yield(r)
  PROVE  Cared' /\ StaysAttended
<1>1. CASE Enter(r) \/ Acquire(r)
  BY <1>1, EnterAttends
<1>2. CASE FirstEventTimeout(r)
  BY <1>2, NoticeAttends DEF FirstEventTimeout, Steps, Holding, Over, callers
<1>3. ASSUME NEW w \in CloseWarns, RetryClosed(r, w)  PROVE Cared' /\ StaysAttended
  <2>1. w \in BOOLEAN
    BY ConstantsAssumption
  <2> QED BY <1>3, <2>1, NoticeAttends DEF RetryClosed, Steps, Holding, Over, callers
<1>4. CASE RetryCreated(r) \/ StreamEnds(r) \/ StreamFails(r)
  BY <1>4, NoticeAttends DEF RetryCreated, StreamEnds, StreamFails, Steps, Holding, Over, callers
<1>5. CASE RetryCreateFails(r)
  BY <1>5, ClosedAttends
<1>6. ASSUME NEW w \in CloseWarns, Closed(r, w) \/ FailClosed(r, w) \/ CancelClosed(r, w)
      PROVE  Cared' /\ StaysAttended
  BY <1>6, ClosedAttends, ConstantsAssumption
<1>7. CASE Interrupt(r)
  BY <1>7, InterruptAttends
<1>8. CASE Yield(r)
  BY <1>8, YieldAttends
<1> QED BY <1>1, <1>2, <1>3, <1>4, <1>5, <1>6, <1>7, <1>8 DEF Drive

(* A step of a caller leaves a queued run it worked on to a driver, to the  *)
(* section at hand, or to another caller.                                   *)
LEMMA CallerAttends ==
  ASSUME TypeOK, Quiescent, UNCHANGED <<durable, targets>>,
         NEW c \in Callers, NEW x, caller' = [caller EXCEPT ![c] = x],
         \A q \in Runs : driver'[q] \in Over => driver[q] \in Over,
         \A q \in Runs : caller[c].run = q /\ status[q] = "queued" => x.run = q \/ Attended(q)'
  PROVE  StaysAttended
<1>1. status' = status /\ caller \in [Callers -> Caller]
  BY DEF durable, TypeOK
<1>2. caller'[c] = x /\ \A d \in Callers : d # c => caller'[d] = caller[d]
  BY <1>1
<1> SUFFICES ASSUME NEW q \in Runs, Attended(q) PROVE Attended(q)'
  BY <1>1 DEF StaysAttended, Attending
<1>3. CASE driver[q] \notin Over
  BY <1>3 DEF Attended
<1>4. CASE status[q] = "queued" /\ q \in targets
  BY <1>1, <1>4 DEF Attended
<1>5. ASSUME status[q] = "queued", NEW d \in Callers, caller[d].run = q
      PROVE  Attended(q)'
  <2>1. CASE d # c
    BY <1>1, <1>2, <1>5, <2>1 DEF Attended
  <2>2. CASE d = c /\ x.run = q
    BY <1>1, <1>2, <1>5, <2>2 DEF Attended
  <2> QED BY <1>5, <2>1, <2>2
<1> QED BY <1>3, <1>4, <1>5, QuietAttended

LEMMA LockedAttends ==
  ASSUME TypeOK, Inv, Cared, Quiescent,
         NEW c \in Clients, NEW r \in Runs, NEW seen \in Status, NEW cs,
         Locked(c, r, seen, cs) \/ (/\ Do(r, cs)
              /\ caller' = [caller EXCEPT ![c] = [pc |-> "starting", run |-> r, seen |-> seen]]),
         \/ cs = <<>>
         \/ cs = <<Move("none", "queued")>> /\ seen = "queued" /\ status[r] = "none",
         status[r] \in {"none", "queued"} => seen = "queued",
         caller[c].pc # "cancelling" /\ caller[c].pc # "closing",
         \/ caller[c] = Idle
         \/ caller[c].run = r /\ Locked(c, r, seen, cs),
         UNCHANGED <<durable, server, active, driver, cancelling, targets>>
  PROVE  Cared' /\ StaysAttended
<1>1. c \in Callers /\ NoRun \notin Runs /\ Idle.run = NoRun /\ Idle.pc = "idle"
  BY ConstantsAssumption DEF Callers, Idle
<1>2. PICK x \in {Idle, [pc |-> "creating", run |-> r, seen |-> seen],
                  [pc |-> "starting", run |-> r, seen |-> seen]} :
        caller' = [caller EXCEPT ![c] = x]
  BY DEF Locked
<1>3. /\ active \subseteq Runs /\ cancelling \subseteq Runs
      /\ caller \in [Callers -> Caller]
  BY DEF TypeOK
<1>4. x.pc \in {"idle", "creating", "starting"} /\ (x.pc = "starting" => x.run = r /\ x.seen = seen)
  BY <1>1
<1>5. \E ds : Do(r, ds) /\ ds # Opening /\ (ds = <<Move("none", "queued")>> => x.run = r)
  <2>1. Len(Opening) = 2 /\ Opening[1] = Move("queued", "running")
    BY DEF Opening
  <2>2. CASE seen = "running" /\ Do(r, cs \o <<Move("running", "failed")>>)
    <3>1. cs = <<>> /\ cs \o <<Move("running", "failed")>> = <<Move("running", "failed")>>
      BY <2>2, Joins
    <3>2. <<Move("running", "failed")>> # <<Move("none", "queued")>>
      BY DEF Move
    <3>3. Len(<<Move("running", "failed")>>) = 1
      OBVIOUS
    <3> QED BY <2>1, <2>2, <3>1, <3>2, <3>3
  <2>3. CASE Do(r, cs) /\ x.run = r
    <3>1. Len(cs) # 2
      OBVIOUS
    <3> QED BY <2>1, <2>3, <3>1
  <2>4. CASE Do(r, cs) /\ cs = <<>>
    <3>1. Len(cs) # 2 /\ cs # <<Move("none", "queued")>>
      BY <2>4
    <3> QED BY <2>1, <2>4, <3>1
  <2>5. CASE Do(r, cs) /\ cs # <<>> /\ x.run # r
    <3>1. seen = "queued" /\ status[r] = "none" /\ cs = <<Move("none", "queued")>>
      BY <2>5
    <3>2. r \notin active
      BY <1>3, <3>1 DEF Inv, Recorded
    <3>3. caller' # [caller EXCEPT ![c] = Idle] \/ FALSE
      <4>1. SUFFICES ASSUME caller' = [caller EXCEPT ![c] = Idle] PROVE FALSE
        OBVIOUS
      <4>2. caller'[c] = Idle
        BY <1>1, <1>3, <4>1
      <4>3. ~(caller' = [caller EXCEPT ![c] = [pc |-> "creating", run |-> r, seen |-> seen]])
        <5>1. [pc |-> "creating", run |-> r, seen |-> seen].pc # Idle.pc
          BY <1>1
        <5> QED BY <1>1, <1>3, <4>2, <5>1
      <4>4. ~(caller' = [caller EXCEPT ![c] = [pc |-> "starting", run |-> r, seen |-> seen]])
        <5>1. [pc |-> "starting", run |-> r, seen |-> seen].pc # Idle.pc
          BY <1>1
        <5> QED BY <1>1, <1>3, <4>2, <5>1
      <4> QED BY <3>1, <3>2, <4>3, <4>4 DEF Locked
    <3>4. x = Idle
      BY <2>5
    <3> QED BY <1>2, <3>3, <3>4
  <2>6. Do(r, cs) \/ (seen = "running" /\ Do(r, cs \o <<Move("running", "failed")>>))
    BY DEF Locked
  <2> QED BY <2>2, <2>3, <2>4, <2>5, <2>6
<1>6. Cared'
  <2>1. x.pc = "starting" /\ x.run \in Runs /\ status[x.run] \in {"none", "queued"} => x.seen = "queued"
    BY <1>4
  <2>2. \A q \in Runs : ~At(c, "cancelling", q) /\ ~At(c, "closing", q)
    BY DEF At
  <2> HIDE DEF Locked
  <2> QED BY <1>1, <1>2, <1>3, <1>5, <2>1, <2>2, CallerCare
<1>7. ASSUME NEW q \in Runs, caller[c].run = q, status[q] = "queued", x.run # q
      PROVE  Attended(q)'
  <2>1. q = r /\ Locked(c, r, seen, cs) /\ seen = "queued" /\ x = Idle
    BY <1>1, <1>7
  <2>2. r \in active
    <3>1. caller'[c] = Idle
      BY <1>1, <1>2, <1>3, <2>1
    <3>2. ~(caller' = [caller EXCEPT ![c] = [pc |-> "creating", run |-> r, seen |-> seen]])
      <4>1. [pc |-> "creating", run |-> r, seen |-> seen].pc # Idle.pc
        BY <1>1
      <4> QED BY <1>1, <1>3, <3>1, <4>1
    <3> QED BY <2>1, <3>2 DEF Locked
  <2>3. driver[r] \notin Over \/ Awaiter(r, {"cancelling", "closing"})
    BY <1>7, <2>1, <2>2 DEF Cared, ActiveAttended
  <2>4. ASSUME NEW d \in Callers, caller[d].pc \in {"cancelling", "closing"}, caller[d].run = r
        PROVE  caller'[d].run = r
    <3>1. d # c
      BY <2>4
    <3> QED BY <1>1, <1>2, <1>3, <2>4, <3>1
  <2>5. status' = status
    BY DEF durable
  <2> QED BY <1>7, <2>1, <2>3, <2>4, <2>5 DEF Attended, Awaiter
<1>8. StaysAttended
  <2> HIDE DEF Locked
  <2> QED BY <1>1, <1>2, <1>7, CallerAttends
<1> QED BY <1>6, <1>8

LEMMA StartAttends ==
  ASSUME TypeOK, Inv, Cared, NEW c \in Clients, NEW r \in Runs, Start(c, r)
  PROVE  Cared' /\ StaysAttended
<1> DEFINE new   == status[r] = "none"
           seen  == IF new THEN "queued" ELSE status[r]
           cs    == IF new THEN <<Move("none", "queued")>> ELSE <<>>
<1>1. seen \in Status /\ (status[r] \in {"none", "queued"} => seen = "queued")
  BY DEF TypeOK, Status
<1>2. /\ Quiescent /\ caller[c] = Idle
      /\ caller[c].pc # "cancelling" /\ caller[c].pc # "closing"
      /\ UNCHANGED <<durable, server, active, driver, cancelling, targets>>
  BY DEF Start, tasks, Idle
<1>3. cs = <<>> \/ (cs = <<Move("none", "queued")>> /\ seen = "queued" /\ status[r] = "none")
  OBVIOUS
<1>4. \/ Locked(c, r, seen, cs)
      \/ /\ Do(r, cs)
         /\ caller' = [caller EXCEPT ![c] = [pc |-> "starting", run |-> r, seen |-> seen]]
  BY DEF Start
<1> HIDE DEF seen, cs
<1> QED BY <1>1, <1>2, <1>3, <1>4, LockedAttends

LEMMA StartLockedAttends ==
  ASSUME TypeOK, Inv, Cared, NEW c \in Clients, StartLocked(c)
  PROVE  Cared' /\ StaysAttended
<1> DEFINE r == caller[c].run  seen == caller[c].seen
<1>1. c \in Callers /\ caller[c].pc = "starting" /\ Quiescent
  BY DEF StartLocked, Callers
<1>2. r \in Runs /\ seen \in Status
  BY <1>1 DEF TypeOK, Caller
<1>3. status[r] \in {"none", "queued"} => seen = "queued"
  BY <1>1, <1>2 DEF Cared, SeenKept, At
<1>4. /\ Locked(c, r, seen, <<>>)
      /\ UNCHANGED <<durable, server, active, driver, cancelling, targets>>
  BY DEF StartLocked, tasks
<1>5. caller[c].pc # "cancelling" /\ caller[c].pc # "closing" /\ caller[c].run = r
  BY <1>1
<1> HIDE DEF r, seen
<1> QED BY <1>1, <1>2, <1>3, <1>4, <1>5, LockedAttends

LEMMA CreatedAttends ==
  ASSUME TypeOK, Inv, Cared, NEW c \in Clients, NEW r \in Runs,
         Created(c, r) \/ CreateFails(c, r)
  PROVE  Cared' /\ StaysAttended
<1>1. /\ Quiescent /\ caller[c].pc = "creating" /\ caller[c].run = r /\ c \in Callers
      /\ caller' = [caller EXCEPT ![c] = Idle]
      /\ UNCHANGED <<durable, server, cancelling, targets>>
  BY DEF Created, CreateFails, At, Callers, tasks
<1>2. /\ active \subseteq Runs /\ cancelling \subseteq Runs /\ driver \in [Runs -> Driver]
      /\ status' = status
  BY <1>1 DEF TypeOK, durable
<1>3. Idle.run \notin Runs /\ Idle.pc = "idle"
  BY ConstantsAssumption DEF Idle
<1>4. \A q \in Runs : ~At(c, "cancelling", q) /\ ~At(c, "closing", q)
  BY <1>1 DEF At
<1>5. CASE Created(c, r)
  <2>1. /\ driver' = [driver EXCEPT ![r] = "new"] /\ active' = active \cup {r}
        /\ UNCHANGED section
    BY <1>5 DEF Created
  <2>2. driver'[r] \notin Over /\ \A q \in Runs : q # r => driver'[q] = driver[q]
    BY <1>2, <2>1 DEF Over
  <2>3. Cared'
    BY <1>1, <1>2, <1>3, <1>4, <2>1, <2>2, CallerCare
  <2>4. Attended(r)'
    BY <2>2 DEF Attended
  <2> QED BY <1>1, <2>2, <2>3, <2>4, CallerAttends
<1>6. CASE CreateFails(c, r)
  <2> DEFINE cs == <<Move("queued", "failed")>>
  <2>1. Do(r, cs) /\ UNCHANGED <<active, driver>>
    BY <1>6 DEF CreateFails, tasks
  <2>2. cs # <<Move("none", "queued")>> /\ cs # Opening
    <3>1. Len(cs) = 1 /\ Len(Opening) = 2
      BY DEF Opening
    <3> QED BY <3>1 DEF Move
  <2>3. status[r] = "queued" => Settles(r, cs)
    BY DEF Settles, Move
  <2> HIDE DEF cs
  <2>4. Cared'
    <3>1. /\ \A q \in Runs : driver'[q] \in Over => driver[q] \in Over
          /\ \A q \in active' : q \in active \/ driver'[q] \notin Over
          /\ active' \subseteq Runs /\ cancelling' \subseteq Runs
      BY <1>1, <1>2, <2>1
    <3>2. \E ds : Do(r, ds) /\ ds # Opening /\ (ds = <<Move("none", "queued")>> => Idle.run = r)
      BY <2>1, <2>2
    <3> QED BY <1>1, <1>3, <1>4, <3>1, <3>2, CallerCare
  <2>5. status[r] = "queued" => Attended(r)'
    BY <1>2, <2>1, <2>3, SettlesAttended
  <2> QED BY <1>1, <2>1, <2>4, <2>5, CallerAttends
<1> QED BY <1>5, <1>6

LEMMA CancelAttends ==
  ASSUME TypeOK, Inv, Cared, NEW c \in Clients, NEW r \in Runs,
         CancelQueued(c, r) \/ CancelActive(c, r)
  PROVE  Cared' /\ StaysAttended
<1>1. /\ Quiescent /\ caller[c] = Idle /\ c \in Callers
      /\ UNCHANGED <<durable, server, active, driver, targets>>
  BY DEF CancelQueued, CancelActive, Callers, volatile, tasks, callers
<1>2. /\ active \subseteq Runs /\ cancelling \subseteq Runs /\ caller \in [Callers -> Caller]
  BY DEF TypeOK
<1>3. Idle.run \notin Runs /\ Idle.pc = "idle"
  BY ConstantsAssumption DEF Idle
<1>4. \A q \in Runs : ~At(c, "cancelling", q) /\ ~At(c, "closing", q) /\ caller[c].run # q
  BY <1>1, <1>3 DEF At
<1>5. CASE CancelQueued(c, r)
  <2>1. Do(r, <<Move("queued", "cancelled")>>) /\ UNCHANGED <<caller, cancelling>>
    BY <1>5 DEF CancelQueued, volatile, tasks, callers
  <2>2. PICK x : caller' = [caller EXCEPT ![c] = x] /\ x.pc = "idle" /\ x.run \notin Runs
    BY <1>1, <1>2, <1>3, <2>1
  <2>3. <<Move("queued", "cancelled")>> # <<Move("none", "queued")>>
        /\ <<Move("queued", "cancelled")>> # Opening
    <3>1. Len(<<Move("queued", "cancelled")>>) = 1 /\ Len(Opening) = 2
      BY DEF Opening
    <3> QED BY <3>1 DEF Move
  <2>4. Cared'
    <3>1. /\ \A q \in Runs : driver'[q] \in Over => driver[q] \in Over
          /\ \A q \in active' : q \in active \/ driver'[q] \notin Over
          /\ active' \subseteq Runs /\ cancelling' \subseteq Runs
      BY <1>1, <1>2, <2>1
    <3>2. \E ds : Do(r, ds) /\ ds # Opening /\ (ds = <<Move("none", "queued")>> => x.run = r)
      BY <2>1, <2>3
    <3>3. UNCHANGED <<server, targets, durable>> /\ \A q \in cancelling' : q \in cancelling
      BY <1>1, <2>1
    <3> QED BY <1>1, <1>3, <1>4, <2>2, <3>1, <3>2, <3>3, CallerCare
  <2> QED BY <1>1, <1>4, <2>2, <2>4, CallerAttends
<1>6. CASE CancelActive(c, r)
  <2>1. /\ cancelling' = cancelling \cup Running({r}) /\ UNCHANGED section
        /\ caller' = [caller EXCEPT ![c] = [pc |-> "cancelling", run |-> r, seen |-> "none"]]
    BY <1>6 DEF CancelActive
  <2>2. PICK x : x.pc = "cancelling" /\ x.run = r /\ caller' = [caller EXCEPT ![c] = x]
    BY <2>1
  <2>3. /\ cancelling' \subseteq Runs
        /\ \A q \in cancelling' : q \in cancelling
                                  \/ (driver[q] \notin Over /\ x.pc = "cancelling" /\ x.run = q)
    BY <1>2, <2>1, <2>2 DEF Running
  <2>4. Cared'
    <3>1. /\ \A q \in Runs : driver'[q] \in Over => driver[q] \in Over
          /\ \A q \in active' : q \in active \/ driver'[q] \notin Over
          /\ active' \subseteq Runs
      BY <1>1, <1>2
    <3>2. /\ \A q \in Runs : At(c, "cancelling", q) => driver[q] \in Over
          /\ \A q \in Runs : At(c, "cancelling", q) \/ At(c, "closing", q) =>
               q \notin active' \/ status[q] # "queued" \/ (x.pc = "closing" /\ x.run = q)
      BY <1>4
    <3>3. x.pc = "starting" /\ x.run \in Runs /\ status[x.run] \in {"none", "queued"}
            => x.seen = "queued"
      BY <2>2
    <3>4. UNCHANGED <<durable, server, targets>> /\ caller' = [caller EXCEPT ![c] = x]
          /\ UNCHANGED section /\ Quiescent /\ c \in Callers
      BY <1>1, <2>1, <2>2
    <3> QED BY <2>3, <3>1, <3>2, <3>3, <3>4, CallerCare
  <2> QED BY <1>1, <1>4, <2>2, <2>4, CallerAttends
<1> QED BY <1>5, <1>6

LEMMA AwaitAttends ==
  ASSUME TypeOK, Inv, Cared, NEW c \in Callers, NEW r \in Runs,
         Awaited(c, r) \/ UnstartedClosed(c, r)
  PROVE  Cared' /\ StaysAttended
<1> DEFINE settle == <<Move("queued", "cancelled")>>
<1>1. /\ Quiescent /\ caller[c].run = r
      /\ caller[c].pc = "closing" \/ (caller[c].pc = "cancelling" /\ driver[r] \in Over)
      /\ UNCHANGED <<durable, server, cancelling, targets>>
  BY DEF Awaited, UnstartedClosed, At
<1>2. /\ active \subseteq Runs /\ cancelling \subseteq Runs /\ driver \in [Runs -> Driver]
      /\ caller \in [Callers -> Caller] /\ status' = status
  BY <1>1 DEF TypeOK, durable
<1>3. Idle.run \notin Runs /\ Idle.pc = "idle"
  BY ConstantsAssumption DEF Idle
<1>4. /\ \A q \in Runs : At(c, "cancelling", q) => driver[q] \in Over
      /\ \A q \in Runs : At(c, "cancelling", q) \/ At(c, "closing", q) => q = r
  BY <1>1 DEF At
<1>5. settle # <<Move("none", "queued")>> /\ settle # Opening
      /\ (status[r] = "queued" => Settles(r, settle))
  <2>1. Len(settle) = 1 /\ Len(Opening) = 2
    BY DEF Opening
  <2>2. status[r] = "queued" => Settles(r, settle)
    BY DEF Settles, Move
  <2> QED BY <2>1, <2>2 DEF Move
<1> HIDE DEF settle
<1>6. CASE status[r] # "queued" /\ UNCHANGED <<section, active, driver>>
           /\ caller' = [caller EXCEPT ![c] = Idle]
  <2>1. Cared'
    BY <1>1, <1>2, <1>3, <1>4, <1>6, CallerCare
  <2> QED BY <1>1, <1>6, <2>1, CallerAttends
<1>7. CASE /\ caller' = [caller EXCEPT ![c] = [@ EXCEPT !.pc = "closing"]]
           /\ UNCHANGED <<section, active, driver>>
  <2>1. PICK x : x.run = r /\ x.pc = "closing" /\ caller' = [caller EXCEPT ![c] = x]
    <3>1. [caller[c] EXCEPT !.pc = "closing"].run = r
          /\ [caller[c] EXCEPT !.pc = "closing"].pc = "closing"
      BY <1>1, <1>2 DEF Caller
    <3> QED BY <1>7, <3>1
  <2>2. Cared'
    BY ZenonT(60), <1>1, <1>2, <1>4, <1>7, <2>1, CallerCare
  <2>3. /\ \A q \in Runs : driver'[q] \in Over => driver[q] \in Over
        /\ \A q \in Runs : caller[c].run = q /\ status[q] = "queued" => x.run = q \/ Attended(q)'
    BY <1>1, <1>7, <2>1
  <2>4. UNCHANGED <<durable, targets>>
    BY <1>1
  <2>5. caller' = [caller EXCEPT ![c] = x]
    BY <2>1
  <2>6. StaysAttended
    BY <1>1, <2>3, <2>4, <2>5, CallerAttends
  <2> QED BY <2>2, <2>6
<1>8. CASE /\ Do(r, settle) /\ active' = active \ {r}
           /\ caller' = [caller EXCEPT ![c] = Idle]
           /\ \A q \in Runs : driver'[q] \in Over => driver[q] \in Over
  <2>1. Cared'
    <3>1. /\ \A q \in active' : q \in active \/ driver'[q] \notin Over
          /\ active' \subseteq Runs /\ cancelling' \subseteq Runs
      BY <1>1, <1>2, <1>8
    <3>2. \E ds : Do(r, ds) /\ ds # Opening /\ (ds = <<Move("none", "queued")>> => Idle.run = r)
      BY <1>5, <1>8
    <3>3. \A q \in Runs : At(c, "cancelling", q) \/ At(c, "closing", q) => q \notin active'
      BY <1>4, <1>8
    <3> QED BY <1>1, <1>3, <1>4, <1>8, <3>1, <3>2, <3>3, CallerCare
  <2>2. status[r] = "queued" => Attended(r)'
    BY <1>2, <1>5, <1>8, SettlesAttended
  <2> QED BY <1>1, <1>8, <2>1, <2>2, CallerAttends
<1>9. CASE Awaited(c, r)
  <2>1. driver[r] \in Over
    BY <1>9 DEF Awaited
  <2>2. Goto(r, "none") => \A q \in Runs : driver'[q] \in Over => driver[q] \in Over
    BY <1>2, <2>1 DEF Goto
  <2> QED BY <1>6, <1>7, <1>8, <1>9, <2>2 DEF Awaited, settle
<1>10. CASE UnstartedClosed(c, r)
  <2>1. driver' = [driver EXCEPT ![r] = IF @ = "unstarted" THEN "none" ELSE @]
    BY <1>10 DEF UnstartedClosed
  <2>2. \A q \in Runs : driver'[q] \in Over => driver[q] \in Over
    BY <1>2, <2>1 DEF Over
  <2> QED BY <1>8, <1>10, <2>2 DEF UnstartedClosed, settle
<1> QED BY <1>9, <1>10
-----------------------------------------------------------------------------
(* aclose takes over the runs that are active, and cancels them in turn.    *)
LEMMA StopAttends ==
  ASSUME TypeOK, Inv, Cared, Stop  PROVE Cared' /\ StaysAttended
<1>1. /\ Quiescent /\ targets = {} /\ targets' = active /\ server' = "stopping"
      /\ cancelling' = cancelling \cup Running(active)
      /\ UNCHANGED <<section, active, driver, caller>> /\ status' = status
  BY DEF Stop, Cared, TargetsStopping, durable
<1>2. active \subseteq Runs /\ cancelling \subseteq Runs
  BY DEF TypeOK
<1>3. CancelledAwaited'
  BY <1>1 DEF Cared, CancelledAwaited, Awaiter, Running
<1>4. ActiveAttended'
  BY <1>1 DEF ActiveAttended, Awaiter
<1>5. SeenKept'
  BY <1>1 DEF Cared, SeenKept, At
<1>6. BirthsAwaited' /\ BeginsInside'
  BY <1>1 DEF Cared, BirthsAwaited, BeginsInside, Pending
<1>7. TargetsStopping'
  BY <1>1 DEF TargetsStopping
<1>8. StaysAttended
  BY <1>1 DEF StaysAttended, Attending, Attended
<1> QED BY <1>3, <1>4, <1>5, <1>6, <1>7, <1>8 DEF Cared

LEMMA StopNextAttends ==
  ASSUME TypeOK, Inv, Cared, NEW r \in Runs, StopNext(r)  PROVE Cared' /\ StaysAttended
<1>1. /\ caller[Stopper] = Idle /\ Stopper \in Callers
      /\ targets' = targets \ {r} /\ server = "stopping"
      /\ UNCHANGED <<section, server, active, driver, cancelling>> /\ status' = status
  BY DEF StopNext, tasks, durable, Callers
<1>2. PICK x : caller' = [caller EXCEPT ![Stopper] = x] /\ x.pc = "cancelling" /\ x.run = r
  <2> DEFINE y == [pc |-> "cancelling", run |-> r, seen |-> "none"]
  <2>1. caller' = [caller EXCEPT ![Stopper] = y] /\ y.pc = "cancelling" /\ y.run = r
    BY DEF StopNext
  <2> HIDE DEF y
  <2> QED BY <2>1
<1>3. /\ caller \in [Callers -> Caller] /\ Idle.run \notin Runs /\ Idle.pc = "idle"
      /\ cancelling \subseteq Runs /\ active \subseteq Runs
  BY ConstantsAssumption DEF TypeOK, Idle
<1>4. caller'[Stopper] = x /\ \A d \in Callers : d # Stopper => caller'[d] = caller[d]
  BY <1>1, <1>2, <1>3
<1>5. ASSUME NEW q \in Runs, NEW pcs, "cancelling" \in pcs, "idle" \notin pcs, Awaiter(q, pcs)
      PROVE  Awaiter(q, pcs)'
  <2>1. CASE q \in targets
    BY <1>1, <1>2, <1>4, <1>5, <2>1 DEF Awaiter
  <2>2. ASSUME NEW d \in Callers, caller[d].pc \in pcs, caller[d].run = q
        PROVE  Awaiter(q, pcs)'
    <3>1. d # Stopper
      BY <1>1, <1>3, <2>2
    <3> QED BY <1>4, <2>2, <3>1 DEF Awaiter
  <2> QED BY <1>5, <2>1, <2>2 DEF Awaiter
<1>6. CancelledAwaited'
  BY <1>1, <1>3, <1>5 DEF Cared, CancelledAwaited
<1>7. ActiveAttended'
  BY <1>1, <1>3, <1>5 DEF Cared, ActiveAttended
<1>8. SeenKept'
  BY <1>1, <1>2, <1>4 DEF Cared, SeenKept, At
<1>9. BirthsAwaited'
  <2>1. \A q \in Runs, d \in Callers : caller[d].run = q => caller'[d].run = q
    BY <1>1, <1>3, <1>4
  <2> QED BY <1>1, <2>1 DEF Cared, BirthsAwaited, Pending
<1>10. BeginsInside' /\ TargetsStopping'
  BY <1>1 DEF Cared, BeginsInside, TargetsStopping
<1>11. StaysAttended
  <2> SUFFICES ASSUME NEW q \in Runs, Attended(q) PROVE Attended(q)'
    BY <1>1 DEF StaysAttended, Attending
  <2>1. CASE q \in targets \/ \E d \in Callers : caller[d].run = q
    <3>1. q \in targets' \/ \E d \in Callers : caller'[d].run = q
      <4>1. CASE q \in targets
        BY <1>1, <1>2, <1>4, <4>1
      <4>2. ASSUME NEW d \in Callers, caller[d].run = q PROVE caller'[d].run = q
        BY <1>1, <1>3, <1>4, <4>2
      <4> QED BY <2>1, <4>1, <4>2
    <3> QED BY <1>1, <3>1 DEF Attended
  <2>2. CASE ~(q \in targets \/ \E d \in Callers : caller[d].run = q)
    BY <1>1, <2>2 DEF Attended
  <2> QED BY <2>1, <2>2
<1> QED BY <1>6, <1>7, <1>8, <1>9, <1>10, <1>11 DEF Cared

(* The process ends, and another takes its place. *)
LEMMA ProcessCares ==
  ASSUME TypeOK, Inv, Cared, Stopped \/ Crash \/ Serve \/ \E r \in Runs : Recover(r)
  PROVE  /\ Cared'
         /\ server' = "down" \/ \A r \in Runs : status'[r] \notin ActiveStatus
<1>1. CASE Stopped \/ Crash
  <2>1. /\ active' = {} /\ cancelling' = {} /\ targets' = {} /\ server' = "down"
        /\ caller' = [c \in Callers |-> Idle] /\ section'.calls = <<>>
    BY <1>1 DEF Stopped, Crash, Fresh, Quiescent
  <2>2. \A c \in Callers : caller'[c].pc = "idle"
    BY <2>1 DEF Idle
  <2>3. CancelledAwaited' /\ ActiveAttended' /\ TargetsStopping'
    BY <2>1 DEF CancelledAwaited, ActiveAttended, TargetsStopping
  <2>4. SeenKept'
    BY <2>2 DEF SeenKept, At
  <2>5. BirthsAwaited' /\ BeginsInside'
    BY <2>1 DEF BirthsAwaited, BeginsInside, Pending, Opening
  <2> QED BY <2>1, <2>3, <2>4, <2>5 DEF Cared
<1>2. CASE Serve
  <2>1. /\ server' = "up" /\ server = "down" /\ status' = status
        /\ UNCHANGED <<section, active, driver, cancelling, caller, targets>>
        /\ \A r \in Runs : status[r] \notin ActiveStatus
    BY <1>2 DEF Serve, tasks, callers, durable
  <2>2. CancelledAwaited' /\ ActiveAttended' /\ SeenKept'
    BY <2>1 DEF Cared, CancelledAwaited, ActiveAttended, SeenKept, Awaiter, At
  <2>3. BirthsAwaited' /\ BeginsInside' /\ TargetsStopping'
    BY <2>1 DEF Cared, BirthsAwaited, BeginsInside, TargetsStopping, Pending
  <2> QED BY <2>1, <2>2, <2>3 DEF Cared
<1>3. ASSUME NEW r \in Runs, Recover(r)
      PROVE  Cared' /\ server' = "down"
  <2>1. /\ Quiescent /\ server = "down" /\ status[r] \in ActiveStatus
        /\ Do(r, <<Move(status[r], "failed")>>)
        /\ UNCHANGED <<server, active, driver, cancelling, caller, targets>> /\ status' = status
    BY <1>3 DEF Recover, Settling, volatile, tasks, callers, durable
  <2>2. CancelledAwaited' /\ ActiveAttended' /\ SeenKept' /\ TargetsStopping'
    BY <2>1 DEF Cared, CancelledAwaited, ActiveAttended, SeenKept, TargetsStopping, Awaiter, At
  <2>3. /\ <<Move(status[r], "failed")>> # <<Move("none", "queued")>>
        /\ <<Move(status[r], "failed")>> # Opening
    <3>1. Len(<<Move(status[r], "failed")>>) = 1 /\ Len(Opening) = 2
      BY DEF Opening
    <3> QED BY <3>1 DEF Move
  <2>4. BirthsAwaited' /\ BeginsInside'
    BY <2>1, <2>3, SectionCare
  <2> QED BY <2>1, <2>2, <2>4 DEF Cared
<1> QED BY <1>1, <1>2, <1>3

(* A registry call: what follows it in its section neither creates nor      *)
(* begins a run, and who attended its run still does.                       *)
LEMMA CommitAttends ==
  ASSUME TypeOK, Inv, Cared, Commit  PROVE Cared' /\ StaysAttended
<1> DEFINE r == section.run  cs == section.calls  call == section.calls[1]
<1>1. /\ r \in Runs /\ cs \in Seq(Call) /\ cs # <<>> /\ call \in Call
      /\ section'.calls = Tail(cs)
      /\ section'.run = IF Tail(cs) = <<>> THEN NoRun ELSE r
      /\ Len(Tail(cs)) = Len(cs) - 1
      /\ \A i \in 1..Len(Tail(cs)) : i+1 \in 1..Len(cs) /\ Tail(cs)[i] = cs[i+1]
  BY CommitFacts
<1>2. \/ /\ call.kind = "move" /\ status[r] = call.from
         /\ Lifecycle(call.from, call.to)
         /\ status' = [status EXCEPT ![r] = call.to]
      \/ /\ call.kind = "move" /\ status[r] # call.from /\ call.to \in TerminalStatus
         /\ status' = status
      \/ call.kind = "note" /\ status' = status
  BY CommitFacts
<1>3. UNCHANGED <<server, active, driver, cancelling, caller, targets>>
  BY DEF Commit, volatile, tasks, callers
<1>4. LegalCalls(r, cs) /\ status \in [Runs -> Status] /\ active \subseteq Runs
  BY DEF Inv, SectionLegal, TypeOK
<1>5. Len(cs) \in Nat /\ Len(cs) # 0 /\ 1 \in 1..Len(cs)
  BY <1>1
<1>6. ASSUME NEW i \in 1..Len(Tail(cs)), Tail(cs)[i].kind = "move"
      PROVE  Tail(cs)[i].to # "queued" /\ Tail(cs)[i].to # "running"
  <2>1. i + 1 \in 1..Len(cs) /\ Tail(cs)[i] = cs[i + 1] /\ i + 1 # 1 /\ Len(cs) # 1
    BY SMTT(30), <1>1, <1>5, <1>6
  <2> HIDE DEF cs, r
  <2> QED BY <1>4, <1>6, <2>1 DEF LegalCalls
<1>7. /\ Tail(cs) # <<Move("none", "queued")>>
      /\ Tail(cs) # Opening
  <2>1. /\ Len(<<Move("none", "queued")>>) = 1 /\ <<Move("none", "queued")>>[1].kind = "move"
        /\ <<Move("none", "queued")>>[1].to = "queued"
    BY DEF Move
  <2>2. Len(Opening) = 2 /\ Opening[1].kind = "move" /\ Opening[1].to = "running"
    BY DEF Opening, Move
  <2> DEFINE t == Tail(cs)
  <2>3. \A i \in 1..Len(t) : t[i].kind = "move" => t[i].to # "queued" /\ t[i].to # "running"
    BY <1>6
  <2>4. 1 \in 1..1 /\ 1 \in 1..2
    OBVIOUS
  <2> HIDE DEF cs, r, call, t
  <2>5. t # <<Move("none", "queued")>>
    BY <2>1, <2>3, <2>4
  <2>6. t # Opening
    BY <2>2, <2>3, <2>4
  <2> QED BY <2>5, <2>6 DEF t
<1>8. ASSUME NEW q \in Runs, status'[q] \in {"none", "queued"}
      PROVE  status[q] = status'[q] \/ (q = r /\ status[q] = "none")
  <2> HIDE DEF cs, r, call
  <2> QED BY <1>1, <1>2, <1>4, <1>8 DEF Lifecycle
<1>9. CancelledAwaited' /\ TargetsStopping'
  BY <1>3 DEF Cared, CancelledAwaited, TargetsStopping, Awaiter
<1>10. ActiveAttended'
  <2> SUFFICES ASSUME NEW q \in active, status'[q] = "queued"
               PROVE  driver[q] \notin Over \/ Awaiter(q, {"cancelling", "closing"})
    BY <1>3 DEF ActiveAttended, Awaiter
  <2>1. q \in Runs /\ status[q] # "none"
    BY <1>4 DEF Inv, Recorded
  <2>2. status[q] = "queued"
    BY <1>8, <2>1
  <2> QED BY <2>2 DEF Cared, ActiveAttended
<1>11. SeenKept'
  <2> SUFFICES ASSUME NEW c \in Callers, NEW q \in Runs, At(c, "starting", q),
                      status'[q] \in {"none", "queued"}
               PROVE  caller[c].seen = "queued"
    BY <1>3 DEF SeenKept, At
  <2> QED BY <1>8 DEF Cared, SeenKept
<1>12. BirthsAwaited' /\ BeginsInside'
  BY <1>1, <1>7 DEF BirthsAwaited, BeginsInside, Pending
<1>13. StaysAttended
  <2> SUFFICES ASSUME NEW q \in Runs, Attending(q), status'[q] \in ActiveStatus,
                      driver[q] \in Over
               PROVE  Attended(q)'
    BY <1>3 DEF StaysAttended, Attending, Attended
  <2>1. CASE status'[q] # status[q]
    <3>1. /\ q = r /\ call.kind = "move" /\ call.from = status[r] /\ call.to = status'[q]
          /\ Lifecycle(call.from, call.to)
      <4> HIDE DEF cs, r, call
      <4> QED BY <1>1, <1>2, <1>4, <2>1
    <3>2. CASE call.to = "queued"
      <4>1. Len(cs) = 1 /\ call.from = "none"
        BY <1>4, <1>5, <3>1, <3>2 DEF LegalCalls, Lifecycle
      <4>2. call = Move("none", "queued")
        <5> HIDE DEF call
        <5> QED BY <1>1, <3>1, <3>2, <4>1 DEF Move, Call
      <4>3. cs = <<call>>
        BY <1>1, <4>1
      <4>4. Pending(q, Move("none", "queued"))
        BY <3>1, <4>2, <4>3 DEF Pending
      <4>5. \E c \in Callers : caller[c].run = q
        BY <4>4 DEF Cared, BirthsAwaited
      <4>6. status'[q] = "queued"
        BY <3>1, <3>2
      <4> QED BY <1>3, <4>5, <4>6 DEF Attended
    <3>3. CASE call.to = "running"
      <4>1. cs = Opening
        BY <1>4, <1>5, <3>1, <3>3 DEF LegalCalls
      <4>2. driver[q] = "events"
        BY <3>1, <4>1 DEF Cared, BeginsInside
      <4> QED BY <4>2 DEF Over
    <3>4. call.to \in {"queued", "running"}
      <4> HIDE DEF call
      <4> QED BY <3>1
    <3> QED BY <3>2, <3>3, <3>4
  <2>2. CASE status'[q] = status[q]
    <3>1. Attended(q)
      BY <2>2 DEF Attending
    <3>2. CASE status[q] = "queued" /\ (q \in targets \/ \E c \in Callers : caller[c].run = q)
      BY <1>3, <2>2, <3>2 DEF Attended
    <3>3. ASSUME r = q, NEW i \in DOMAIN cs, cs[i].kind = "move", cs[i].from = status[q]
          PROVE  Attended(q)'
      <4>1. i # 1
        <5>1. ~(call.kind = "move" /\ status[r] = call.from)
          <6> SUFFICES ASSUME call.kind = "move", status[r] = call.from PROVE FALSE
            OBVIOUS
          <6>1. Lifecycle(call.from, call.to) /\ status' = [status EXCEPT ![r] = call.to]
            BY <1>2
          <6>2. status'[r] = call.to
            BY <1>1, <1>4, <6>1
          <6>3. call.to = call.from
            BY <2>2, <3>3, <6>2
          <6> HIDE DEF call
          <6> QED BY <6>1, <6>3 DEF Lifecycle
        <5> QED BY <3>3, <5>1
      <4>2. i - 1 \in 1..Len(Tail(cs)) /\ (i - 1) + 1 = i
        BY <1>1, <1>5, <3>3, <4>1
      <4>3. Tail(cs)[i - 1] = cs[i] /\ Tail(cs) # <<>> /\ Tail(cs) \in Seq(Call)
        BY <1>1, <4>2
      <4>4. /\ section'.run = q /\ section'.calls = Tail(cs)
            /\ i - 1 \in DOMAIN section'.calls
        BY <1>1, <3>3, <4>2, <4>3
      <4>5. section'.calls[i - 1].kind = "move" /\ section'.calls[i - 1].from = status'[q]
        BY <2>2, <3>3, <4>3, <4>4
      <4> QED BY <4>4, <4>5 DEF Attended
    <3> QED BY <3>1, <3>2, <3>3 DEF Attended
  <2> QED BY <2>1, <2>2
<1> QED BY <1>9, <1>10, <1>11, <1>12, <1>13 DEF Cared
-----------------------------------------------------------------------------
LEMMA CaredInit == Init => Cared
BY DEF Init, Cared, CancelledAwaited, ActiveAttended, SeenKept, BirthsAwaited, BeginsInside,
       TargetsStopping, Pending, Opening, At, Idle

(* Without a process nothing happens but its start. *)
LEMMA DownStep ==
  ASSUME TypeOK, Inv, Cared, server = "down", Next, server' # "down"
  PROVE  Serve
<1>1. /\ \A r \in Runs : driver[r] = "none" /\ r \notin cancelling
      /\ \A c \in Callers : caller[c].pc = "idle"
  BY DEF Inv, DownLegal, Cared, CancelledAwaited, Over
<1>2. ~Commit
  BY DEF Commit, volatile
<1>3. \A r \in Runs : ~Drive(r)
  <2> SUFFICES ASSUME NEW r \in Runs PROVE ~Drive(r)
    OBVIOUS
  <2>1. \A pc : Steps(r, pc) => pc = "none"
    BY <1>1 DEF Steps
  <2>2. ~Interrupt(r)
    BY <1>1 DEF Interrupt
  <2> QED BY <2>1, <2>2 DEF Drive, Enter, Acquire, FirstEventTimeout, RetryCreated,
        RetryCreateFails, StreamEnds, StreamFails, RetryClosed, Closed, FailClosed, CancelClosed
<1>4. \A r \in Runs : ~Yield(r) /\ ~StopNext(r)
  BY <1>1 DEF Yield, Activity, Output, Fault, Steps, StopNext
<1>5. \A c \in Clients : ~Continue(c) /\ \A r \in Runs : ~Request(c, r)
  BY <1>1 DEF Continue, StartLocked, Created, CreateFails, At, Callers,
              Request, Start, CancelQueued, CancelActive
<1>6. \A c \in Callers : ~Await(c)
  BY <1>1 DEF Await, Awaited, UnstartedClosed, At
<1>7. ~Stop /\ ~Stopped /\ ~Crash /\ \A r \in Runs : ~Recover(r)
  BY DEF Stop, Stopped, Crash, Recover, volatile
<1> QED BY <1>2, <1>3, <1>4, <1>5, <1>6, <1>7 DEF Next, Restart

LEMMA CaredStep ==
  TypeOK /\ Inv /\ Cared /\ [Next]_vars =>
    /\ Cared'
    /\ \/ StaysAttended \/ UNCHANGED vars \/ server' = "down"
       \/ \A r \in Runs : status'[r] \notin ActiveStatus
<1> SUFFICES ASSUME TypeOK, Inv, Cared, [Next]_vars
             PROVE  /\ Cared'
                    /\ \/ StaysAttended \/ UNCHANGED vars \/ server' = "down"
                       \/ \A r \in Runs : status'[r] \notin ActiveStatus
  OBVIOUS
<1>1. CASE Commit
  BY <1>1, CommitAttends
<1>2. ASSUME NEW r \in Runs, Drive(r) \/ Yield(r)  PROVE Cared' /\ StaysAttended
  BY <1>2, DriveAttends
<1>3. ASSUME NEW r \in Runs, StopNext(r)  PROVE Cared' /\ StaysAttended
  BY <1>3, StopNextAttends
<1>4. ASSUME NEW c \in Clients, Continue(c)  PROVE Cared' /\ StaysAttended
  BY <1>4, StartLockedAttends, CreatedAttends DEF Continue
<1>5. ASSUME NEW c \in Clients, NEW r \in Runs, Request(c, r)  PROVE Cared' /\ StaysAttended
  BY <1>5, StartAttends, CancelAttends DEF Request
<1>6. ASSUME NEW c \in Callers, Await(c)  PROVE Cared' /\ StaysAttended
  BY <1>6, AwaitAttends DEF Await
<1>7. CASE Stop
  BY <1>7, StopAttends
<1>8. CASE Stopped \/ Crash \/ Restart
  BY <1>8, ProcessCares DEF Restart
<1>9. CASE UNCHANGED vars
  <2>1. UNCHANGED <<status, section, server, active, driver, cancelling, caller, targets>>
    BY <1>9 DEF vars, durable, volatile, tasks, callers
  <2>2. CancelledAwaited' /\ ActiveAttended' /\ SeenKept'
    BY <2>1 DEF Cared, CancelledAwaited, ActiveAttended, SeenKept, Awaiter, At
  <2>3. BirthsAwaited' /\ BeginsInside' /\ TargetsStopping'
    BY <2>1 DEF Cared, BirthsAwaited, BeginsInside, TargetsStopping, Pending
  <2> QED BY <1>9, <2>2, <2>3 DEF Cared
<1> QED BY <1>1, <1>2, <1>3, <1>4, <1>5, <1>6, <1>7, <1>8, <1>9 DEF Next

(* A step abandons only the exceptions; before a restart nobody is          *)
(* abandoned, because no process is there to forget a run.                  *)
LEMMA AbandonsExcepted ==
  TypeOK /\ Inv /\ Cared /\ [Next]_vars =>
    [\A r \in Runs :
       Abandoned(r)' /\ ~Abandoned(r) =>
         /\ r \in cancelling
         /\ \/ driver[r] \in {"failClose", "cancelClose"}
            \/ driver[r] = "new" /\ status[r] = "running"]_vars
<1> SUFFICES ASSUME TypeOK, Inv, Cared, [Next]_vars, ~UNCHANGED vars,
                    NEW r \in Runs, Abandoned(r)', ~Abandoned(r)
             PROVE  Excepted(r)
  BY DEF Excepted
<1>1. /\ server' # "down" /\ status'[r] \in ActiveStatus /\ ~Attended(r)'
  BY DEF Abandoned
<1>2. StaysAttended
  BY <1>1, CaredStep
<1>3. CASE server # "down"
  BY <1>1, <1>2, <1>3 DEF Abandoned, StaysAttended, Attending
<1>4. CASE server = "down"
  <2>1. Serve
    BY <1>1, <1>4, DownStep DEF vars
  <2>2. status'[r] \notin ActiveStatus
    BY <2>1 DEF Serve, durable
  <2> QED BY <1>1, <2>2
<1> QED BY <1>3, <1>4

(* A run loses everyone who would settle it only by a CancelledError that   *)
(* meets its driver in an exception handler, or a stale start's second      *)
(* driver before its first step: no race of start, cancel, aclose and the   *)
(* driver loses a queued or running run in any other way.                   *)
THEOREM HandlersAbandon == Spec => AbandonedOnlyInHandler
BY TypeCorrect, Invariance, CaredInit, CaredStep, AbandonsExcepted, PTL
   DEF Spec, AbandonedOnlyInHandler
-----------------------------------------------------------------------------
(* The coordinator implements RunHistory, and the histories it leaves agree  *)
(* with the records.                                                         *)

USE DEF ActiveStatus, TerminalStatus, TerminalKind, NoticeKind,
        History!ActiveStatus, History!TerminalStatus, History!TerminalKind, History!NoticeKind

(* Which events are terminal ones. *)
LEMMA TerminalEventKind ==
  /\ \A st \in TerminalStatus : History!TerminalEvent(st) = TerminalEvent(st)
  /\ \A st \in TerminalStatus : TerminalEvent(st) \in TerminalKind
  /\ \A k \in NoticeKind : k \notin TerminalKind
BY DEF TerminalEvent, History!TerminalEvent

(* The registry call a section makes next is a step of RunHistory. *)
LEMMA CommitIsHistory ==
  ASSUME TypeOK, Inv, Commit  PROVE History!Next \/ UNCHANGED durable
<1> DEFINE r == section.run  cs == section.calls  call == section.calls[1]
<1>1. /\ r \in Runs /\ cs \in Seq(Call) /\ cs # <<>> /\ call \in Call
      /\ status \in [Runs -> Status]
  BY CommitFacts DEF TypeOK
<1>2. 1 \in 1..Len(cs) /\ call = cs[1] /\ Head(cs) = call
  BY <1>1
<1>3. \/ call.kind = "move" /\ Moved(r, call)
      \/ call.kind = "note" /\ Noted(r, call)
  BY <1>2 DEF Commit
<1>4. LegalCalls(r, cs)
  BY DEF Inv, SectionLegal
<1>5. call.kind = "note" => cs # Opening
  BY <1>2 DEF Opening, Move
<1> HIDE DEF r, cs, call
<1>6. CASE call.kind = "move"
  <2>1. /\ Lifecycle(call.from, call.to)
        /\ call.to = "queued" => status[r] = "none"
        /\ call.to = "running" => status[r] = "queued"
    BY <1>2, <1>4, <1>6 DEF LegalCalls
  <2>2. CASE status[r] # call.from
    BY <1>3, <1>6, <2>2 DEF Moved
  <2>3. CASE status[r] = call.from
    <3>1. /\ status' = [status EXCEPT ![r] = call.to]
          /\ journal' = IF call.to \in TerminalStatus
                        THEN [journal EXCEPT ![r] = Append(@, TerminalEvent(call.to))]
                        ELSE journal
      BY <1>3, <1>6, <2>3 DEF Moved
    <3>2. CASE call.to = "queued"
      <4>1. History!Admit(r)
        BY <2>1, <3>1, <3>2 DEF History!Admit
      <4> QED BY <1>1, <4>1 DEF History!Next
    <3>3. CASE call.to = "running"
      <4>1. History!Begin(r)
        BY <2>1, <3>1, <3>3 DEF History!Begin
      <4> QED BY <1>1, <4>1 DEF History!Next
    <3>4. CASE call.to \in TerminalStatus
      <4>1. status[r] \in ActiveStatus /\ (call.to = "completed" => status[r] = "running")
        BY <2>1, <2>3, <3>4 DEF Lifecycle
      <4>2. History!Settle(r, call.to)
        BY <3>1, <3>4, <4>1, TerminalEventKind DEF History!Settle, History!Record
      <4> QED BY <1>1, <3>4, <4>2 DEF History!Next
    <3> QED BY <2>1, <3>2, <3>3, <3>4 DEF Lifecycle
  <2> QED BY <2>2, <2>3
<1>7. CASE call.kind = "note"
  <2>1. /\ status[r] # "none"
        /\ call.event = "cancelled" => status[r] \in ActiveStatus
        /\ call.event \in {"started", "output", "retry"} => status[r] = "running"
    BY <1>2, <1>4, <1>5, <1>7 DEF LegalCalls
  <2>2. journal' = [journal EXCEPT ![r] = Append(@, call.event)] /\ UNCHANGED status
    BY <1>3, <1>7 DEF Noted
  <2>3. call.event \in NoticeKind /\ status[r] \in Status
    BY <1>1, <1>7 DEF Call
  <2>4. CASE status[r] \in ActiveStatus
    <3>1. History!Note(r, call.event)
      BY <2>1, <2>2, <2>4 DEF History!Note, History!Record
    <3> QED BY <1>1, <2>3, <3>1 DEF History!Next
  <2>5. CASE status[r] \in TerminalStatus
    <3>1. call.event = "warning"
      BY <2>1, <2>3, <2>5 DEF NoticeKind
    <3>2. History!LateWarning(r)
      BY <2>2, <2>5, <3>1 DEF History!LateWarning, History!Record
    <3> QED BY <1>1, <3>2 DEF History!Next
  <2> QED BY <2>1, <2>3, <2>4, <2>5 DEF Status
<1> QED BY <1>3, <1>6, <1>7

(* Every other step leaves the registry alone. *)
LEMMA StepIsHistory ==
  ASSUME TypeOK, Inv, [Next]_vars  PROVE [History!Next]_History!history
<1>1. CASE Commit
  BY <1>1, CommitIsHistory DEF durable, History!history
<1>2. CASE UNCHANGED durable
  BY <1>2 DEF durable, History!history
<1>3. CASE Next /\ ~Commit
  <2>1. \A r \in Runs : Drive(r) => UNCHANGED durable
    BY DEF Drive, Enter, Acquire, FirstEventTimeout, RetryCreated, RetryCreateFails,
           StreamEnds, StreamFails, Interrupt, RetryClosed, Closed, FailClosed, CancelClosed
  <2>2. \A r \in Runs : Yield(r) \/ StopNext(r) \/ Recover(r) => UNCHANGED durable
    BY DEF Yield, Activity, Output, Fault, StopNext, Recover
  <2>3. \A c \in Clients : Continue(c) => UNCHANGED durable
    BY DEF Continue, StartLocked, Created, CreateFails
  <2>4. \A c \in Clients, r \in Runs : Request(c, r) => UNCHANGED durable
    BY DEF Request, Start, CancelQueued, CancelActive
  <2>5. \A c \in Callers : Await(c) => UNCHANGED durable
    BY DEF Await, Awaited, UnstartedClosed
  <2>6. Stop \/ Stopped \/ Crash \/ Serve => UNCHANGED durable
    BY DEF Stop, Stopped, Crash, Serve
  <2> QED BY <1>2, <1>3, <2>1, <2>2, <2>3, <2>4, <2>5, <2>6 DEF Next, Restart
<1> QED BY <1>1, <1>2, <1>3 DEF vars

(***************************************************************************)
(* Whatever clients, drivers, aclose, crashes and restarts do, the registry *)
(* moves as RunHistory allows.                                              *)
(***************************************************************************)
THEOREM CoordinatorImplementsHistory == Spec => HistorySpec
<1>1. Init => History!Init
  BY DEF Init, History!Init
<1>2. TypeOK /\ Inv /\ [Next]_vars => [History!Next]_History!history
  BY StepIsHistory
<1> QED BY <1>1, <1>2, TypeCorrect, Invariance, PTL DEF Spec, HistorySpec, History!Spec
-----------------------------------------------------------------------------
(* What History!Consistent says of one run. *)
Told(r) ==
  /\ status[r] = "none" => journal[r] = <<>>
  /\ status[r] \in ActiveStatus => History!Endings(r) = {}
  /\ status[r] \in TerminalStatus =>
       \E i \in History!Endings(r) :
         /\ journal[r][i] = TerminalEvent(status[r])
         /\ History!Endings(r) = {i}
         /\ \A j \in i+1..Len(journal[r]) : journal[r][j] = "warning"

LEMMA ConsistentStep ==
  ASSUME TypeOK, HistoryConsistent, [History!Next]_History!history
  PROVE  HistoryConsistent'
<1> SUFFICES ASSUME NEW q \in Runs  PROVE Told(q)'
  BY TerminalEventKind DEF HistoryConsistent, History!Consistent, Told
<1>1. Told(q) /\ journal \in [Runs -> Seq(Kind)] /\ status \in [Runs -> Status]
  BY TerminalEventKind DEF HistoryConsistent, History!Consistent, Told, TypeOK
<1>2. CASE status'[q] = status[q] /\ journal'[q] = journal[q]
  <2>1. History!Endings(q)' = History!Endings(q)
    BY <1>2 DEF History!Endings
  <2> QED BY <1>1, <1>2, <2>1 DEF Told
<1> DEFINE n == Len(journal[q])
<1>3. n \in Nat /\ journal[q] \in Seq(Kind)
  BY <1>1
<1>4. ASSUME NEW k, journal'[q] = Append(journal[q], k)
      PROVE  /\ Len(journal'[q]) = n + 1 /\ journal'[q][n+1] = k
             /\ \A i \in 1..n : journal'[q][i] = journal[q][i]
             /\ History!Endings(q)' = History!Endings(q) \cup
                                        (IF k \in TerminalKind THEN {n+1} ELSE {})
  <2>1. /\ Len(journal'[q]) = n + 1 /\ journal'[q][n+1] = k
        /\ \A i \in 1..n : journal'[q][i] = journal[q][i]
    BY <1>3, <1>4
  <2>2. 1..n+1 = 1..n \cup {n+1}
    BY <1>3
  <2> HIDE DEF n
  <2>3. History!Endings(q)' = {i \in 1..n+1 : journal'[q][i] \in TerminalKind}
    BY <2>1 DEF History!Endings
  <2>4. History!Endings(q) = {i \in 1..n : journal[q][i] \in TerminalKind}
    BY DEF History!Endings, n
  <2> QED BY <2>1, <2>2, <2>3, <2>4
<1>5. ASSUME NEW k \in NoticeKind, History!Note(q, k)  PROVE Told(q)'
  <2>1. status'[q] = status[q] /\ status[q] \in ActiveStatus
        /\ journal'[q] = Append(journal[q], k)
    BY <1>1, <1>5 DEF History!Note, History!Record
  <2>2. History!Endings(q)' = {}
    BY <1>1, <1>4, <2>1, TerminalEventKind DEF Told
  <2> QED BY <2>1, <2>2 DEF Told
<1>6. ASSUME NEW st \in TerminalStatus, History!Settle(q, st)  PROVE Told(q)'
  <2>1. status'[q] = st /\ status[q] \in ActiveStatus
        /\ journal'[q] = Append(journal[q], TerminalEvent(st))
    BY <1>1, <1>6, TerminalEventKind DEF History!Settle, History!Record
  <2>2. History!Endings(q)' = {n+1} /\ journal'[q][n+1] = TerminalEvent(st)
        /\ Len(journal'[q]) = n + 1
    BY <1>1, <1>4, <2>1, TerminalEventKind DEF Told
  <2>3. \A j \in (n+1)+1..n+1 : FALSE
    BY <1>3
  <2> QED BY <2>1, <2>2, <2>3 DEF Told
<1>7. ASSUME History!LateWarning(q)  PROVE Told(q)'
  <2>1. status'[q] = status[q] /\ status[q] \in TerminalStatus
        /\ journal'[q] = Append(journal[q], "warning")
    BY <1>1, <1>7 DEF History!LateWarning, History!Record
  <2>2. PICK i \in History!Endings(q) :
           /\ journal[q][i] = TerminalEvent(status[q])
           /\ History!Endings(q) = {i}
           /\ \A j \in i+1..n : journal[q][j] = "warning"
    BY <1>1, <2>1 DEF Told
  <2>3. History!Endings(q)' = {i} /\ i \in 1..n
    BY <1>4, <2>1, <2>2 DEF TerminalKind, History!Endings
  <2>4. \A j \in i+1..n+1 : journal'[q][j] = "warning"
    <3>1. \A j \in i+1..n+1 : j \in i+1..n \/ j = n+1
      BY <1>3, <2>3
    <3>2. \A j \in i+1..n : j \in 1..n
      BY <1>3, <2>3
    <3> HIDE DEF n
    <3> QED BY <1>4, <2>1, <2>2, <3>1, <3>2
  <2> QED BY <1>4, <2>1, <2>2, <2>3, <2>4 DEF Told
<1>8. CASE \E r \in Runs : History!Admit(r) \/ History!Begin(r)
  <2>1. PICK r \in Runs : History!Admit(r) \/ History!Begin(r)
    BY <1>8
  <2>2. CASE q # r
    BY <1>1, <1>2, <2>1, <2>2 DEF History!Admit, History!Begin
  <2>3. CASE q = r
    <3>1. journal'[q] = journal[q] /\ History!Endings(q)' = History!Endings(q)
      BY <2>1 DEF History!Admit, History!Begin, History!Endings
    <3>2. status'[q] \in ActiveStatus /\ status[q] \in {"none", "queued"}
      BY <1>1, <2>1, <2>3 DEF History!Admit, History!Begin
    <3>3. journal[q] = <<>> => History!Endings(q) = {}
      BY DEF History!Endings
    <3> QED BY <1>1, <3>1, <3>2, <3>3 DEF Told
  <2> QED BY <2>2, <2>3
<1>9. CASE \E r \in Runs : r # q /\ (\/ \E k \in NoticeKind : History!Note(r, k)
                                    \/ \E st \in TerminalStatus : History!Settle(r, st)
                                    \/ History!LateWarning(r))
  BY <1>1, <1>2, <1>9 DEF History!Note, History!Settle, History!LateWarning, History!Record
<1>10. CASE UNCHANGED History!history
  BY <1>2, <1>10 DEF History!history
<1> QED BY <1>5, <1>6, <1>7, <1>8, <1>9, <1>10 DEF History!Next

(***************************************************************************)
(* Record and history agree between any two registry calls: a terminal      *)
(* status has its terminal event, an active one has none, and only warnings *)
(* follow the terminal event.                                               *)
(***************************************************************************)
THEOREM HistoriesConsistent == Spec => []HistoryConsistent
<1>1. Init => HistoryConsistent
  BY DEF Init, HistoryConsistent, History!Consistent, History!Endings
<1>2. TypeOK /\ Inv /\ HistoryConsistent /\ [Next]_vars => HistoryConsistent'
  BY StepIsHistory, ConsistentStep
<1> QED BY <1>1, <1>2, TypeCorrect, Invariance, PTL DEF Spec
=============================================================================
