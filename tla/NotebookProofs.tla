---------------------------- MODULE NotebookProofs ----------------------------
(***************************************************************************)
(* Theorems about Notebook, for any cells and any number of restarts:      *)
(* types and the lock, the kernel in which a cell runs, and the drawing of *)
(* a closed notebook.                                                      *)
(***************************************************************************)
EXTENDS Notebook, WellFoundedInduction, SequenceTheorems, TLAPS

Status == {"none", "ok", "error", "timeout", "blocked", "lost"}

(* A call as its coroutine and its thread see it. *)
CallShape == [stage : Stage, start : Nat, epoch : Nat, plan : SUBSET Cells,
              status : Status,
              mark : Nat, awaited : BOOLEAN]
LogEvent == [kind : Kinds, cell : Cells \cup {Nobody}, epoch : Nat]

Typed ==
    /\ process \in {"running", "cancelled", "closing", "closed", "down"}
    /\ starts \in 1..MaxStarts
    /\ epochs \in Nat /\ epoch \in 0..epochs /\ restored \in 0..epochs
    /\ namespace \subseteq Cells /\ effects \subseteq Cells
    /\ log \in Seq(LogEvent)
    /\ \A i \in DOMAIN log : log[i].epoch \in 0..epochs
    /\ book \in 0..Len(log)
    /\ cells \in [Cells -> CallShape]
    /\ \A c \in Cells : cells[c].epoch \in 0..epochs /\ cells[c].mark \in 0..Len(log)
    /\ alone \in BOOLEAN

(* The lock is held by the call whose cell runs. *)
Locked == \A c \in Cells : cells[c].stage \in Held <=> holder = c

(* A call is awaited by its coroutine as long as its run has not been
   cancelled, and a process that is down has none under way. *)
Awaited ==
    /\ \A c \in Cells : cells[c].stage = "idle" => cells[c].awaited
    /\ process = "running" => \A c \in Busy : cells[c].awaited
    /\ process # "running" => \A c \in Busy : ~cells[c].awaited
    /\ process \in {"closing", "closed"} /\ (\A c \in Cells : cells[c].awaited) => Busy = {}
    /\ process = "down" => Busy = {} /\ epoch = 0 /\ namespace = {} /\ restored = 0

(* Where a call is on its way through the kernel. *)
Opened    == {"opening", "restoring", "submitting", "drawing", "queued", "running", "calling"}
Drawn == {"drawing", "queued", "running", "calling", "returned", "resetting", "ending",
              "redrawing", "recording"}

(* A cell that has completed was added, and only such are replayed. *)
WasAdded == \A c \in Cells :
    /\ Has("completed", c) \/ cells[c].stage \in Drawn => Has("added", c)
    /\ cells[c].stage = "restoring" => cells[c].plan # {} /\ cells[c].plan \subseteq Replayable

(* Calls are made one at a time in a process that goes on. *)
Quiet == alone /\ process = "running"

Single == alone => \A c, d \in Busy : c = d

(* The kernel holds what its history says. *)
Clean == \A d \in namespace :
    \/ Has("completed", d)
    \/ cells[d].stage \in {"returned", "resetting"} /\ cells[d].status \in {"ok", "error"}
    \/ cells[d].stage = "ending" /\ cells[d].status = "ok"

Restored == epoch # 0 /\ restored = epoch => Replayable \subseteq namespace

EnteredBy(c) ==
    LET cell == cells[c] IN
    /\ cell.stage \in Opened => epoch = cell.epoch /\ epoch # 0
    /\ cell.stage \in {"drawing", "queued", "running", "calling"} => restored = epoch
    /\ cell.stage = "submitting" => Replayable \subseteq namespace
    /\ cell.stage = "restoring" => Replayable \subseteq namespace \cup cell.plan
    /\ cell.stage \in {"returned", "ending"} /\ cell.status = "ok" => c \in namespace
    /\ cell.stage = "resetting" => cell.status = "error"

Entered == \A c \in Cells : EnteredBy(c)

Faithful == Quiet => Clean /\ Restored /\ Entered

Sound ==
    Typed /\ Locked /\ Awaited /\ WasAdded /\ Single /\ Faithful /\ ClosedBookIsCurrent

-----------------------------------------------------------------------------
(* Calls and events.                                                       *)

USE NotebookAssumption

(* One call changes: the fields that an action names, and no other call. *)
Changed(c, cell) == cells' = [cells EXCEPT ![c] = cell]

LEMMA ChangedCall ==
    ASSUME cells \in [Cells -> CallShape], NEW c \in Cells, NEW cell \in CallShape,
           Changed(c, cell)
    PROVE  /\ cells' \in [Cells -> CallShape]
           /\ cells'[c] = cell
           /\ \A d \in Cells : d # c => cells'[d] = cells[d]
BY DEF Changed

LEMMA CallFields ==
    ASSUME NEW cell \in CallShape
    PROVE  /\ cell.stage \in Stage /\ cell.start \in Nat /\ cell.epoch \in Nat
           /\ cell.plan \in SUBSET Cells /\ cell.mark \in Nat
           /\ cell.status \in Status
           /\ cell.awaited \in BOOLEAN
BY DEF CallShape

(* The updates that the actions make. *)
AtStage(cell, st) == [cell EXCEPT !.stage = st]
AtStart(cell, st, n) == [cell EXCEPT !.stage = st, !.start = n]
AtEpoch(cell, st, n) == [cell EXCEPT !.stage = st, !.epoch = n]
AtMark(cell, st, n) == [cell EXCEPT !.stage = st, !.mark = n]
AtPlan(cell, st, p) == [cell EXCEPT !.plan = p, !.stage = st]
AtStatus(cell, st, t) == [cell EXCEPT !.stage = st, !.status = t]

LEMMA AtStageFields ==
    ASSUME NEW cell \in CallShape, NEW st \in Stage
    PROVE  LET new == AtStage(cell, st) IN
           /\ new \in CallShape /\ new.stage = st /\ new.awaited = cell.awaited
           /\ new.epoch = cell.epoch /\ new.plan = cell.plan /\ new.status = cell.status
           /\ new.mark = cell.mark /\ new.start = cell.start
BY DEF CallShape, AtStage

LEMMA AtStartFields ==
    ASSUME NEW cell \in CallShape, NEW st \in Stage, NEW n \in Nat
    PROVE  LET new == AtStart(cell, st, n) IN
           /\ new \in CallShape /\ new.stage = st /\ new.awaited = cell.awaited
           /\ new.epoch = cell.epoch /\ new.plan = cell.plan /\ new.status = cell.status
           /\ new.mark = cell.mark /\ new.start = n
BY DEF CallShape, AtStart

LEMMA AtEpochFields ==
    ASSUME NEW cell \in CallShape, NEW st \in Stage, NEW n \in Nat
    PROVE  LET new == AtEpoch(cell, st, n) IN
           /\ new \in CallShape /\ new.stage = st /\ new.awaited = cell.awaited
           /\ new.epoch = n /\ new.plan = cell.plan /\ new.status = cell.status
           /\ new.mark = cell.mark /\ new.start = cell.start
BY DEF CallShape, AtEpoch

LEMMA AtMarkFields ==
    ASSUME NEW cell \in CallShape, NEW st \in Stage, NEW n \in Nat
    PROVE  LET new == AtMark(cell, st, n) IN
           /\ new \in CallShape /\ new.stage = st /\ new.awaited = cell.awaited
           /\ new.epoch = cell.epoch /\ new.plan = cell.plan /\ new.status = cell.status
           /\ new.mark = n /\ new.start = cell.start
BY DEF CallShape, AtMark

LEMMA AtPlanFields ==
    ASSUME NEW cell \in CallShape, NEW st \in Stage, NEW p \in SUBSET Cells
    PROVE  LET new == AtPlan(cell, st, p) IN
           /\ new \in CallShape /\ new.stage = st /\ new.awaited = cell.awaited
           /\ new.epoch = cell.epoch /\ new.plan = p /\ new.status = cell.status
           /\ new.mark = cell.mark /\ new.start = cell.start
BY DEF CallShape, AtPlan

LEMMA AtStatusFields ==
    ASSUME NEW cell \in CallShape, NEW st \in Stage, NEW t \in Status
    PROVE  LET new == AtStatus(cell, st, t) IN
           /\ new \in CallShape /\ new.stage = st /\ new.awaited = cell.awaited
           /\ new.epoch = cell.epoch /\ new.plan = cell.plan /\ new.status = t
           /\ new.mark = cell.mark /\ new.start = cell.start
BY DEF CallShape, AtStatus

(* Which events a longer log has. *)
HasIn(events, kind, c) ==
    \E i \in DOMAIN events : events[i].kind = kind /\ events[i].cell = c

LEMMA HasAppend ==
    ASSUME NEW events \in Seq(LogEvent), NEW e \in LogEvent
    PROVE  /\ Append(events, e) \in Seq(LogEvent)
           /\ Len(Append(events, e)) = Len(events) + 1
           /\ \A n \in Nat : (\A i \in DOMAIN events : events[i].epoch \in 0..n)
                                 /\ e.epoch \in 0..n
                             => \A i \in DOMAIN Append(events, e) :
                                    Append(events, e)[i].epoch \in 0..n
           /\ \A kind, c : HasIn(Append(events, e), kind, c)
                <=> HasIn(events, kind, c) \/ (e.kind = kind /\ e.cell = c)
<1> DEFINE v == Append(events, e)
<1>1. /\ Len(events) \in Nat /\ DOMAIN v = 1..(Len(events) + 1)
      /\ DOMAIN events = 1..Len(events)
      /\ \A i \in DOMAIN events : v[i] = events[i]
      /\ v[Len(events) + 1] = e
      /\ v \in Seq(LogEvent) /\ Len(v) = Len(events) + 1
  BY AppendProperties, LenProperties
<1> HIDE DEF v
<1>2. \A i \in DOMAIN v : i \in DOMAIN events \/ i = Len(events) + 1
  BY <1>1
<1>3. \A i \in DOMAIN events : i \in DOMAIN v
  BY <1>1
<1>4. Len(events) + 1 \in DOMAIN v
  BY <1>1
<1>5. \A kind, c : HasIn(v, kind, c)
                <=> HasIn(events, kind, c) \/ (e.kind = kind /\ e.cell = c)
  BY <1>1, <1>2, <1>3, <1>4 DEF HasIn
<1>6. \A n \in Nat : (\A i \in DOMAIN events : events[i].epoch \in 0..n) /\ e.epoch \in 0..n
                     => \A i \in DOMAIN v : v[i].epoch \in 0..n
  BY <1>1, <1>2
<1> QED BY <1>1, <1>5, <1>6 DEF v

LEMMA EventTyped ==
    ASSUME NEW kind \in Kinds, NEW c \in Cells \cup {Nobody}, NEW n \in Nat
    PROVE  /\ Event(kind, c, n) \in LogEvent
           /\ Event(kind, c, n).kind = kind /\ Event(kind, c, n).cell = c
           /\ Event(kind, c, n).epoch = n
BY DEF Event, LogEvent

(* A nonempty set of positions has a last one. *)
LEMMA LastPosition ==
    ASSUME NEW n \in Nat, NEW S \in SUBSET (1..n), S # {}
    PROVE  \E i \in S : \A j \in S : j <= i
<1> DEFINE Less == {ss \in Nat \X Nat : ss[1] < ss[2]}
           D == {n - i : i \in S}
<1>1. IsWellFoundedOn(Less, Nat)
  BY NatLessThanWellFounded DEF OpToRel
<1>2. D \in SUBSET Nat /\ D # {}
  <2>1. \A i \in S : n - i \in Nat
    OBVIOUS
  <2>2. PICK i \in S : TRUE
    OBVIOUS
  <2>3. n - i \in D
    BY <2>2
  <2> QED BY <2>1, <2>3
<1>3. \E m \in D : \A k \in D : ~(<<k, m>> \in Less)
  <2> HIDE DEF D, Less
  <2> QED BY <1>1, <1>2, WFMin
<1>4. PICK m \in D : \A k \in D : ~(<<k, m>> \in Less)
  BY <1>3
<1>5. PICK i \in S : m = n - i
  BY <1>4
<1>6. ASSUME NEW j \in S PROVE j <= i
  <2>1. n - j \in D /\ n - j \in Nat /\ m \in Nat
    BY <1>2
  <2>2. ~(n - j < m)
    BY <1>4, <2>1
  <2> QED BY <1>5, <2>2
<1> QED BY <1>6

LEMMA WatermarkTyped ==
    ASSUME NEW events \in Seq(LogEvent)
    PROVE  Watermark(events) \in 0..Len(events)
<1> DEFINE marks == {i \in DOMAIN events : events[i].kind \in Marked}
<1>1. Len(events) \in Nat /\ marks \in SUBSET (1..Len(events))
  BY LenProperties
<1>2. CASE marks = {}
  BY <1>1, <1>2 DEF Watermark
<1>3. CASE marks # {}
  <2>1. \E i \in marks : \A j \in marks : j <= i
    BY <1>1, <1>3, LastPosition
  <2>2. Watermark(events) = CHOOSE i \in marks : \A j \in marks : j <= i
    BY <1>3 DEF Watermark
  <2> HIDE DEF marks
  <2>3. Watermark(events) \in marks
    BY <2>1, <2>2
  <2>4. Watermark(events) \in 1..Len(events)
    BY <1>1, <2>3
  <2> QED BY <1>1, <2>4
<1> QED BY <1>2, <1>3

(* A snapshot does not move the watermark. *)
LEMMA WatermarkKept ==
    ASSUME NEW events \in Seq(LogEvent), NEW e \in LogEvent, e.kind \notin Marked
    PROVE  Watermark(Append(events, e)) = Watermark(events)
<1> DEFINE v == Append(events, e)
<1>1. /\ Len(events) \in Nat /\ DOMAIN v = 1..(Len(events) + 1)
      /\ DOMAIN events = 1..Len(events)
      /\ \A i \in DOMAIN events : v[i] = events[i]
      /\ v[Len(events) + 1] = e
  BY AppendProperties, LenProperties
<1> HIDE DEF v
<1>2. {i \in DOMAIN v : v[i].kind \in Marked} = {i \in DOMAIN events : events[i].kind \in Marked}
  <2> HIDE DEF Marked
  <2> QED BY <1>1
<1> DEFINE Marks(u) == {i \in DOMAIN u : u[i].kind \in Marked}
           Latest(m) == IF m = {} THEN 0 ELSE CHOOSE i \in m : \A j \in m : j <= i
<1>3. Watermark(v) = Latest(Marks(v)) /\ Watermark(events) = Latest(Marks(events))
  BY DEF Watermark
<1>4. Marks(v) = Marks(events)
  BY <1>2
<1> HIDE DEF Marks, Latest
<1>5. Watermark(v) = Watermark(events)
  BY <1>3, <1>4
<1> QED BY <1>5 DEF v

-----------------------------------------------------------------------------
(* One step of one call.                                                   *)

Moved(c) ==
    /\ cells' \in [Cells -> CallShape]
    /\ \A d \in Cells : d # c => cells'[d] = cells[d]
    /\ cells'[c].awaited = cells[c].awaited /\ cells'[c].start = cells[c].start
    /\ cells'[c].stage # "idle"

StepFrame(c) ==
    /\ process' = process /\ starts' = starts /\ alone' = alone
    /\ Moved(c) /\ c \in Busy

LEMMA TypedFacts ==
    ASSUME Typed, NEW c \in Cells
    PROVE  /\ cells[c] \in CallShape /\ cells[c].epoch \in Nat /\ cells[c].mark \in Nat
           /\ cells[c].epoch \in 0..epochs /\ cells[c].mark \in 0..Len(log)
           /\ cells[c].stage \in Stage /\ cells[c].awaited \in BOOLEAN
           /\ cells[c].plan \in SUBSET Cells
           /\ Len(log) \in Nat /\ epochs \in Nat /\ epoch \in Nat
BY CallFields, LenProperties DEF Typed

LEMMA TypedStep ==
    ASSUME Typed, NEW c \in Cells, StepFrame(c),
           epochs' \in Nat, epochs <= epochs', epoch' \in 0..epochs',
           restored' \in 0..epochs',
           namespace' \subseteq Cells, effects' \subseteq Cells,
           log' \in Seq(LogEvent), Len(log) <= Len(log'),
           \A i \in DOMAIN log' : log'[i].epoch \in 0..epochs',
           book' \in 0..Len(log'),
           cells'[c].epoch \in 0..epochs', cells'[c].mark \in 0..Len(log')
    PROVE  Typed'
<1>1. ASSUME NEW d \in Cells
      PROVE  cells'[d].epoch \in 0..epochs' /\ cells'[d].mark \in 0..Len(log')
  <2>1. CASE d = c
    BY <2>1
  <2>2. CASE d # c
    <3>1. cells'[d] = cells[d] /\ cells[d].epoch \in 0..epochs /\ cells[d].mark \in 0..Len(log)
      BY <2>2 DEF StepFrame, Moved, Typed
    <3>2. Len(log) \in Nat /\ Len(log') \in Nat /\ epochs \in Nat
      BY TypedFacts, LenProperties
    <3> QED BY <3>1, <3>2
  <2> QED BY <2>1, <2>2
<1>2. cells' \in [Cells -> CallShape]
  BY DEF StepFrame, Moved
<1>3. /\ process' \in {"running", "cancelled", "closing", "closed", "down"}
      /\ starts' \in 1..MaxStarts /\ alone' \in BOOLEAN
  BY DEF StepFrame, Typed
<1> QED BY <1>1, <1>2, <1>3 DEF Typed

(* What the others do meanwhile: nothing, when calls are made one at a     *)
(* time.                                                                   *)
LEMMA FrameKept ==
    ASSUME Typed, Awaited, Single, NEW c \in Cells, StepFrame(c)
    PROVE  /\ Awaited' /\ Single' /\ Quiet' = Quiet /\ ClosedBookIsCurrent'
           /\ Quiet => cells[c].awaited /\ \A d \in Cells : d # c => cells[d].stage \in {"idle", "done"}
<1>1. /\ cells[c].stage \notin {"idle", "done"}
      /\ \A d \in Cells : d # c => cells'[d] = cells[d]
      /\ cells'[c].awaited = cells[c].awaited
      /\ process' = process /\ alone' = alone
  BY DEF StepFrame, Moved, Busy
<1>2. Busy' \subseteq Busy /\ c \in Busy
  BY <1>1 DEF Busy, StepFrame
<1>3. process # "down"
  BY <1>2 DEF Awaited
<1>4. \A d \in Cells : cells'[d].awaited = cells[d].awaited
  BY <1>1
<1>5. Awaited'
  <2>1. Busy \subseteq Cells
    BY DEF Busy
  <2> HIDE DEF Busy
  <2>2. process' = "running" => \A d \in Busy' : cells'[d].awaited
    BY <1>1, <1>2, <1>4, <2>1 DEF Awaited
  <2>3. process' # "running" => \A d \in Busy' : ~cells'[d].awaited
    BY <1>1, <1>2, <1>4, <2>1 DEF Awaited
  <2>4. ~(process' \in {"closing", "closed"} /\ \A d \in Cells : cells'[d].awaited)
    BY <1>1, <1>2, <1>4, <2>1 DEF Awaited
  <2>5. \A d \in Cells : cells'[d].stage = "idle" => cells'[d].awaited
    <3>1. cells'[c].stage # "idle"
      BY DEF StepFrame, Moved
    <3> QED BY <1>1, <3>1 DEF Awaited
  <2> QED BY <1>1, <1>3, <2>2, <2>3, <2>4, <2>5 DEF Awaited
<1>6. Single'
  BY <1>1, <1>2 DEF Single
<1>7. Quiet' = Quiet
  BY <1>1 DEF Quiet
<1>8. ASSUME Quiet
      PROVE  cells[c].awaited /\ \A d \in Cells : d # c => cells[d].stage \in {"idle", "done"}
  <2>1. cells[c].awaited
    BY <1>2, <1>8 DEF Quiet, Awaited
  <2>2. ASSUME NEW d \in Cells, d # c PROVE cells[d].stage \in {"idle", "done"}
    BY <1>2, <1>8, <2>2 DEF Quiet, Single, Busy
  <2> QED BY <2>1, <2>2
<1>9. ClosedBookIsCurrent'
  <2>1. process' \in {"closing", "closed"} => ~cells'[c].awaited
    BY <1>1, <1>2 DEF Awaited
  <2> QED BY <2>1 DEF ClosedBookIsCurrent
<1> QED BY <1>5, <1>6, <1>7, <1>8, <1>9

(* What is left to show of a step: what concerns the call that makes it.   *)
LEMMA FaithfulStep ==
    ASSUME Typed, Awaited, Single, NEW c \in Cells, StepFrame(c),
           Quiet => Clean' /\ Restored' /\ EnteredBy(c)'
    PROVE  Faithful'
<1> SUFFICES ASSUME Quiet' PROVE Entered' /\ Clean' /\ Restored'
  BY DEF Faithful
<1>1. Quiet /\ \A d \in Cells : d # c => cells'[d].stage \in {"idle", "done"}
  BY FrameKept DEF StepFrame, Moved
<1>2. ASSUME NEW d \in Cells PROVE EnteredBy(d)'
  <2>1. CASE d = c
    BY <1>1, <2>1
  <2>2. CASE d # c
    BY <1>1, <2>2 DEF EnteredBy, Opened
  <2> QED BY <2>1, <2>2
<1> QED BY <1>1, <1>2 DEF Entered

LEMMA LockedStep ==
    ASSUME Typed, Locked, NEW c \in Cells, StepFrame(c), holder' = holder,
           cells'[c].stage \in Held <=> cells[c].stage \in Held
    PROVE  Locked'
BY DEF Locked, StepFrame, Moved

(* The events stay the same. *)
LEMMA SameLog ==
    ASSUME log' = log
    PROVE  /\ \A kind, c : Has(kind, c)' <=> Has(kind, c)
           /\ Replayable' = Replayable
<1>1. \A kind, c : Has(kind, c)' <=> Has(kind, c)
  BY DEF Has
<1> QED BY <1>1 DEF Replayable

LEMMA WasAddedSame ==
    ASSUME WasAdded, log' = log, NEW c \in Cells, StepFrame(c),
           cells'[c].stage \in Drawn => cells[c].stage \in Drawn,
           cells'[c].stage = "restoring"
             => cells'[c].plan # {} /\ cells'[c].plan \subseteq Replayable
    PROVE  WasAdded'
BY SameLog DEF WasAdded, StepFrame, Moved

(* An event is added. *)
LEMMA LongerLog ==
    ASSUME Typed, NEW e \in LogEvent, log' = Append(log, e), e.epoch \in 0..epochs
    PROVE  /\ log' \in Seq(LogEvent) /\ Len(log') = Len(log) + 1
           /\ \A i \in DOMAIN log' : log'[i].epoch \in 0..epochs
           /\ \A kind, c : Has(kind, c)' <=> Has(kind, c) \/ (e.kind = kind /\ e.cell = c)
           /\ e.kind # "completed" => Replayable' = Replayable
           /\ Replayable \subseteq Replayable'
           /\ \A d \in Replayable' : d \in Replayable \/ d = e.cell
<1>1. \A kind, c : HasIn(log, kind, c) <=> Has(kind, c)
  BY DEF HasIn, Has
<1>2. \A kind, c : HasIn(log', kind, c) <=> Has(kind, c)'
  BY DEF HasIn, Has
<1>3. log \in Seq(LogEvent) /\ epochs \in Nat /\ \A i \in DOMAIN log : log[i].epoch \in 0..epochs
  BY DEF Typed
<1>4. \A kind, c : Has(kind, c)' <=> Has(kind, c) \/ (e.kind = kind /\ e.cell = c)
  BY <1>1, <1>2, <1>3, HasAppend
<1> QED BY <1>3, <1>4, HasAppend DEF Replayable

LEMMA WasAddedMore ==
    ASSUME Typed, WasAdded, NEW c \in Cells, StepFrame(c),
           NEW e \in LogEvent, log' = Append(log, e), e.epoch \in 0..epochs,
           e.kind = "completed" => e.cell = c,
           cells[c].stage \in Drawn, cells'[c].stage # "restoring"
    PROVE  WasAdded'
<1>1. Replayable \subseteq Replayable' /\ \A kind, d : Has(kind, d)' <=> Has(kind, d) \/ (e.kind = kind /\ e.cell = d)
  BY LongerLog
<1> QED BY <1>1 DEF WasAdded, StepFrame, Moved

LEMMA CombineStep ==
    ASSUME Sound, NEW c \in Cells, StepFrame(c), Typed', Locked', WasAdded',
           Quiet => Clean' /\ Restored' /\ EnteredBy(c)'
    PROVE  Sound'
BY FrameKept, FaithfulStep DEF Sound

(* The invariant as a step of call c needs it. *)
LEMMA QuietFacts ==
    ASSUME Sound, Quiet, NEW c \in Cells, c \in Busy
    PROVE  /\ Clean /\ Restored /\ EnteredBy(c) /\ cells[c].awaited
           /\ \A d \in Cells : d # c => cells[d].stage \in {"idle", "done"}
           /\ \A d \in namespace : d \in Cells /\ (d # c => Has("completed", d))
<1>1. Clean /\ Restored /\ EnteredBy(c)
  BY DEF Sound, Faithful, Entered
<1>2. cells[c].awaited
  BY DEF Sound, Quiet, Awaited
<1>3. \A d \in Cells : d # c => cells[d].stage \in {"idle", "done"}
  BY DEF Sound, Quiet, Single, Busy
<1>4. ASSUME NEW d \in namespace PROVE d \in Cells /\ (d # c => Has("completed", d))
  <2>1. d \in Cells
    BY DEF Sound, Typed
  <2> QED BY <1>1, <1>3, <2>1 DEF Clean
<1> QED BY <1>1, <1>2, <1>3, <1>4

LEMMA StepCall ==
    ASSUME Typed, NEW c \in Cells, NEW cell \in CallShape, Changed(c, cell),
           process' = process, starts' = starts, alone' = alone,
           cells[c].stage \notin {"idle", "done"}, cell.stage # "idle",
           cell.awaited = cells[c].awaited, cell.start = cells[c].start
    PROVE  StepFrame(c) /\ cells'[c] = cell
BY ChangedCall DEF Typed, StepFrame, Moved, Busy

LEMMA ReadEpochSound ==
    ASSUME Sound, NEW c \in Cells, ReadEpoch(c)
    PROVE  Sound'
<1> USE DEF kernel
<1> DEFINE st == IF cells[c].awaited THEN "opening" ELSE "done"
           new == AtEpoch(cells[c], st, Live)
<1>1. /\ Typed /\ Locked /\ WasAdded /\ cells[c].stage = "epoch" /\ holder' = holder
      /\ UNCHANGED <<process, starts, namespace, restored, log, book, effects, alone>>
      /\ epoch' = Live /\ epochs' = IF epoch = 0 THEN epochs + 1 ELSE epochs
  BY DEF Sound, ReadEpoch, Start
<1>2. /\ epochs \in Nat /\ epochs' \in Nat /\ epochs <= epochs' /\ restored \in 0..epochs
      /\ Live \in Nat /\ Live # 0 /\ Live \in 0..epochs'
      /\ (epoch = 0 => Live = epochs + 1) /\ (epoch # 0 => Live = epoch)
  BY <1>1 DEF Live, Typed
<1>3. Changed(c, new)
  BY <1>1 DEF ReadEpoch, Changed, AtEpoch
<1>4. cells[c] \in CallShape /\ st \in Stage /\ cells \in [Cells -> CallShape]
  BY <1>1 DEF Typed, Stage
<1>5. /\ new \in CallShape /\ new.stage = st /\ new.epoch = Live /\ new.mark = cells[c].mark
      /\ new.awaited = cells[c].awaited /\ new.start = cells[c].start
  BY <1>2, <1>4, AtEpochFields
<1> HIDE DEF new
<1>6. StepFrame(c) /\ cells'[c] = new
  BY <1>1, <1>3, <1>5, StepCall
<1>7. Typed'
  <2>1. /\ namespace \subseteq Cells /\ effects \subseteq Cells /\ log \in Seq(LogEvent)
        /\ book \in 0..Len(log) /\ cells[c].mark \in 0..Len(log) /\ Len(log) \in Nat
        /\ \A i \in DOMAIN log : log[i].epoch \in 0..epochs
    BY <1>1, TypedFacts DEF Typed
  <2>2. \A i \in DOMAIN log : log[i].epoch \in 0..epochs'
    BY <1>2, <2>1
  <2>3. restored' \in 0..epochs' /\ epoch' \in 0..epochs'
    BY <1>1, <1>2
  <2> QED BY <1>1, <1>2, <1>5, <1>6, <2>1, <2>2, <2>3, TypedStep, SMTT(20)
<1>8. Locked'
  BY <1>1, <1>5, <1>6, LockedStep DEF Held
<1>9. WasAdded'
  BY <1>1, <1>5, <1>6, WasAddedSame DEF Drawn
<1>10. ASSUME Quiet PROVE Clean' /\ Restored' /\ EnteredBy(c)'
  <2>1. /\ Clean /\ Restored /\ EnteredBy(c) /\ cells[c].awaited
        /\ \A d \in namespace : d \in Cells /\ (d # c => Has("completed", d))
    BY <1>6, <1>10, QuietFacts DEF StepFrame
  <2>2. Clean'
    <3>1. \A d \in namespace : Has("completed", d)
      BY <1>1, <2>1 DEF Clean
    <3> QED BY <1>1, <3>1, SameLog DEF Clean
  <2>3. Restored'
    BY <1>1, <1>2, <2>1, SameLog DEF Restored
  <2>4. EnteredBy(c)'
    BY <1>1, <1>2, <1>5, <1>6, <2>1 DEF EnteredBy, Opened
  <2> QED BY <2>2, <2>3, <2>4
<1> QED BY <1>6, <1>7, <1>8, <1>9, <1>10, CombineStep

(* The cell is added: the call draws the notebook next. *)
LEMMA SubmittedSound ==
    ASSUME Sound, NEW c \in Cells, NEW events \in Seq(LogEvent),
           events = log \/ \E e \in LogEvent : /\ e.kind = "restored" /\ e.epoch \in 0..epochs
                                               /\ events = Append(log, e),
           Submitted(c, events), cells[c].stage \in {"opening", "submitting"},
           Quiet => epoch = cells[c].epoch /\ epoch # 0 /\ Replayable \subseteq namespace,
           UNCHANGED <<process, starts, kernel, holder, book, effects, alone>>
    PROVE  Sound'
<1> USE DEF kernel
<1> DEFINE e == Event("added", c, cells[c].epoch)
           added == Append(events, e)
           new == AtMark(cells[c], "drawing", Watermark(added))
<1>1. Typed /\ Locked /\ WasAdded
  BY DEF Sound
<1>2. log' = added /\ restored' = cells[c].epoch /\ Changed(c, new)
  BY DEF Submitted, Changed, AtMark
<1>3. /\ cells[c] \in CallShape /\ cells[c].epoch \in 0..epochs /\ epochs \in Nat
      /\ cells \in [Cells -> CallShape] /\ Len(log) \in Nat
      /\ log \in Seq(LogEvent) /\ \A i \in DOMAIN log : log[i].epoch \in 0..epochs
  BY <1>1, TypedFacts DEF Typed
<1>4. /\ e \in LogEvent /\ e.kind = "added" /\ e.cell = c /\ e.epoch = cells[c].epoch
  BY <1>3, EventTyped DEF Kinds
<1> HIDE DEF e
<1>5. /\ Len(log) <= Len(events)
      /\ \A i \in DOMAIN events : events[i].epoch \in 0..epochs
      /\ \A kind, d : HasIn(log, kind, d) => HasIn(events, kind, d)
      /\ \A d : HasIn(events, "completed", d) => HasIn(log, "completed", d)
  <2>1. CASE events = log
    BY <1>3, <2>1
  <2>2. ASSUME NEW r \in LogEvent, r.kind = "restored", r.epoch \in 0..epochs,
               events = Append(log, r)
        PROVE  <1>5
    <3>1. Len(log) <= Len(events)
      BY <1>3, <2>2, HasAppend
    <3>2. \A i \in DOMAIN events : events[i].epoch \in 0..epochs
      BY <1>3, <2>2, HasAppend
    <3>3. \A kind, d : HasIn(events, kind, d)
                         <=> HasIn(log, kind, d) \/ (r.kind = kind /\ r.cell = d)
      BY <1>3, <2>2, HasAppend
    <3> QED BY <2>2, <3>1, <3>2, <3>3
  <2> QED BY <2>1, <2>2
<1>6. /\ added \in Seq(LogEvent) /\ Len(log) <= Len(added)
      /\ \A i \in DOMAIN added : added[i].epoch \in 0..epochs
      /\ \A kind, d : HasIn(added, kind, d)
                        <=> HasIn(events, kind, d) \/ (e.kind = kind /\ e.cell = d)
  <2>1. Len(events) \in Nat
    BY LenProperties
  <2> QED BY <1>3, <1>4, <1>5, <2>1, HasAppend
<1> HIDE DEF added
<1>7. Watermark(added) \in 0..Len(added) /\ Len(added) \in Nat /\ Watermark(added) \in Nat
  BY <1>6, WatermarkTyped, LenProperties
<1>8. /\ new \in CallShape /\ new.stage = "drawing" /\ new.epoch = cells[c].epoch
      /\ new.mark = Watermark(added)
      /\ new.awaited = cells[c].awaited /\ new.start = cells[c].start
  <2>1. "drawing" \in Stage /\ cells[c] \in CallShape /\ Watermark(added) \in Nat
    BY <1>3, <1>7 DEF Stage
  <2> QED BY ONLY <2>1, AtMarkFields
<1> HIDE DEF new
<1>9. StepFrame(c) /\ cells'[c] = new
  BY <1>1, <1>2, <1>8, StepCall
<1>10. Typed'
  <2>1. /\ namespace \subseteq Cells /\ effects \subseteq Cells /\ book \in 0..Len(log)
        /\ epoch \in 0..epochs
    BY <1>1 DEF Typed
  <2>2. book' \in 0..Len(log')
    BY <1>2, <1>3, <1>6, <1>7, <2>1
  <2> QED BY <1>1, <1>2, <1>3, <1>6, <1>7, <1>8, <1>9, <2>1, <2>2, TypedStep, SMTT(20)
<1>11. Locked'
  BY <1>1, <1>8, <1>9, LockedStep DEF Held
<1>12. /\ \A kind, d : Has(kind, d) => Has(kind, d)'
       /\ \A d : Has("completed", d)' => Has("completed", d)
       /\ Has("added", c)'
  <2>1. /\ \A kind, d : HasIn(log, kind, d) <=> Has(kind, d)
        /\ \A kind, d : HasIn(log', kind, d) <=> Has(kind, d)'
    BY DEF HasIn, Has
  <2> QED BY <1>2, <1>4, <1>5, <1>6, <2>1
<1>14. Replayable' = Replayable
  BY <1>12 DEF Replayable
<1>13. WasAdded'
  BY <1>1, <1>8, <1>9, <1>12, <1>14 DEF WasAdded, StepFrame, Moved
<1>15. ASSUME Quiet PROVE Clean' /\ Restored' /\ EnteredBy(c)'
  <2>1. /\ Clean
        /\ \A d \in namespace : d \in Cells /\ (d # c => Has("completed", d))
    BY <1>9, <1>15, QuietFacts DEF StepFrame
  <2>2. Clean'
    <3>1. \A d \in namespace : Has("completed", d)
      BY <2>1 DEF Clean
    <3> QED BY <1>12, <3>1 DEF Clean
  <2>3. Restored'
    BY <1>14, <1>15 DEF Restored
  <2>4. EnteredBy(c)'
    BY <1>2, <1>8, <1>9, <1>15 DEF EnteredBy, Opened
  <2> QED BY <2>2, <2>3, <2>4
<1> QED BY <1>9, <1>10, <1>11, <1>13, <1>15, CombineStep

(* A step that adds no event and starts no kernel. *)
LEMMA PlainStep ==
    ASSUME Sound, NEW c \in Cells, StepFrame(c), log' = log, restored' = restored,
           epochs' \in Nat, epochs <= epochs', epoch' \in 0..epochs',
           namespace' \subseteq Cells, effects' \subseteq Cells, book' \in 0..Len(log),
           cells'[c].epoch = cells[c].epoch, cells'[c].mark = cells[c].mark,
           cells'[c].stage \in Drawn => cells[c].stage \in Drawn,
           cells'[c].stage = "restoring"
             => cells'[c].plan # {} /\ cells'[c].plan \subseteq Replayable
    PROVE  /\ Typed' /\ WasAdded'
           /\ \A kind, d : Has(kind, d)' <=> Has(kind, d)
           /\ Replayable' = Replayable
<1>1. Typed /\ WasAdded
  BY DEF Sound
<1>2. /\ log \in Seq(LogEvent) /\ \A i \in DOMAIN log : log[i].epoch \in 0..epochs
      /\ restored \in 0..epochs /\ epochs \in Nat /\ Len(log) \in Nat
      /\ cells[c].epoch \in 0..epochs /\ cells[c].mark \in 0..Len(log)
  BY <1>1, TypedFacts DEF Typed
<1>3. /\ \A i \in DOMAIN log : log[i].epoch \in 0..epochs'
      /\ restored' \in 0..epochs' /\ cells'[c].epoch \in 0..epochs'
  BY <1>2
<1>4. Typed'
  BY <1>1, <1>2, <1>3, TypedStep, SMTT(20)
<1>5. WasAdded'
  BY <1>1, WasAddedSame
<1> QED BY <1>4, <1>5, SameLog

(* A step that adds an event and changes nothing else than its call. *)
LEMMA EventStep ==
    ASSUME Sound, NEW c \in Cells, StepFrame(c), NEW e \in LogEvent,
           log' = Append(log, e), e.epoch \in 0..epochs,
           e.kind = "completed" => e.cell = c, cells[c].stage \in Drawn,
           cells'[c].stage # "restoring", UNCHANGED <<kernel, restored, book, effects>>,
           cells'[c].epoch = cells[c].epoch, cells'[c].mark \in 0..Len(log')
    PROVE  /\ Typed' /\ WasAdded'
           /\ \A kind, d : Has(kind, d)' <=> Has(kind, d) \/ (e.kind = kind /\ e.cell = d)
           /\ e.kind # "completed" => Replayable' = Replayable
           /\ \A d \in Replayable' : d \in Replayable \/ d = e.cell
<1> USE DEF kernel
<1>1. Typed /\ WasAdded
  BY DEF Sound
<1>2. /\ log' \in Seq(LogEvent) /\ Len(log') = Len(log) + 1
      /\ \A i \in DOMAIN log' : log'[i].epoch \in 0..epochs
      /\ \A kind, d : Has(kind, d)' <=> Has(kind, d) \/ (e.kind = kind /\ e.cell = d)
      /\ e.kind # "completed" => Replayable' = Replayable
      /\ \A d \in Replayable' : d \in Replayable \/ d = e.cell
  BY <1>1, LongerLog
<1>3. /\ epochs \in Nat /\ Len(log) \in Nat /\ cells[c].epoch \in 0..epochs
      /\ book \in 0..Len(log) /\ epoch \in 0..epochs /\ restored \in 0..epochs
      /\ namespace \subseteq Cells /\ effects \subseteq Cells
  BY <1>1, TypedFacts DEF Typed
<1>4. Len(log) <= Len(log') /\ book' \in 0..Len(log')
  BY <1>2, <1>3
<1>5. Typed'
  <2>1. /\ epochs' \in Nat /\ epochs <= epochs' /\ epoch' \in 0..epochs'
        /\ restored' \in 0..epochs' /\ namespace' \subseteq Cells /\ effects' \subseteq Cells
        /\ cells'[c].epoch \in 0..epochs'
    BY <1>3
  <2>2. \A i \in DOMAIN log' : log'[i].epoch \in 0..epochs'
    BY <1>2
  <2>3. StepFrame(c) /\ cells'[c].mark \in 0..Len(log')
    OBVIOUS
  <2> QED BY ONLY c \in Cells, <1>1, <1>2, <1>4, <2>1, <2>2, <2>3, TypedStep
<1>6. WasAdded'
  BY <1>1, WasAddedMore
<1> QED BY <1>2, <1>5, <1>6

LEMMA OpenSound ==
    ASSUME Sound, NEW c \in Cells, Open(c)
    PROVE  Sound'
<1> USE DEF kernel
<1>1. /\ Typed /\ Locked /\ WasAdded /\ cells[c].stage = "opening" /\ c \in Busy
      /\ UNCHANGED <<process, starts, kernel, holder, book, effects, alone>>
  BY DEF Sound, Open, Busy
<1>2. cells[c] \in CallShape /\ cells \in [Cells -> CallShape] /\ log \in Seq(LogEvent)
  BY <1>1 DEF Typed
<1>3. ASSUME Quiet
      PROVE  /\ Clean /\ Restored /\ epoch = cells[c].epoch /\ epoch # 0
             /\ \A d \in namespace : d \in Cells /\ Has("completed", d)
  <2>1. /\ Clean /\ Restored /\ EnteredBy(c)
        /\ \A d \in namespace : d \in Cells /\ (d # c => Has("completed", d))
    BY <1>1, <1>3, QuietFacts
  <2> QED BY <1>1, <2>1 DEF Clean, EnteredBy, Opened
<1>4. CASE Submitted(c, log) /\ (restored = cells[c].epoch \/ Replayable = {})
  <2>1. Quiet => epoch = cells[c].epoch /\ epoch # 0 /\ Replayable \subseteq namespace
    BY <1>3, <1>4 DEF Restored
  <2> QED BY <1>1, <1>2, <1>4, <2>1, SubmittedSound
<1>5. CASE /\ Replayable # {} /\ UNCHANGED <<restored, log>>
           /\ cells' = [cells EXCEPT ![c].plan = Replayable, ![c].stage = "restoring"]
  <2> DEFINE new == AtPlan(cells[c], "restoring", Replayable)
  <2>1. Changed(c, new)
    BY <1>5 DEF Changed, AtPlan
  <2>2. Replayable \in SUBSET Cells /\ "restoring" \in Stage
    BY DEF Replayable, Stage
  <2>3. /\ new \in CallShape /\ new.stage = "restoring" /\ new.awaited = cells[c].awaited
        /\ new.epoch = cells[c].epoch /\ new.plan = Replayable
        /\ new.mark = cells[c].mark /\ new.start = cells[c].start
    BY ONLY <1>2, <2>2, AtPlanFields
  <2> HIDE DEF new
  <2>4. StepFrame(c) /\ cells'[c] = new
    BY <1>1, <2>1, <2>3, StepCall
  <2>5. /\ Typed' /\ WasAdded' /\ Replayable' = Replayable
        /\ \A kind, d : Has(kind, d)' <=> Has(kind, d)
    <3>1. /\ epochs \in Nat /\ epoch \in 0..epochs /\ namespace \subseteq Cells
          /\ effects \subseteq Cells /\ book \in 0..Len(log)
      BY <1>1 DEF Typed
    <3>2. cells'[c].stage \notin Drawn
      BY <2>3, <2>4 DEF Drawn
    <3>3. /\ log' = log /\ restored' = restored /\ epochs' = epochs /\ epoch' = epoch
          /\ namespace' = namespace /\ effects' = effects /\ book' = book
      BY <1>1, <1>5
    <3>4. /\ epochs' \in Nat /\ epochs <= epochs' /\ epoch' \in 0..epochs'
          /\ namespace' \subseteq Cells /\ effects' \subseteq Cells /\ book' \in 0..Len(log)
      BY <3>1, <3>3
    <3>5. cells'[c].plan # {} /\ cells'[c].plan \subseteq Replayable
      BY <1>5, <2>3, <2>4
    <3>6. cells'[c].epoch = cells[c].epoch /\ cells'[c].mark = cells[c].mark
      BY <2>3, <2>4
    <3> QED BY <2>4, <3>2, <3>3, <3>4, <3>5, <3>6, PlainStep
  <2>6. Locked'
    BY <1>1, <2>3, <2>4, LockedStep DEF Held
  <2>7. ASSUME Quiet PROVE Clean' /\ Restored' /\ EnteredBy(c)'
    <3>1. Clean'
      BY <1>1, <1>3, <2>5, <2>7 DEF Clean
    <3>2. Restored'
      BY <1>1, <1>3, <1>5, <2>5, <2>7 DEF Restored
    <3>3. EnteredBy(c)'
      BY <1>1, <1>3, <1>5, <2>3, <2>4, <2>5, <2>7 DEF EnteredBy, Opened
    <3> QED BY <3>1, <3>2, <3>3
  <2> QED BY <2>4, <2>5, <2>6, <2>7, CombineStep
<1> QED BY <1>4, <1>5 DEF Open

(* A plan that is not empty has a next cell: all its cells were added. *)
LEMMA FirstOfPlan ==
    ASSUME Typed, NEW plan \in SUBSET Cells, plan # {},
           \A d \in plan : Has("added", d)
    PROVE  First(plan) \in plan
<1> DEFINE Less == {ss \in Nat \X Nat : ss[1] < ss[2]}
           P == {AddedAt(d) : d \in plan}
<1>1. \A d \in plan : AddedAt(d) \in Nat
  <2>1. ASSUME NEW d \in plan PROVE AddedAt(d) \in Nat
    <3>1. \E i \in DOMAIN log : log[i].kind = "added" /\ log[i].cell = d
      BY DEF Has
    <3>2. AddedAt(d) \in DOMAIN log
      BY <3>1 DEF AddedAt
    <3> QED BY <3>2, LenProperties DEF Typed
  <2> QED BY <2>1
<1>2. P \in SUBSET Nat /\ P # {}
  BY <1>1
<1>3. \E m \in P : \A k \in P : ~(<<k, m>> \in Less)
  <2>1. IsWellFoundedOn(Less, Nat)
    BY NatLessThanWellFounded DEF OpToRel
  <2> HIDE DEF P, Less
  <2> QED BY <1>2, <2>1, WFMin
<1>4. PICK c \in plan : \A k \in P : ~(<<k, AddedAt(c)>> \in Less)
  BY <1>3
<1>5. ASSUME NEW d \in plan PROVE AddedAt(c) <= AddedAt(d)
  <2>1. AddedAt(d) \in P /\ AddedAt(d) \in Nat /\ AddedAt(c) \in Nat
    BY <1>1
  <2>2. ~(AddedAt(d) < AddedAt(c))
    BY <1>4, <2>1
  <2> QED BY <2>1, <2>2
<1>6. \E b \in plan : \A d \in plan : AddedAt(b) <= AddedAt(d)
  BY <1>5
<1> QED BY <1>6 DEF First

(* A call goes on to another stage. *)
LEMMA GoFrame ==
    ASSUME Typed, NEW c \in Cells, NEW st \in Stage, st # "idle", Go(c, st), c \in Busy,
           UNCHANGED <<process, starts, alone>>
    PROVE  /\ StepFrame(c) /\ cells'[c] \in CallShape /\ cells'[c].stage = st
           /\ cells'[c].epoch = cells[c].epoch /\ cells'[c].mark = cells[c].mark
           /\ cells'[c].status = cells[c].status /\ cells'[c].awaited = cells[c].awaited
           /\ cells'[c].plan = cells[c].plan
<1> DEFINE new == AtStage(cells[c], st)
<1>1. Changed(c, new)
  BY DEF Go, Changed, AtStage
<1>2. cells[c] \in CallShape
  BY TypedFacts
<1>3. /\ new \in CallShape /\ new.stage = st /\ new.awaited = cells[c].awaited
      /\ new.epoch = cells[c].epoch /\ new.plan = cells[c].plan
      /\ new.status = cells[c].status
      /\ new.mark = cells[c].mark /\ new.start = cells[c].start
  BY ONLY <1>2, st \in Stage, AtStageFields
<1> HIDE DEF new
<1>4. StepFrame(c) /\ cells'[c] = new
  BY <1>1, <1>3, StepCall DEF Busy
<1> QED BY <1>3, <1>4

(* A thread ends and its call is told, if it is still awaited. *)
LEMMA LeaveFrame ==
    ASSUME Typed, NEW c \in Cells, NEW t \in Status, Leave(c, t), c \in Busy,
           UNCHANGED <<process, starts, alone>>
    PROVE  /\ StepFrame(c) /\ cells'[c] \in CallShape
           /\ cells'[c].stage = IF cells[c].awaited THEN "returned" ELSE "done"
           /\ cells'[c].epoch = cells[c].epoch /\ cells'[c].mark = cells[c].mark
           /\ cells'[c].status = t /\ cells'[c].awaited = cells[c].awaited
<1> DEFINE st == IF cells[c].awaited THEN "returned" ELSE "done"
           new == AtStatus(cells[c], st, t)
<1>1. Changed(c, new)
  BY DEF Leave, Changed, AtStatus
<1>2. cells[c] \in CallShape /\ st \in Stage
  BY TypedFacts DEF Stage
<1>3. st # "idle"
  OBVIOUS
<1> HIDE DEF st
<1>4. /\ new \in CallShape /\ new.stage = st /\ new.awaited = cells[c].awaited
      /\ new.epoch = cells[c].epoch /\ new.plan = cells[c].plan /\ new.status = t
      /\ new.mark = cells[c].mark /\ new.start = cells[c].start
  BY ONLY <1>2, t \in Status, AtStatusFields DEF st
<1> HIDE DEF new
<1>5. StepFrame(c) /\ cells'[c] = new
  BY <1>1, <1>3, <1>4, StepCall DEF Busy
<1> QED BY <1>4, <1>5 DEF st

(* The kernel is kept when there is one. *)
LEMMA StartKept ==
    ASSUME Typed, Start
    PROVE  /\ epochs' \in Nat /\ epochs <= epochs' /\ epoch' \in 0..epochs'
           /\ epoch # 0 => epoch' = epoch /\ epochs' = epochs
<1>1. epochs \in Nat /\ epoch \in 0..epochs
  BY DEF Typed
<1> QED BY <1>1 DEF Start, Live

LEMMA DrawSound ==
    ASSUME Sound, NEW c \in Cells, Draw(c)
    PROVE  Sound'
<1> USE DEF kernel
<1> DEFINE st == CASE ~cells[c].awaited -> "done"
                   [] cells[c].stage = "drawing" -> "queued"
                   [] OTHER -> "recording"
<1>1. /\ Typed /\ Locked /\ WasAdded /\ cells[c].stage \in {"drawing", "redrawing"}
      /\ c \in Busy /\ Go(c, st) /\ book' = cells[c].mark
      /\ UNCHANGED <<process, starts, kernel, holder, restored, log, effects, alone>>
  BY DEF Sound, Draw, Busy
<1>2. /\ epochs \in Nat /\ epoch \in 0..epochs /\ namespace \subseteq Cells
      /\ effects \subseteq Cells /\ cells[c].mark \in 0..Len(log)
  BY <1>1 DEF Typed
<1>3. /\ st \in Stage \ (Held \cup {"idle", "restoring"})
      /\ cells[c].awaited /\ cells[c].stage = "drawing" => st = "queued"
      /\ cells[c].awaited /\ cells[c].stage = "redrawing" => st = "recording"
  BY <1>1 DEF Stage, Held
<1> HIDE DEF st
<1>4. /\ StepFrame(c) /\ cells'[c].stage = st
      /\ cells'[c].epoch = cells[c].epoch /\ cells'[c].mark = cells[c].mark
      /\ cells'[c].status = cells[c].status
  BY <1>1, <1>3, GoFrame
<1>5. /\ Typed' /\ WasAdded' /\ Replayable' = Replayable
      /\ \A kind, d : Has(kind, d)' <=> Has(kind, d)
  <2>1. cells[c].stage \in Drawn
    BY <1>1 DEF Drawn
  <2>2. /\ epochs' \in Nat /\ epochs <= epochs' /\ epoch' \in 0..epochs'
        /\ namespace' \subseteq Cells /\ effects' \subseteq Cells /\ book' \in 0..Len(log)
    BY <1>1, <1>2
  <2>3. cells'[c].stage # "restoring"
    BY <1>3, <1>4
  <2> QED BY <1>1, <1>4, <2>1, <2>2, <2>3, PlainStep
<1>6. Locked'
  BY <1>1, <1>3, <1>4, LockedStep DEF Held
<1>7. ASSUME Quiet PROVE Clean' /\ Restored' /\ EnteredBy(c)'
  <2>1. /\ Clean /\ Restored /\ EnteredBy(c) /\ cells[c].awaited
        /\ \A d \in namespace : d \in Cells /\ (d # c => Has("completed", d))
    BY <1>1, <1>7, QuietFacts
  <2>2. \A d \in namespace : Has("completed", d)
    BY <1>1, <2>1 DEF Clean
  <2>3. Clean' /\ Restored'
    BY <1>1, <1>5, <2>1, <2>2 DEF Clean, Restored
  <2>4. EnteredBy(c)'
    BY <1>1, <1>3, <1>4, <2>1 DEF EnteredBy, Opened
  <2> QED BY <2>3, <2>4
<1> QED BY <1>4, <1>5, <1>6, <1>7, CombineStep

LEMMA TakeSound ==
    ASSUME Sound, NEW c \in Cells, Take(c)
    PROVE  Sound'
<1> USE DEF kernel
<1>1. /\ Typed /\ Locked /\ WasAdded /\ cells[c].stage = "queued" /\ holder = Nobody
      /\ c \in Busy /\ Go(c, "running") /\ holder' = c /\ Start
      /\ UNCHANGED <<process, starts, namespace, restored, log, book, effects, alone>>
  BY DEF Sound, Take, Busy
<1>2. /\ StepFrame(c) /\ cells'[c].stage = "running"
      /\ cells'[c].epoch = cells[c].epoch /\ cells'[c].mark = cells[c].mark
      /\ cells'[c].status = cells[c].status
  BY <1>1, GoFrame DEF Stage
<1>3. /\ Typed' /\ WasAdded' /\ Replayable' = Replayable
      /\ \A kind, d : Has(kind, d)' <=> Has(kind, d)
  <2>1. cells[c].stage \in Drawn /\ cells'[c].stage # "restoring"
    BY <1>1, <1>2 DEF Drawn
  <2>2. /\ epochs' \in Nat /\ epochs <= epochs' /\ epoch' \in 0..epochs'
        /\ namespace' \subseteq Cells /\ effects' \subseteq Cells /\ book' \in 0..Len(log)
    BY <1>1, StartKept DEF Typed
  <2>3. log' = log /\ restored' = restored
    BY <1>1
  <2> QED BY <1>2, <2>1, <2>2, <2>3, PlainStep
<1>4. Locked'
  <2>1. ASSUME NEW d \in Cells PROVE cells'[d].stage \in Held <=> holder' = d
    <3>1. CASE d = c
      BY <1>1, <1>2, <3>1 DEF Held
    <3>2. CASE d # c
      <4>1. cells'[d] = cells[d] /\ cells[d].stage \notin Held
        BY <1>1, <1>2, <3>2, NotebookAssumption DEF StepFrame, Moved, Locked
      <4> QED BY <1>1, <3>2, <4>1
    <3> QED BY <3>1, <3>2
  <2> QED BY <2>1 DEF Locked
<1>5. ASSUME Quiet PROVE Clean' /\ Restored' /\ EnteredBy(c)'
  <2>1. /\ Clean /\ Restored /\ EnteredBy(c)
        /\ \A d \in namespace : d \in Cells /\ (d # c => Has("completed", d))
    BY <1>1, <1>5, QuietFacts
  <2>2. epoch = cells[c].epoch /\ epoch # 0 /\ restored = epoch
    BY <1>1, <2>1 DEF EnteredBy, Opened
  <2>3. epoch' = epoch
    BY <1>1, <2>2, StartKept
  <2>4. \A d \in namespace : Has("completed", d)
    BY <1>1, <2>1 DEF Clean
  <2>5. Clean' /\ Restored'
    BY <1>1, <1>3, <2>1, <2>3, <2>4 DEF Clean, Restored
  <2>6. EnteredBy(c)'
    BY <1>1, <1>2, <2>2, <2>3 DEF EnteredBy, Opened
  <2> QED BY <2>5, <2>6
<1> QED BY <1>2, <1>3, <1>4, <1>5, CombineStep

(* A capability is called, and has answered: its event is recorded. *)
LEMMA CapabilitySound ==
    ASSUME Sound, NEW c \in Cells, NEW kind \in {"requested", "answered"},
           NEW st \in Held, cells[c].stage \in Held, Go(c, st),
           log' = Append(log, Event(kind, c, cells[c].epoch)),
           UNCHANGED <<process, starts, kernel, holder, restored, book, effects, alone>>
    PROVE  Sound'
<1> USE DEF kernel
<1> DEFINE e == Event(kind, c, cells[c].epoch)
<1>1. Typed /\ Locked /\ WasAdded /\ c \in Busy /\ st \in Stage /\ st # "idle"
  BY DEF Sound, Busy, Held, Stage
<1>2. e \in LogEvent /\ e.kind = kind /\ e.cell = c /\ e.epoch = cells[c].epoch
  BY <1>1, TypedFacts, EventTyped DEF Kinds
<1>3. log' = Append(log, e)
  OBVIOUS
<1> HIDE DEF e
<1>4. /\ StepFrame(c) /\ cells'[c].stage = st
      /\ cells'[c].epoch = cells[c].epoch /\ cells'[c].mark = cells[c].mark
      /\ cells'[c].status = cells[c].status
  BY <1>1, GoFrame
<1>5. /\ Typed' /\ WasAdded' /\ Replayable' = Replayable
      /\ \A k, d : Has(k, d)' <=> Has(k, d) \/ (e.kind = k /\ e.cell = d)
  <2>1. cells[c].stage \in Drawn /\ cells'[c].stage # "restoring"
    BY <1>4 DEF Drawn, Held
  <2>2. cells[c].epoch \in 0..epochs /\ e.kind # "completed"
    BY <1>1, <1>2, TypedFacts
  <2>3. cells'[c].mark \in 0..Len(log')
    <3>1. cells[c].mark \in 0..Len(log) /\ Len(log) \in Nat
      BY <1>1, TypedFacts
    <3>2. Len(log') = Len(log) + 1
      BY <1>1, <1>2, <1>3, <2>2, LongerLog
    <3> QED BY <1>4, <3>1, <3>2
  <2>4. UNCHANGED <<kernel, restored, book, effects>>
    OBVIOUS
  <2>5. e.epoch \in 0..epochs
    BY <1>2, <2>2
  <2> QED BY ONLY Sound, c \in Cells, <1>2, <1>3, <1>4, <2>1, <2>2, <2>3, <2>4, <2>5, EventStep
<1>6. Locked'
  BY <1>1, <1>4, LockedStep
<1>7. ASSUME Quiet PROVE Clean' /\ Restored' /\ EnteredBy(c)'
  <2>1. /\ Clean /\ Restored /\ EnteredBy(c)
        /\ \A d \in namespace : d \in Cells /\ (d # c => Has("completed", d))
    BY <1>1, <1>7, QuietFacts
  <2>2. \A d \in namespace : Has("completed", d)
    BY <2>1 DEF Clean, Held
  <2>3. Clean' /\ Restored'
    BY <1>5, <2>1, <2>2 DEF Clean, Restored
  <2>4. EnteredBy(c)'
    BY <1>4, <2>1 DEF EnteredBy, Opened, Held
  <2> QED BY <2>3, <2>4
<1> QED BY <1>4, <1>5, <1>6, <1>7, CombineStep

LEMMA InvokeSound ==
    ASSUME Sound, NEW c \in Cells, Invoke(c)
    PROVE  Sound'
<1>1. /\ effects' = effects \cup {c}
      /\ UNCHANGED <<process, starts, kernel, holder, restored, log, book, cells, alone>>
  BY DEF Invoke
<1>2. effects' \subseteq Cells
  BY <1>1 DEF Sound, Typed
<1>3. Typed'
  BY <1>1, <1>2 DEF Sound, Typed, kernel
<1>4. Locked' /\ Awaited' /\ Single'
  BY <1>1 DEF Sound, Locked, Awaited, Single, Busy, kernel
<1>5. (\A kind, d : Has(kind, d)' <=> Has(kind, d)) /\ Replayable' = Replayable
  BY <1>1, SameLog
<1>6. WasAdded'
  BY <1>1, <1>5 DEF Sound, WasAdded
<1>7. Faithful'
  BY <1>1, <1>5 DEF Sound, Faithful, Quiet, Clean, Restored, Entered, EnteredBy, kernel
<1>8. ClosedBookIsCurrent'
  BY <1>1 DEF Sound, ClosedBookIsCurrent, Active
<1> QED BY <1>3, <1>4, <1>6, <1>7, <1>8 DEF Sound

(* The call whose cell has run gives the lock back. *)
LEMMA LockReleased ==
    ASSUME Typed, Locked, NEW c \in Cells, StepFrame(c), cells[c].stage \in Held,
           holder' = Nobody, cells'[c].stage \notin Held
    PROVE  Locked'
<1>1. holder = c
  BY DEF Locked
<1>2. ASSUME NEW d \in Cells PROVE cells'[d].stage \notin Held
  BY <1>1 DEF Locked, StepFrame, Moved
<1> QED BY <1>2, NotebookAssumption DEF Locked

LEMMA FinishSound ==
    ASSUME Sound, NEW c \in Cells, Finish(c)
    PROVE  Sound'
<1>1. /\ Typed /\ Locked /\ WasAdded /\ cells[c].stage = "running" /\ c \in Busy
      /\ namespace' = namespace \cup {c} /\ holder' = Nobody
      /\ UNCHANGED <<process, starts, epoch, epochs, restored, log, book, effects, alone>>
  BY DEF Sound, Finish, Busy
<1>2. PICK t \in {"ok", "error"} : Leave(c, t)
  BY DEF Finish
<1>3. t \in Status
  BY DEF Status
<1>4. /\ StepFrame(c) /\ cells'[c].stage = IF cells[c].awaited THEN "returned" ELSE "done"
      /\ cells'[c].epoch = cells[c].epoch /\ cells'[c].mark = cells[c].mark
      /\ cells'[c].status = t
  BY <1>1, <1>2, <1>3, LeaveFrame
<1>5. /\ Typed' /\ WasAdded' /\ Replayable' = Replayable
      /\ \A kind, d : Has(kind, d)' <=> Has(kind, d)
  <2>1. cells[c].stage \in Drawn /\ cells'[c].stage # "restoring"
    BY <1>1, <1>4 DEF Drawn
  <2>2. /\ epochs' \in Nat /\ epochs <= epochs' /\ epoch' \in 0..epochs'
        /\ namespace' \subseteq Cells /\ effects' \subseteq Cells /\ book' \in 0..Len(log)
    BY <1>1 DEF Typed
  <2>3. log' = log /\ restored' = restored
    BY <1>1
  <2> QED BY <1>4, <2>1, <2>2, <2>3, PlainStep
<1>6. Locked'
  BY <1>1, <1>4, LockReleased DEF Held
<1>7. ASSUME Quiet PROVE Clean' /\ Restored' /\ EnteredBy(c)'
  <2>1. /\ Clean /\ Restored /\ EnteredBy(c) /\ cells[c].awaited
        /\ \A d \in namespace : d \in Cells /\ (d # c => Has("completed", d))
    BY <1>1, <1>7, QuietFacts
  <2>2. cells'[c].stage = "returned" /\ cells'[c].status \in {"ok", "error"}
    BY <1>2, <1>4, <2>1
  <2>3. \A d \in namespace' : d = c \/ Has("completed", d)
    BY <1>1, <2>1
  <2>4. Clean'
    BY <1>5, <2>2, <2>3 DEF Clean
  <2>5. Restored'
    BY <1>1, <1>5, <2>1 DEF Restored
  <2>6. EnteredBy(c)'
    BY <1>1, <1>4, <2>2 DEF EnteredBy, Opened
  <2> QED BY <2>4, <2>5, <2>6
<1> QED BY <1>4, <1>5, <1>6, <1>7, CombineStep

LEMMA FailSound ==
    ASSUME Sound, NEW c \in Cells, Fail(c)
    PROVE  Sound'
<1>1. /\ Typed /\ Locked /\ WasAdded /\ cells[c].stage = "running" /\ c \in Busy
      /\ epoch' = 0 /\ namespace' = {} /\ epochs' = epochs /\ holder' = Nobody
      /\ UNCHANGED <<process, starts, restored, log, book, effects, alone>>
  BY DEF Sound, Fail, Discard, Busy
<1>2. PICK t \in {"timeout", "error"} : Leave(c, t)
  BY DEF Fail
<1>3. t \in Status
  BY DEF Status
<1>4. /\ StepFrame(c) /\ cells'[c].stage = IF cells[c].awaited THEN "returned" ELSE "done"
      /\ cells'[c].epoch = cells[c].epoch /\ cells'[c].mark = cells[c].mark
      /\ cells'[c].status = t
  BY <1>1, <1>2, <1>3, LeaveFrame
<1>5. /\ Typed' /\ WasAdded' /\ Replayable' = Replayable
      /\ \A kind, d : Has(kind, d)' <=> Has(kind, d)
  <2>1. cells[c].stage \in Drawn /\ cells'[c].stage # "restoring"
    BY <1>1, <1>4 DEF Drawn
  <2>2. /\ epochs' \in Nat /\ epochs <= epochs' /\ epoch' \in 0..epochs'
        /\ namespace' \subseteq Cells /\ effects' \subseteq Cells /\ book' \in 0..Len(log)
    BY <1>1 DEF Typed
  <2>3. log' = log /\ restored' = restored
    BY <1>1
  <2> QED BY <1>4, <2>1, <2>2, <2>3, PlainStep
<1>6. Locked'
  BY <1>1, <1>4, LockReleased DEF Held
<1>7. ASSUME Quiet PROVE Clean' /\ Restored' /\ EnteredBy(c)'
  <2>1. cells[c].awaited
    BY <1>1, <1>7, QuietFacts
  <2>2. cells'[c].stage = "returned" /\ cells'[c].status # "ok"
    BY <1>2, <1>4, <2>1
  <2> QED BY <1>1, <2>2 DEF Clean, Restored, EnteredBy, Opened
<1> QED BY <1>4, <1>5, <1>6, <1>7, CombineStep

LEMMA ReturnSound ==
    ASSUME Sound, NEW c \in Cells, Return(c)
    PROVE  Sound'
<1> USE DEF kernel
<1> DEFINE st == IF cells[c].status = "error" THEN "resetting" ELSE "ending"
<1>1. /\ Typed /\ Locked /\ WasAdded /\ cells[c].stage = "returned" /\ c \in Busy
      /\ Go(c, st)
      /\ UNCHANGED <<process, starts, kernel, holder, restored, log, book, effects, alone>>
  BY DEF Sound, Return, Busy
<1>2. /\ st \in {"resetting", "ending"} /\ st \in Stage
      /\ st = "resetting" <=> cells[c].status = "error"
  BY DEF Stage
<1> HIDE DEF st
<1>3. /\ StepFrame(c) /\ cells'[c].stage = st
      /\ cells'[c].epoch = cells[c].epoch /\ cells'[c].mark = cells[c].mark
      /\ cells'[c].status = cells[c].status
  BY <1>1, <1>2, GoFrame
<1>4. /\ Typed' /\ WasAdded' /\ Replayable' = Replayable
      /\ \A kind, d : Has(kind, d)' <=> Has(kind, d)
  <2>1. cells[c].stage \in Drawn /\ cells'[c].stage # "restoring"
    BY <1>1, <1>2, <1>3 DEF Drawn
  <2>2. /\ epochs' \in Nat /\ epochs <= epochs' /\ epoch' \in 0..epochs'
        /\ namespace' \subseteq Cells /\ effects' \subseteq Cells /\ book' \in 0..Len(log)
    BY <1>1 DEF Typed
  <2>3. log' = log /\ restored' = restored
    BY <1>1
  <2> QED BY <1>3, <2>1, <2>2, <2>3, PlainStep
<1>5. Locked'
  BY <1>1, <1>2, <1>3, LockedStep DEF Held
<1>6. ASSUME Quiet PROVE Clean' /\ Restored' /\ EnteredBy(c)'
  <2>1. /\ Clean /\ Restored /\ EnteredBy(c)
        /\ \A d \in namespace : d \in Cells /\ (d # c => Has("completed", d))
    BY <1>1, <1>6, QuietFacts
  <2>2. c \in namespace /\ ~Has("completed", c) => cells[c].status \in {"ok", "error"}
    BY <1>1, <2>1 DEF Clean
  <2>3. Clean'
    BY <1>1, <1>2, <1>3, <1>4, <2>1, <2>2 DEF Clean
  <2>4. Restored'
    BY <1>1, <1>4, <2>1 DEF Restored
  <2>5. EnteredBy(c)'
    BY <1>1, <1>2, <1>3, <2>1 DEF EnteredBy, Opened
  <2> QED BY <2>3, <2>4, <2>5
<1> QED BY <1>3, <1>4, <1>5, <1>6, CombineStep

LEMMA ResetSound ==
    ASSUME Sound, NEW c \in Cells, Reset(c)
    PROVE  Sound'
<1> DEFINE st == IF cells[c].awaited THEN "ending" ELSE "done"
<1>1. /\ Typed /\ Locked /\ WasAdded /\ cells[c].stage = "resetting" /\ c \in Busy
      /\ epoch' = 0 /\ namespace' = {} /\ epochs' = epochs /\ Go(c, st)
      /\ UNCHANGED <<process, starts, holder, restored, log, book, effects, alone>>
  BY DEF Sound, Reset, Discard, Busy
<1>2. st \in {"ending", "done"} /\ st \in Stage
  BY DEF Stage
<1> HIDE DEF st
<1>3. /\ StepFrame(c) /\ cells'[c].stage = st
      /\ cells'[c].epoch = cells[c].epoch /\ cells'[c].mark = cells[c].mark
      /\ cells'[c].status = cells[c].status
  BY <1>1, <1>2, GoFrame
<1>4. /\ Typed' /\ WasAdded' /\ Replayable' = Replayable
      /\ \A kind, d : Has(kind, d)' <=> Has(kind, d)
  <2>1. cells[c].stage \in Drawn /\ cells'[c].stage # "restoring"
    BY <1>1, <1>2, <1>3 DEF Drawn
  <2>2. /\ epochs' \in Nat /\ epochs <= epochs' /\ epoch' \in 0..epochs'
        /\ namespace' \subseteq Cells /\ effects' \subseteq Cells /\ book' \in 0..Len(log)
    BY <1>1 DEF Typed
  <2>3. log' = log /\ restored' = restored
    BY <1>1
  <2> QED BY <1>3, <2>1, <2>2, <2>3, PlainStep
<1>5. Locked'
  BY <1>1, <1>2, <1>3, LockedStep DEF Held
<1>6. ASSUME Quiet PROVE Clean' /\ Restored' /\ EnteredBy(c)'
  <2>1. cells[c].status = "error"
    BY <1>1, <1>6, QuietFacts DEF EnteredBy
  <2> QED BY <1>1, <1>2, <1>3, <2>1 DEF Clean, Restored, EnteredBy, Opened
<1> QED BY <1>3, <1>4, <1>5, <1>6, CombineStep

LEMMA EndSound ==
    ASSUME Sound, NEW c \in Cells, End(c)
    PROVE  Sound'
<1> USE DEF kernel
<1> DEFINE e == Event(Terminal(cells[c].status), c, cells[c].epoch)
           ended == Append(log, e)
           new == AtMark(cells[c], "redrawing", Watermark(ended))
<1>1. /\ Typed /\ Locked /\ WasAdded /\ cells[c].stage = "ending" /\ c \in Busy
      /\ log' = ended /\ Changed(c, new)
      /\ UNCHANGED <<process, starts, kernel, holder, restored, book, effects, alone>>
  BY DEF Sound, End, Busy, Changed, AtMark
<1>2. /\ e \in LogEvent /\ e.cell = c /\ e.epoch = cells[c].epoch
      /\ e.kind = "completed" <=> cells[c].status = "ok"
  <2>1. /\ Terminal(cells[c].status) \in Kinds
        /\ Terminal(cells[c].status) = "completed" <=> cells[c].status = "ok"
    BY DEF Terminal, Kinds
  <2>2. cells[c].epoch \in Nat
    BY <1>1, TypedFacts
  <2> QED BY <2>1, <2>2, EventTyped
<1> HIDE DEF e
<1>3. /\ ended \in Seq(LogEvent) /\ Len(ended) \in Nat
      /\ Watermark(ended) \in Nat /\ Watermark(ended) \in 0..Len(ended)
  <2>1. log \in Seq(LogEvent)
    BY <1>1 DEF Typed
  <2>2. ended \in Seq(LogEvent)
    BY <1>2, <2>1, AppendProperties
  <2> HIDE DEF ended
  <2> QED BY <2>2, LenProperties, WatermarkTyped
<1> HIDE DEF ended
<1>4. /\ new \in CallShape /\ new.stage = "redrawing" /\ new.awaited = cells[c].awaited
      /\ new.epoch = cells[c].epoch /\ new.mark = Watermark(ended)
      /\ new.start = cells[c].start
  <2>1. cells[c] \in CallShape /\ "redrawing" \in Stage /\ Watermark(ended) \in Nat
    BY <1>1, <1>3, TypedFacts DEF Stage
  <2> QED BY ONLY <2>1, AtMarkFields
<1> HIDE DEF new
<1>5. StepFrame(c) /\ cells'[c] = new
  BY <1>1, <1>4, StepCall DEF Busy
<1>6. /\ Typed' /\ WasAdded'
      /\ \A k, d : Has(k, d)' <=> Has(k, d) \/ (e.kind = k /\ e.cell = d)
      /\ e.kind # "completed" => Replayable' = Replayable
      /\ \A d \in Replayable' : d \in Replayable \/ d = e.cell
  <2>1. cells[c].stage \in Drawn /\ cells'[c].stage # "restoring"
    BY <1>1, <1>4, <1>5 DEF Drawn
  <2>2. log' = Append(log, e)
    BY <1>1 DEF ended
  <2>3. e.epoch \in 0..epochs
    BY <1>1, <1>2, TypedFacts
  <2>4. cells'[c].epoch = cells[c].epoch /\ cells'[c].mark \in 0..Len(log')
    BY <1>1, <1>3, <1>4, <1>5
  <2>5. UNCHANGED <<kernel, restored, book, effects>>
    BY <1>1
  <2> QED BY ONLY Sound, c \in Cells, <1>2, <1>5, <2>1, <2>2, <2>3, <2>4, <2>5, EventStep
<1>7. Locked'
  BY <1>1, <1>4, <1>5, LockedStep DEF Held
<1>8. ASSUME Quiet PROVE Clean' /\ Restored' /\ EnteredBy(c)'
  <2>1. /\ Clean /\ Restored /\ EnteredBy(c)
        /\ \A d \in namespace : d \in Cells /\ (d # c => Has("completed", d))
    BY <1>1, <1>8, QuietFacts
  <2>2. c \in namespace => Has("completed", c) \/ e.kind = "completed"
    BY <1>1, <1>2, <2>1 DEF Clean
  <2>3. Clean'
    BY <1>1, <1>2, <1>6, <2>1, <2>2 DEF Clean
  <2>4. e.kind = "completed" => c \in namespace
    BY <1>1, <1>2, <2>1 DEF EnteredBy
  <2>5. Restored'
    BY <1>1, <1>2, <1>6, <2>1, <2>4 DEF Restored
  <2>6. EnteredBy(c)'
    BY <1>4, <1>5 DEF EnteredBy, Opened
  <2> QED BY <2>3, <2>5, <2>6
<1> QED BY <1>5, <1>6, <1>7, <1>8, CombineStep

LEMMA RecordSound ==
    ASSUME Sound, NEW c \in Cells, Record(c)
    PROVE  Sound'
<1> USE DEF kernel
<1> DEFINE e == Event("materialized", c, cells[c].epoch)
<1>1. /\ Typed /\ Locked /\ WasAdded /\ cells[c].stage = "recording" /\ c \in Busy
      /\ log' = Append(log, e) /\ Go(c, "done")
      /\ UNCHANGED <<process, starts, kernel, holder, restored, book, effects, alone>>
  BY DEF Sound, Record, Busy
<1>2. e \in LogEvent /\ e.kind = "materialized" /\ e.cell = c /\ e.epoch = cells[c].epoch
  BY <1>1, TypedFacts, EventTyped DEF Kinds
<1> HIDE DEF e
<1>3. /\ StepFrame(c) /\ cells'[c].stage = "done"
      /\ cells'[c].epoch = cells[c].epoch /\ cells'[c].mark = cells[c].mark
  BY <1>1, GoFrame DEF Stage
<1>4. /\ Typed' /\ WasAdded' /\ Replayable' = Replayable
      /\ \A k, d : Has(k, d)' <=> Has(k, d) \/ (e.kind = k /\ e.cell = d)
  <2>1. cells[c].stage \in Drawn /\ cells'[c].stage # "restoring"
    BY <1>1, <1>3 DEF Drawn
  <2>2. e.epoch \in 0..epochs /\ e.kind # "completed"
    BY <1>1, <1>2, TypedFacts
  <2>3. cells'[c].mark \in 0..Len(log')
    <3>1. cells[c].mark \in 0..Len(log) /\ Len(log) \in Nat
      BY <1>1, TypedFacts
    <3>2. Len(log') = Len(log) + 1
      BY <1>1, <1>2, <2>2, LongerLog
    <3> QED BY <1>3, <3>1, <3>2
  <2>4. log' = Append(log, e) /\ UNCHANGED <<kernel, restored, book, effects>>
    BY <1>1
  <2> QED BY ONLY Sound, c \in Cells, <1>2, <1>3, <2>1, <2>2, <2>3, <2>4, EventStep
<1>5. Locked'
  BY <1>1, <1>3, LockedStep DEF Held
<1>6. ASSUME Quiet PROVE Clean' /\ Restored' /\ EnteredBy(c)'
  <2>1. /\ Clean /\ Restored
        /\ \A d \in namespace : d \in Cells /\ (d # c => Has("completed", d))
    BY <1>1, <1>6, QuietFacts
  <2>2. \A d \in namespace : Has("completed", d)
    BY <1>1, <2>1 DEF Clean
  <2>3. Clean' /\ Restored'
    BY <1>1, <1>4, <2>1, <2>2 DEF Clean, Restored
  <2> QED BY <1>3, <2>3 DEF EnteredBy, Opened
<1> QED BY <1>3, <1>4, <1>5, <1>6, CombineStep

LEMMA SubmitSound ==
    ASSUME Sound, NEW c \in Cells, Submit(c)
    PROVE  Sound'
<1> DEFINE seen == \E i \in DOMAIN log :
                      log[i].kind = "restored" /\ log[i].epoch = cells[c].epoch
           e == Event("restored", c, cells[c].epoch)
           events == IF seen THEN log ELSE Append(log, e)
<1>1. /\ Typed /\ cells[c].stage = "submitting" /\ c \in Busy /\ Submitted(c, events)
      /\ UNCHANGED <<process, starts, kernel, holder, book, effects, alone>>
  BY DEF Sound, Submit, Busy
<1>2. /\ e \in LogEvent /\ e.kind = "restored" /\ e.epoch \in 0..epochs
      /\ log \in Seq(LogEvent)
  BY <1>1, TypedFacts, EventTyped DEF Kinds, Typed
<1> HIDE DEF e, seen
<1>3. /\ events \in Seq(LogEvent)
      /\ events = log \/ \E r \in LogEvent : /\ r.kind = "restored" /\ r.epoch \in 0..epochs
                                             /\ events = Append(log, r)
  <2>1. CASE events = log
    BY <1>2, <2>1
  <2>2. CASE events = Append(log, e)
    BY <1>2, <2>2, AppendProperties
  <2> QED BY <2>1, <2>2
<1> HIDE DEF events
<1>4. Quiet => epoch = cells[c].epoch /\ epoch # 0 /\ Replayable \subseteq namespace
  BY <1>1, QuietFacts DEF EnteredBy, Opened
<1>5. cells[c].stage \in {"opening", "submitting"}
  BY <1>1
<1> QED BY ONLY Sound, c \in Cells, <1>1, <1>3, <1>4, <1>5, SubmittedSound

LEMMA RestoreSound ==
    ASSUME Sound, NEW c \in Cells, Restore(c)
    PROVE  Sound'
<1> DEFINE plan == cells[c].plan
           cell == First(plan)
           rest == plan \ {cell}
           st == CASE ~cells[c].awaited -> "done"
                   [] plan = {cell} -> "submitting"
                   [] OTHER -> "restoring"
<1>1. /\ Typed /\ Locked /\ WasAdded /\ cells[c].stage = "restoring" /\ c \in Busy
      /\ UNCHANGED <<process, starts, holder, restored, log, book, effects, alone>>
  BY DEF Sound, Restore, Busy
<1>2. plan \in SUBSET Cells /\ plan # {} /\ plan \subseteq Replayable /\ cells[c] \in CallShape
  BY <1>1, TypedFacts DEF WasAdded
<1>3. cell \in plan
  <2>1. \A d \in plan : Has("added", d)
    BY <1>1, <1>2 DEF Replayable, WasAdded
  <2> HIDE DEF plan
  <2> QED BY <1>1, <1>2, <2>1, FirstOfPlan
<1>4. /\ st \in {"done", "submitting", "restoring"} /\ st \in Stage /\ rest \in SUBSET Cells
      /\ cells[c].awaited /\ rest = {} => st = "submitting"
      /\ rest # {} => st \in {"done", "restoring"}
      /\ st = "restoring" => rest # {} /\ rest \subseteq Replayable
  BY <1>2, <1>3 DEF Stage
<1>5. CASE /\ Start
           /\ namespace' = (IF epoch = 0 THEN {} ELSE namespace) \cup {cell}
           /\ cells' = [cells EXCEPT ![c].plan = rest, ![c].stage = st]
  <2> DEFINE new == AtPlan(cells[c], st, rest)
  <2> HIDE DEF st, rest
  <2>1. Changed(c, new)
    BY <1>5 DEF Changed, AtPlan
  <2>2. /\ new \in CallShape /\ new.stage = st /\ new.awaited = cells[c].awaited
        /\ new.epoch = cells[c].epoch /\ new.plan = rest
        /\ new.mark = cells[c].mark /\ new.start = cells[c].start
    BY ONLY <1>2, <1>4, AtPlanFields
  <2> HIDE DEF new
  <2>3. StepFrame(c) /\ cells'[c] = new
    BY <1>1, <1>4, <2>1, <2>2, StepCall DEF Busy
  <2>4. /\ Typed' /\ WasAdded' /\ Replayable' = Replayable
        /\ \A kind, d : Has(kind, d)' <=> Has(kind, d)
    <3>1. cells'[c].stage \notin Drawn
      BY <1>4, <2>2, <2>3 DEF Drawn
    <3>2. /\ epochs' \in Nat /\ epochs <= epochs' /\ epoch' \in 0..epochs'
          /\ effects' \subseteq Cells /\ book' \in 0..Len(log)
      BY <1>1, <1>5, StartKept DEF Typed
    <3>3. namespace' \subseteq Cells
      BY <1>1, <1>2, <1>3, <1>5 DEF Typed
    <3>4. cells'[c].stage = "restoring" => cells'[c].plan # {} /\ cells'[c].plan \subseteq Replayable
      BY <1>4, <2>2, <2>3
    <3>5. cells'[c].epoch = cells[c].epoch /\ cells'[c].mark = cells[c].mark
      BY <2>2, <2>3
    <3>6. log' = log /\ restored' = restored
      BY <1>1
    <3> QED BY <2>3, <3>1, <3>2, <3>3, <3>4, <3>5, <3>6, PlainStep
  <2>5. Locked'
    BY <1>1, <1>4, <2>2, <2>3, LockedStep DEF Held
  <2>6. ASSUME Quiet PROVE Clean' /\ Restored' /\ EnteredBy(c)'
    <3>1. /\ Clean /\ Restored /\ EnteredBy(c) /\ cells[c].awaited
          /\ \A d \in namespace : d \in Cells /\ (d # c => Has("completed", d))
      BY <1>1, <2>6, QuietFacts
    <3>2. /\ epoch = cells[c].epoch /\ epoch # 0 /\ Replayable \subseteq namespace \cup plan
          /\ \A d \in namespace : Has("completed", d)
      BY <1>1, <3>1 DEF EnteredBy, Opened, Clean
    <3>3. epoch' = epoch /\ namespace' = namespace \cup {cell}
      BY <1>1, <1>5, <3>2, StartKept
    <3>4. Has("completed", cell)
      BY <1>2, <1>3 DEF Replayable
    <3>5. Clean'
      BY <2>4, <3>2, <3>3, <3>4 DEF Clean
    <3>6. Restored'
      BY <1>1, <2>4, <3>1, <3>3 DEF Restored
    <3>7. Replayable \subseteq namespace' \cup rest
      BY <3>2, <3>3 DEF rest
    <3>8. EnteredBy(c)'
      BY <1>4, <2>2, <2>3, <2>4, <3>2, <3>3, <3>7 DEF EnteredBy, Opened
    <3> QED BY <3>5, <3>6, <3>8
  <2> QED BY <2>3, <2>4, <2>5, <2>6, CombineStep
<1>6. CASE /\ Discard
           /\ cells' = [cells EXCEPT ![c].stage = "done", ![c].status = "blocked"]
  <2> DEFINE new == AtStatus(cells[c], "done", "blocked")
  <2>1. Changed(c, new)
    BY <1>6 DEF Changed, AtStatus
  <2>2. /\ new \in CallShape /\ new.stage = "done" /\ new.awaited = cells[c].awaited
        /\ new.epoch = cells[c].epoch
        /\ new.mark = cells[c].mark /\ new.start = cells[c].start
    <3>1. "done" \in Stage /\ "blocked" \in Status
      BY DEF Stage, Status
    <3> QED BY ONLY <1>2, <3>1, AtStatusFields
  <2> HIDE DEF new
  <2>3. StepFrame(c) /\ cells'[c] = new
    BY <1>1, <2>1, <2>2, StepCall DEF Busy
  <2>4. /\ Typed' /\ WasAdded' /\ Replayable' = Replayable
        /\ \A kind, d : Has(kind, d)' <=> Has(kind, d)
    <3>1. cells'[c].stage \notin Drawn /\ cells'[c].stage # "restoring"
      BY <2>2, <2>3 DEF Drawn
    <3>2. /\ epochs' \in Nat /\ epochs <= epochs' /\ epoch' \in 0..epochs'
          /\ namespace' \subseteq Cells /\ effects' \subseteq Cells /\ book' \in 0..Len(log)
      BY <1>1, <1>6 DEF Discard, Typed
    <3>3. cells'[c].epoch = cells[c].epoch /\ cells'[c].mark = cells[c].mark
      BY <2>2, <2>3
    <3>4. log' = log /\ restored' = restored
      BY <1>1
    <3> QED BY <2>3, <3>1, <3>2, <3>3, <3>4, PlainStep
  <2>5. Locked'
    BY <1>1, <2>2, <2>3, LockedStep DEF Held
  <2>6. Clean' /\ Restored' /\ EnteredBy(c)'
    BY <1>6, <2>2, <2>3 DEF Clean, Restored, EnteredBy, Opened, Discard
  <2> QED BY <2>3, <2>4, <2>5, <2>6, CombineStep
<1> QED BY <1>5, <1>6 DEF Restore

-----------------------------------------------------------------------------
(* A call is made, the run is cancelled, the process stops and goes on.    *)

LEMMA CallSound ==
    ASSUME Sound, NEW c \in Cells, Call(c)
    PROVE  Sound'
<1> USE DEF kernel
<1> DEFINE new == AtStart(cells[c], "epoch", starts)
<1>1. /\ Typed /\ Locked /\ Awaited /\ WasAdded /\ Single /\ Faithful
      /\ process = "running" /\ cells[c].stage = "idle"
      /\ alone' = (alone /\ Busy = {}) /\ Changed(c, new)
      /\ UNCHANGED <<process, starts, kernel, holder, restored, log, book, effects>>
  BY DEF Sound, Call, Changed, AtStart
<1>2. /\ cells[c] \in CallShape /\ cells \in [Cells -> CallShape] /\ starts \in Nat
      /\ cells[c].awaited /\ "epoch" \in Stage
  BY <1>1, NotebookAssumption DEF Typed, Awaited, Stage
<1>3. /\ new \in CallShape /\ new.stage = "epoch" /\ new.awaited = cells[c].awaited
      /\ new.epoch = cells[c].epoch /\ new.mark = cells[c].mark
  <2>1. cells[c] \in CallShape /\ "epoch" \in Stage /\ starts \in Nat
    BY ONLY <1>2
  <2> QED BY ONLY <2>1, AtStartFields
<1> HIDE DEF new
<1>4. /\ cells' \in [Cells -> CallShape] /\ cells'[c] = new
      /\ \A d \in Cells : d # c => cells'[d] = cells[d]
  BY <1>1, <1>2, <1>3, ChangedCall
<1>5. \A d \in Cells : cells'[d].epoch = cells[d].epoch /\ cells'[d].mark = cells[d].mark
  BY <1>3, <1>4
<1>6. Typed'
  BY <1>1, <1>4, <1>5 DEF Typed
<1>7. Busy' = Busy \cup {c}
  BY <1>1, <1>3, <1>4 DEF Busy
<1>8. Locked'
  BY <1>1, <1>3, <1>4 DEF Locked, Held
<1>9. Awaited'
  <2>1. process' = "running" /\ Busy \subseteq Cells
    BY <1>1 DEF Busy
  <2>2. ASSUME NEW d \in Cells PROVE cells'[d].awaited = cells[d].awaited
    BY <1>3, <1>4
  <2>3. \A d \in Cells : cells'[d].stage = "idle" => cells[d].stage = "idle"
    BY <1>1, <1>4
  <2>4. \A d \in Busy' : cells'[d].awaited
    <3> HIDE DEF Busy
    <3> QED BY <1>1, <1>2, <1>7, <2>1, <2>2 DEF Awaited
  <2>5. \A d \in Cells : cells'[d].stage = "idle" => cells'[d].awaited
    BY <1>1, <2>2, <2>3 DEF Awaited
  <2> QED BY <2>1, <2>4, <2>5 DEF Awaited
<1>10. /\ \A kind, d : Has(kind, d)' <=> Has(kind, d)
       /\ Replayable' = Replayable
  BY <1>1, SameLog
<1>11. WasAdded'
  BY <1>1, <1>3, <1>4, <1>10 DEF WasAdded, Drawn
<1>12. Single'
  BY <1>1, <1>7 DEF Single
<1>13. Faithful'
  <2> SUFFICES ASSUME Quiet' PROVE Clean' /\ Restored' /\ Entered'
    BY DEF Faithful
  <2>1. Quiet /\ Busy = {}
    BY <1>1 DEF Quiet
  <2>2. Clean /\ Restored /\ \A d \in Cells : cells[d].stage \in {"idle", "done"}
    BY <1>1, <2>1 DEF Faithful, Busy
  <2>3. \A d \in namespace : d \in Cells /\ Has("completed", d)
    BY <1>1, <2>2 DEF Clean, Typed
  <2>4. Clean' /\ Restored'
    BY <1>1, <1>10, <2>2, <2>3 DEF Clean, Restored
  <2>5. ASSUME NEW d \in Cells PROVE EnteredBy(d)'
    <3>1. cells'[d].stage \in {"idle", "done", "epoch"}
      BY <1>3, <1>4, <2>2
    <3> QED BY <3>1 DEF EnteredBy, Opened
  <2> QED BY <2>4, <2>5 DEF Entered
<1>14. ClosedBookIsCurrent'
  BY <1>1 DEF ClosedBookIsCurrent
<1> QED BY <1>6, <1>8, <1>9, <1>11, <1>12, <1>13, <1>14 DEF Sound

(* A step that ends or leaves alone each call. *)
LEMMA CallsEnded ==
    ASSUME Typed, WasAdded, Single, log' = log, alone' = alone,
           \A c \in Cells : /\ cells'[c].plan = cells[c].plan
                            /\ \/ cells'[c].stage = cells[c].stage
                               \/ cells'[c].stage = "done" /\ c \in Busy
    PROVE  /\ Busy' \subseteq Busy /\ WasAdded' /\ Single'
<1>1. Busy' \subseteq Busy
  BY DEF Busy
<1>2. Single'
  BY <1>1 DEF Single
<1>3. WasAdded'
  BY SameLog DEF WasAdded, Drawn
<1> QED BY <1>1, <1>2, <1>3

LEMMA CancelSound ==
    ASSUME Sound, Cancel
    PROVE  Sound'
<1> USE DEF kernel
<1> DEFINE st(c) == IF cells[c].stage \in Threads THEN cells[c].stage ELSE "done"
<1>1. /\ Typed /\ Locked /\ Awaited /\ WasAdded /\ Single
      /\ process = "running" /\ process' = "cancelled"
      /\ cells' = [c \in Cells |-> IF c \notin Busy THEN cells[c]
                                   ELSE [cells[c] EXCEPT !.awaited = FALSE, !.stage = st(c)]]
      /\ UNCHANGED <<starts, kernel, holder, restored, log, book, effects, alone>>
  BY DEF Sound, Cancel
<1>2. ASSUME NEW c \in Cells
      PROVE  /\ cells'[c] \in CallShape
             /\ cells'[c].epoch = cells[c].epoch /\ cells'[c].mark = cells[c].mark
             /\ cells'[c].plan = cells[c].plan
             /\ c \notin Busy => cells'[c] = cells[c]
             /\ c \in Busy => cells'[c].stage = st(c) /\ ~cells'[c].awaited
  <2>1. cells[c] \in CallShape /\ st(c) \in Stage
    BY <1>1, TypedFacts DEF Stage
  <2>2. CASE c \notin Busy
    BY <1>1, <2>1, <2>2
  <2>3. CASE c \in Busy
    <3> HIDE DEF st
    <3>1. cells'[c] = [cells[c] EXCEPT !.awaited = FALSE, !.stage = st(c)]
      BY <1>1, <2>3
    <3> QED BY <2>1, <2>3, <3>1 DEF CallShape
  <2> QED BY <2>2, <2>3
<1>3. cells' \in [Cells -> CallShape]
  <2>1. cells' = [c \in Cells |-> cells'[c]]
    BY <1>1
  <2> QED BY <1>2, <2>1
<1>4. Typed'
  BY <1>1, <1>2, <1>3 DEF Typed
<1>5. ASSUME NEW c \in Cells
      PROVE  /\ cells'[c].stage = cells[c].stage \/ (cells'[c].stage = "done" /\ c \in Busy)
             /\ cells[c].stage \in Held => cells'[c].stage \in Held
  <2>1. cells[c].stage \in Held => cells[c].stage \in Threads
    BY DEF Held, Threads
  <2> QED BY <1>2, <2>1
<1>6. Busy' \subseteq Busy /\ WasAdded' /\ Single'
  BY <1>1, <1>2, <1>5, CallsEnded
<1>7. Locked'
  <2>1. \A c \in Cells : cells'[c].stage \in Held <=> cells[c].stage \in Held
    BY <1>5 DEF Held
  <2> QED BY <1>1, <2>1 DEF Locked
<1>8. Awaited'
  <2>1. \A c \in Busy' : ~cells'[c].awaited
    BY <1>2, <1>6 DEF Busy
  <2>2. \A c \in Cells : cells'[c].stage = "idle" => cells'[c].awaited
    BY <1>1, <1>2, <1>5 DEF Awaited, Busy
  <2> QED BY <1>1, <2>1, <2>2 DEF Awaited
<1>9. Faithful' /\ ClosedBookIsCurrent'
  BY <1>1 DEF Faithful, Quiet, ClosedBookIsCurrent
<1> QED BY <1>4, <1>6, <1>7, <1>8, <1>9 DEF Sound

LEMMA StopSound ==
    ASSUME Sound, Stop
    PROVE  Sound'
<1>1. /\ Typed /\ Awaited /\ WasAdded /\ Single /\ process' = "down"
      /\ epoch' = 0 /\ namespace' = {} /\ epochs' = epochs
      /\ holder' = Nobody /\ restored' = 0
      /\ cells' = [c \in Cells |-> IF c \notin Busy THEN cells[c]
                                   ELSE [cells[c] EXCEPT !.stage = "done", !.status = "lost"]]
      /\ UNCHANGED <<starts, log, book, effects, alone>>
  BY DEF Sound, Stop, Discard
<1>2. ASSUME NEW c \in Cells
      PROVE  /\ cells'[c] \in CallShape
             /\ cells'[c].epoch = cells[c].epoch /\ cells'[c].mark = cells[c].mark
             /\ cells'[c].plan = cells[c].plan /\ cells'[c].awaited = cells[c].awaited
             /\ c \notin Busy => cells'[c] = cells[c]
             /\ c \in Busy => cells'[c].stage = "done"
  <2>1. cells[c] \in CallShape /\ "done" \in Stage /\ "lost" \in Status
    BY <1>1, TypedFacts DEF Stage, Status
  <2>2. CASE c \notin Busy
    BY <1>1, <2>1, <2>2
  <2>3. CASE c \in Busy
    <3>1. cells'[c] = [cells[c] EXCEPT !.stage = "done", !.status = "lost"]
      BY <1>1, <2>3
    <3> QED BY <2>1, <2>3, <3>1 DEF CallShape
  <2> QED BY <2>2, <2>3
<1>3. cells' \in [Cells -> CallShape]
  <2>1. cells' = [c \in Cells |-> cells'[c]]
    BY <1>1
  <2> QED BY <1>2, <2>1
<1>4. Typed'
  <2>0. epochs \in Nat
    BY <1>1 DEF Typed
  <2>1. epochs \in Nat /\ 0 \in 0..epochs
    BY <2>0
  <2> QED BY <1>1, <1>2, <1>3, <2>1 DEF Typed
<1>5. Busy' = {}
  BY <1>2 DEF Busy
<1>6. WasAdded' /\ Single'
  BY <1>1, <1>2, CallsEnded
<1>7. Locked'
  BY <1>1, <1>5, NotebookAssumption DEF Locked, Busy, Held
<1>8. Awaited'
  <2>1. \A c \in Cells : cells'[c].stage = "idle" => cells'[c].awaited
    BY <1>1, <1>2 DEF Awaited, Busy
  <2> QED BY <1>1, <1>5, <2>1 DEF Awaited
<1>9. Faithful' /\ ClosedBookIsCurrent'
  BY <1>1 DEF Faithful, Quiet, ClosedBookIsCurrent
<1> QED BY <1>4, <1>6, <1>7, <1>8, <1>9 DEF Sound

LEMMA ResumeSound ==
    ASSUME Sound, Resume
    PROVE  Sound'
<1> USE DEF kernel
<1>1. /\ Typed /\ Locked /\ Awaited /\ WasAdded /\ Single
      /\ process = "down" /\ process' = "running" /\ starts < MaxStarts /\ starts' = starts + 1
      /\ UNCHANGED <<kernel, holder, restored, log, book, cells, effects, alone>>
  BY DEF Sound, Resume
<1>2. Busy' = Busy /\ Busy = {} /\ epoch = 0 /\ namespace = {}
  BY <1>1 DEF Awaited, Busy
<1>3. Typed'
  <2>1. starts' \in 1..MaxStarts
    BY <1>1, NotebookAssumption DEF Typed
  <2> QED BY <1>1, <2>1 DEF Typed
<1>4. Locked' /\ Single'
  BY <1>1, <1>2 DEF Locked, Single
<1>5. Awaited'
  BY <1>1, <1>2 DEF Awaited
<1>6. (\A kind, d : Has(kind, d)' <=> Has(kind, d)) /\ Replayable' = Replayable
  BY <1>1, SameLog
<1>7. WasAdded'
  BY <1>1, <1>6 DEF WasAdded
<1>8. Faithful'
  <2>1. Clean' /\ Restored'
    BY <1>1, <1>2 DEF Clean, Restored
  <2>2. \A d \in Cells : cells'[d].stage \in {"idle", "done"}
    BY <1>1, <1>2 DEF Busy
  <2> QED BY <2>1, <2>2 DEF Faithful, Entered, EnteredBy, Opened
<1>9. ClosedBookIsCurrent'
  BY <1>1 DEF ClosedBookIsCurrent
<1> QED BY <1>3, <1>4, <1>5, <1>7, <1>8, <1>9 DEF Sound

LEMMA CloseSound ==
    ASSUME Sound, Close
    PROVE  Sound'
<1>1. /\ Typed /\ Locked /\ Awaited /\ WasAdded /\ Single /\ ClosedBookIsCurrent
      /\ process = "closing" /\ process' = "closed"
      /\ epoch' = 0 /\ namespace' = {} /\ epochs' = epochs
      /\ UNCHANGED <<starts, holder, restored, log, book, cells, effects, alone>>
  BY DEF Sound, Close, Discard
<1>2. epochs \in Nat
  BY <1>1 DEF Typed
<1>3. Typed'
  BY <1>1, <1>2 DEF Typed
<1>4. Busy' = Busy
  BY <1>1 DEF Busy
<1>5. Locked' /\ Single' /\ Awaited'
  BY <1>1, <1>4 DEF Locked, Single, Awaited
<1>6. (\A kind, d : Has(kind, d)' <=> Has(kind, d)) /\ Replayable' = Replayable
  BY <1>1, SameLog
<1>7. WasAdded'
  BY <1>1, <1>6 DEF WasAdded
<1>8. Faithful'
  BY <1>1 DEF Faithful, Quiet
<1>9. ClosedBookIsCurrent'
  BY <1>1 DEF ClosedBookIsCurrent, Active
<1> QED BY <1>3, <1>5, <1>7, <1>8, <1>9 DEF Sound

(* The events of a snapshot: none, or one that moves no watermark. *)
LEMMA SnapshotLog ==
    ASSUME Typed
    PROVE  SnapshotEvents = <<>> \/ \E e \in LogEvent :
               /\ e.kind = "snapshot" /\ e.epoch \in 0..epochs /\ SnapshotEvents = <<e>>
<1> DEFINE added == {i \in DOMAIN log : log[i].kind = "added"}
           n == IF added = {} THEN 0 ELSE log[Max(added)].epoch
           e == Event("snapshot", Nobody, n)
<1>1. SnapshotEvents = <<>> \/ SnapshotEvents = <<e>>
  BY DEF SnapshotEvents
<1>2. /\ Len(log) \in Nat /\ DOMAIN log = 1..Len(log) /\ epochs \in Nat
      /\ \A i \in DOMAIN log : log[i].epoch \in 0..epochs
  BY LenProperties DEF Typed
<1>3. n \in 0..epochs
  <2>1. CASE added = {}
    BY <1>2, <2>1
  <2>2. CASE added # {}
    <3>1. added \in SUBSET (1..Len(log))
      BY <1>2
    <3>2. \E i \in added : \A j \in added : j <= i
      <4> HIDE DEF added
      <4> QED BY <1>2, <2>2, <3>1, LastPosition
    <3>3. \E i \in added : \A j \in added : i >= j
      <4>1. \A i, j \in added : i \in Nat /\ j \in Nat
        BY <1>2
      <4> HIDE DEF added
      <4> QED BY <3>2, <4>1
    <3>4. Max(added) \in added
      <4> HIDE DEF added
      <4> QED BY <3>3 DEF Max
    <3>5. Max(added) \in DOMAIN log
      BY <3>4
    <3> HIDE DEF added
    <3> QED BY <1>2, <2>2, <3>5
  <2> QED BY <2>1, <2>2
<1>4. n \in Nat
  BY <1>2, <1>3
<1> HIDE DEF n
<1>5. e \in LogEvent /\ e.kind = "snapshot" /\ e.epoch = n
  BY <1>4, EventTyped DEF Kinds
<1> HIDE DEF e
<1> QED BY <1>1, <1>3, <1>5

LEMMA SnapshotSound ==
    ASSUME Sound, Snapshot
    PROVE  Sound'
<1> USE DEF kernel
<1> DEFINE added == IF Active THEN SnapshotEvents ELSE <<>>
<1>1. /\ Typed /\ Locked /\ Awaited /\ WasAdded /\ Single
      /\ process \in {"running", "cancelled"} /\ process = "running" => Busy = {}
      /\ process' = "closing" /\ log' = log \o added
      /\ book' = IF Active THEN Watermark(log) ELSE book
      /\ UNCHANGED <<starts, kernel, holder, restored, cells, effects, alone>>
  BY DEF Sound, Snapshot, Closing
<1>2. /\ log \in Seq(LogEvent) /\ Len(log) \in Nat /\ book \in 0..Len(log)
      /\ \A i \in DOMAIN log : log[i].epoch \in 0..epochs
      /\ Watermark(log) \in 0..Len(log)
  BY <1>1, LenProperties, WatermarkTyped DEF Typed
<1>3. \/ log' = log
      \/ \E e \in LogEvent : e.kind = "snapshot" /\ e.epoch \in 0..epochs /\ log' = Append(log, e)
  <2>1. added = <<>> \/ \E e \in LogEvent :
            e.kind = "snapshot" /\ e.epoch \in 0..epochs /\ added = <<e>>
    BY <1>1, SnapshotLog
  <2>2. CASE added = <<>>
    <3>1. log \o <<>> = log
      BY <1>2, ConcatEmptySeq
    <3> HIDE DEF added
    <3> QED BY <1>1, <2>2, <3>1
  <2>3. ASSUME NEW e \in LogEvent, e.kind = "snapshot", e.epoch \in 0..epochs, added = <<e>>
        PROVE  log' = Append(log, e)
    <3>1. Append(log, e) = log \o <<e>>
      BY <1>2, AppendIsConcat
    <3> HIDE DEF added
    <3> QED BY <1>1, <2>3, <3>1
  <2> HIDE DEF added
  <2> QED BY <2>1, <2>2, <2>3
<1> HIDE DEF added
<1>4. /\ log' \in Seq(LogEvent) /\ Len(log') \in Nat /\ Len(log) <= Len(log')
      /\ \A i \in DOMAIN log' : log'[i].epoch \in 0..epochs
      /\ Watermark(log') = Watermark(log)
      /\ Replayable' = Replayable
      /\ \A d : /\ Has("completed", d)' <=> Has("completed", d)
                /\ Has("added", d)' <=> Has("added", d)
  <2>1. CASE log' = log
    BY <1>2, <2>1, SameLog
  <2>2. ASSUME NEW e \in LogEvent, e.kind = "snapshot", e.epoch \in 0..epochs,
               log' = Append(log, e)
        PROVE  <1>4
    <3>1. /\ log' \in Seq(LogEvent) /\ Len(log') = Len(log) + 1
          /\ \A i \in DOMAIN log' : log'[i].epoch \in 0..epochs
          /\ \A kind, d : Has(kind, d)' <=> Has(kind, d) \/ (e.kind = kind /\ e.cell = d)
          /\ e.kind # "completed" => Replayable' = Replayable
      BY <1>1, <2>2, LongerLog
    <3>2. e.kind \notin Marked
      BY <2>2 DEF Marked
    <3>3. Watermark(log') = Watermark(log)
      BY <1>2, <2>2, <3>2, WatermarkKept
    <3> QED BY <1>2, <2>2, <3>1, <3>3
  <2> QED BY <1>3, <2>1, <2>2
<1>5. book' \in 0..Len(log')
  BY <1>1, <1>2, <1>4
<1>6. Typed'
  <2>1. \A c \in Cells : cells[c].mark \in 0..Len(log')
    BY <1>1, <1>2, <1>4, TypedFacts
  <2> QED BY <1>1, <1>4, <1>5, <2>1 DEF Typed
<1>7. Busy' = Busy /\ Busy \subseteq Cells
  BY <1>1 DEF Busy
<1>8. Locked' /\ Single'
  BY <1>1, <1>7 DEF Locked, Single
<1>9. Awaited'
  <2>1. \A c \in Busy : ~cells[c].awaited
    BY <1>1 DEF Awaited
  <2> HIDE DEF Busy
  <2> QED BY <1>1, <1>7, <2>1 DEF Awaited
<1>10. WasAdded'
  BY <1>1, <1>4 DEF WasAdded
<1>11. Faithful'
  BY <1>1 DEF Faithful, Quiet
<1>12. ClosedBookIsCurrent'
  BY <1>1, <1>4 DEF ClosedBookIsCurrent, Active
<1> QED BY <1>6, <1>8, <1>9, <1>10, <1>11, <1>12 DEF Sound

LEMMA StandstillSound ==
    ASSUME Sound, UNCHANGED vars
    PROVE  Sound'
<1>1. UNCHANGED <<process, starts, epoch, epochs, namespace, holder, restored, log, book,
                  cells, effects, alone>>
  BY DEF vars, kernel
<1>2. Typed' /\ Locked' /\ Awaited' /\ Single'
  BY <1>1 DEF Sound, Typed, Locked, Awaited, Single, Busy
<1>3. (\A kind, d : Has(kind, d)' <=> Has(kind, d)) /\ Replayable' = Replayable
  BY <1>1, SameLog
<1>4. WasAdded' /\ Faithful' /\ ClosedBookIsCurrent'
  BY <1>1, <1>3 DEF Sound, WasAdded, Faithful, Quiet, Clean, Restored, Entered, EnteredBy,
                    ClosedBookIsCurrent, Active
<1> QED BY <1>2, <1>4 DEF Sound

-----------------------------------------------------------------------------
(* The theorems.                                                           *)

LEMMA InitSound ==
    ASSUME Init
    PROVE  Sound
<1>1. /\ NoCell \in CallShape /\ NoCell.stage = "idle" /\ NoCell.epoch = 0
      /\ NoCell.mark = 0 /\ NoCell.awaited
  BY DEF NoCell, CallShape, Stage, Status
<1> HIDE DEF NoCell
<1>2. \A c \in Cells : cells[c] = NoCell
  BY DEF Init
<1>3. cells \in [Cells -> CallShape]
  BY <1>1 DEF Init
<1>4. log = <<>> /\ log \in Seq(LogEvent) /\ Len(log) = 0 /\ DOMAIN log = {}
  BY EmptySeq DEF Init
<1>5. Typed
  BY <1>1, <1>2, <1>3, <1>4, NotebookAssumption DEF Init, Typed
<1>6. Busy = {}
  BY <1>1, <1>2 DEF Busy
<1>7. Locked /\ Awaited /\ Single
  BY <1>1, <1>2, <1>6, NotebookAssumption DEF Init, Locked, Held, Awaited, Single
<1>8. WasAdded
  BY <1>1, <1>2, <1>4 DEF WasAdded, Has, Drawn
<1>9. Faithful
  BY <1>1, <1>2 DEF Init, Faithful, Clean, Restored, Entered, EnteredBy, Opened
<1>10. ClosedBookIsCurrent
  BY DEF Init, ClosedBookIsCurrent
<1> QED BY <1>5, <1>7, <1>8, <1>9, <1>10 DEF Sound

LEMMA NextSound ==
    ASSUME Sound, [Next]_vars
    PROVE  Sound'
<1>1. ASSUME NEW c \in Cells, Step(c) PROVE Sound'
  <2>1. CASE ReadEpoch(c) \/ Open(c) \/ Restore(c) \/ Submit(c) \/ Draw(c) \/ Take(c)
    BY <2>1, ReadEpochSound, OpenSound, RestoreSound, SubmitSound, DrawSound, TakeSound
  <2>2. CASE Invoke(c) \/ Finish(c) \/ Fail(c)
    BY <2>2, InvokeSound, FinishSound, FailSound
  <2>3. CASE Answer(c)
    BY <2>3, CapabilitySound DEF Answer, Held
  <2>4. CASE Return(c) \/ Reset(c) \/ End(c) \/ Record(c)
    BY <2>4, ReturnSound, ResetSound, EndSound, RecordSound
  <2> QED BY <1>1, <2>1, <2>2, <2>3, <2>4 DEF Step
<1>2. ASSUME NEW c \in Cells, Call(c) PROVE Sound'
  BY <1>2, CallSound
<1>3. ASSUME NEW c \in Cells, Capability(c) PROVE Sound'
  BY <1>3, CapabilitySound DEF Capability, Held
<1>4. CASE Cancel \/ Snapshot \/ Close \/ Stop \/ Resume
  BY <1>4, CancelSound, SnapshotSound, CloseSound, StopSound, ResumeSound
<1>5. CASE UNCHANGED vars
  BY <1>5, StandstillSound
<1> QED BY <1>1, <1>2, <1>3, <1>4, <1>5 DEF Next

LEMMA SoundAlways == Spec => []Sound
<1>1. Init => Sound
  BY InitSound
<1>2. Sound /\ [Next]_vars => Sound'
  BY NextSound
<1> QED BY <1>1, <1>2, PTL DEF Spec

(* Values are of their kinds, and the lock of the kernel is held by the call
   whose cell runs, and by no other. *)
THEOREM TypesCorrect == Spec => []TypeOK
<1>1. Sound => TypeOK
  <2> SUFFICES ASSUME Typed, Locked PROVE TypeOK
    BY DEF Sound
  <2>1. \A i \in DOMAIN log : log[i] \in LogEvent /\ log[i].epoch \in 0..epochs
    BY ElementOfSeq, LenProperties DEF Typed
  <2>2. \A i \in DOMAIN log : log[i].kind \in Kinds
    BY <2>1 DEF LogEvent
  <2>3. \A c \in Cells : cells[c].stage \in Stage
    BY TypedFacts
  <2> QED BY <2>1, <2>2, <2>3 DEF Typed, Locked, TypeOK
<1> QED BY <1>1, SoundAlways, PTL

(* While calls are made one at a time, a cell runs in the kernel whose epoch
   it reports, which holds the assignments of every completed safe cell and
   of no cell that has not completed: through errors, timeouts, failed
   replays, cancelled runs and restarts of the process. *)
THEOREM KernelRestored == Spec => []RunsInRestoredKernel
<1>1. Sound => RunsInRestoredKernel
  <2> SUFFICES ASSUME Sound, NEW c \in Cells, alone, cells[c].stage = "running",
                      cells[c].awaited
               PROVE  /\ epoch = cells[c].epoch /\ Replayable \subseteq namespace
                      /\ \A d \in namespace : Has("completed", d)
    BY DEF RunsInRestoredKernel
  <2>1. c \in Busy
    BY DEF Busy
  <2>2. Quiet
    BY <2>1 DEF Quiet, Sound, Awaited
  <2>3. /\ Clean /\ Restored /\ EnteredBy(c)
        /\ \A d \in namespace : d \in Cells /\ (d # c => Has("completed", d))
    BY <2>1, <2>2, QuietFacts
  <2>4. epoch = cells[c].epoch /\ epoch # 0 /\ restored = epoch
    BY <2>3 DEF EnteredBy, Opened
  <2> QED BY <2>3, <2>4 DEF Clean, Restored
<1> QED BY <1>1, SoundAlways, PTL

(* The file of a closed notebook that had a call in this process shows all
   its events, unless a cancelled call's thread is left behind: whatever
   order the drawings of parallel calls took. *)
THEOREM ClosedBookDrawn == Spec => []ClosedBookIsCurrent
<1>1. Sound => ClosedBookIsCurrent
  BY DEF Sound
<1> QED BY <1>1, SoundAlways, PTL
=============================================================================
