--------------------------- MODULE ToolCallsProofs ---------------------------
(***************************************************************************)
(* Theorems about ToolCalls, for any calls, commands, mutations and        *)
(* bounds: no answered or lapsed wait lets a command run that it should    *)
(* not, and no call answers with a success that the file never had.        *)
(***************************************************************************)
EXTENDS ToolCalls, TLAPS

-----------------------------------------------------------------------------
(* Types.                                                                  *)

Flags  == {"cell", "awaited", "asked", "again", "applies", "launched", "lapsed"}
Fields == Flags \cup {"row", "mutation", "basis", "stage", "seen", "before", "after",
                      "outcome"}

Asking   == {"consulting", "requesting", "cleared", "running", "replied", "opening",
             "waiting", "lapsing", "closing"}
Mutating == {"beginning", "reading", "checking", "replacing", "finishing"}

(* A call asks for a command or mutates the file, and knows which. *)
OneCall(x) ==
    /\ DOMAIN x = Fields
    /\ x.row \in Rows \cup {Nothing} /\ x.mutation \in Mutations \cup {Nothing}
    /\ x.stage \in Stage /\ x.outcome \in Outcome /\ x.seen \in RowStatus
    /\ \A f \in Flags : x[f] \in BOOLEAN
    /\ x.stage \in Asking => x.row \in Rows
    /\ x.stage \in Mutating => x.mutation \in Mutations

CallsOK == DOMAIN calls = Calls /\ \A c \in Calls : OneCall(calls[c])

StoresOK ==
    /\ interactive \in BOOLEAN
    /\ process \in {"running", "cancelled", "down"} /\ starts \in 1 .. MaxStarts
    /\ rows \in [Rows -> RowStatus]
    /\ waits \subseteq Rows /\ deciding \subseteq Rows \X Decisions
    /\ file.here \in BOOLEAN
    /\ \A k \in DOMAIN receipts : receipts[k] \in {"started", "completed", "failed"}

Typed == CallsOK /\ StoresOK

(* Typed says more than TypeOK. *)
LEMMA TypedImplies == Typed => TypeOK
BY DEF Typed, CallsOK, StoresOK, OneCall, Flags, TypeOK

(* Changing a call's stage, outcome or flags leaves it one call. *)
LEMMA Stepped ==
  ASSUME NEW x, OneCall(x), NEW s \in Stage,
         s \in Asking => x.row \in Rows, s \in Mutating => x.mutation \in Mutations
  PROVE  OneCall([x EXCEPT !.stage = s])
BY DEF OneCall, Fields, Flags

LEMMA Ended ==
  ASSUME NEW x, OneCall(x), NEW o \in Outcome
  PROVE  OneCall([x EXCEPT !.stage = "done", !.outcome = o])
BY DEF OneCall, Fields, Flags, Stage, Asking, Mutating

(* A step of one call, in terms of that call alone. *)
LEMMA Changes ==
  ASSUME CallsOK, NEW c \in Calls, NEW x, OneCall(x), calls' = [calls EXCEPT ![c] = x]
  PROVE  CallsOK'
BY DEF CallsOK

LEMMA Moves ==
  ASSUME CallsOK, NEW c \in Calls, NEW s \in Stage, Move(c, s),
         s \in Asking => calls[c].row \in Rows,
         s \in Mutating => calls[c].mutation \in Mutations
  PROVE  CallsOK'
<1>1. calls' = [calls EXCEPT ![c] = [calls[c] EXCEPT !.stage = s]]
  BY DEF Move
<1>2. OneCall([calls[c] EXCEPT !.stage = s])
  BY Stepped DEF CallsOK
<1> QED BY <1>1, <1>2, Changes

LEMMA Ends ==
  ASSUME CallsOK, NEW c \in Calls, NEW o \in Outcome, End(c, o)
  PROVE  CallsOK'
<1>1. calls' = [calls EXCEPT ![c] = [calls[c] EXCEPT !.stage = "done", !.outcome = o]]
  BY DEF End
<1>2. OneCall([calls[c] EXCEPT !.stage = "done", !.outcome = o])
  BY Ended DEF CallsOK
<1> QED BY <1>1, <1>2, Changes

LEMMA Blocks ==
  ASSUME CallsOK, NEW c \in Calls, calls[c].row \in Rows, NEW b, Block(c, b)
  PROVE  CallsOK'
<1>1. "replied" \in Stage /\ "replied" \notin Mutating /\ "blocked" \in Outcome
  BY DEF Stage, Mutating, Outcome
<1>2. Move(c, "replied") \/ End(c, "blocked")
  BY DEF Block
<1> QED BY <1>1, <1>2, Moves, Ends

(* A row that is asked about stays one of the statuses a row has. *)
LEMMA RowsTyped ==
  ASSUME StoresOK, NEW r \in Rows
  PROVE  /\ rows[r] \in RowStatus
         /\ Expired(r) \in [Rows -> RowStatus]
         /\ \A d \in Decisions : Decided(r, d) \in [Rows -> RowStatus]
         /\ [rows EXCEPT ![r] = IF @ = "none" THEN "pending" ELSE @] \in [Rows -> RowStatus]
BY DEF StoresOK, Expired, Decided, Decisions, RowStatus

(* What a wait answers, and what a call becomes by a new question. *)
LEMMA Answers ==
  ASSUME CallsOK, NEW c \in Calls, calls[c].row \in Rows, NEW st \in RowStatus,
         calls' = Answered(c, st)
  PROVE  CallsOK'
<1> DEFINE x == [calls[c] EXCEPT !.asked = TRUE, !.seen = st,
                    !.stage = IF st = "approved" THEN "consulting" ELSE "done",
                    !.outcome = IF st = "approved" THEN "none" ELSE "blocked"]
<1>1. calls' = [calls EXCEPT ![c] = x]
  BY DEF Answered
<1>2. OneCall(x)
  BY ZenonT(40) DEF CallsOK, OneCall, Fields, Flags, Stage, Asking, Mutating, Outcome
<1> HIDE DEF x
<1> QED BY <1>1, <1>2, Changes

(* What a call becomes that reads a row. *)
LEMMA Reads ==
  ASSUME CallsOK, NEW c \in Calls, calls[c].row \in Rows, NEW st \in RowStatus,
         NEW s \in {"opening", "closing"},
         calls' = [calls EXCEPT ![c].stage = s, ![c].seen = st]
  PROVE  CallsOK'
<1> DEFINE x == [calls[c] EXCEPT !.stage = s, !.seen = st]
<1>1. calls' = [calls EXCEPT ![c] = x]
  OBVIOUS
<1>2. OneCall(x)
  BY DEF CallsOK, OneCall, Fields, Flags, Stage, Mutating
<1> HIDE DEF x
<1> QED BY <1>1, <1>2, Changes

LEMMA AskTyped ==
  ASSUME Typed, NEW c \in Calls, Ask(c) \/ Check(c) \/ Mutate(c)
  PROVE  Typed'
<1>1. PICK x : OneCall(x) /\ calls' = [calls EXCEPT ![c] = x]
  <2>0. OneCall(calls[c])
    BY DEF Typed, CallsOK
  <2>1. CASE Ask(c)
    <3>0. PICK command \in Commands, cell \in BOOLEAN :
            calls' = [calls EXCEPT ![c].row = <<"bash", command>>, ![c].cell = cell,
                                   ![c].stage = "consulting"]
      BY ONLY <2>1 DEF Ask
    <3>1. calls' = [calls EXCEPT ![c] = [calls[c] EXCEPT !.row = <<"bash", command>>,
                                                         !.cell = cell, !.stage = "consulting"]]
      BY <3>0
    <3>2. <<"bash", command>> \in Rows
      BY DEF Rows, Askers
    <3>3. OneCall([calls[c] EXCEPT !.row = <<"bash", command>>, !.cell = cell,
                                   !.stage = "consulting"])
      BY <2>0, <3>2 DEF OneCall, Fields, Flags, Stage, Mutating
    <3> QED BY <3>1, <3>3
  <2>2. CASE Check(c)
    <3>1. PICK command \in Commands :
            calls' = [calls EXCEPT ![c] = [calls[c] EXCEPT !.row = <<"check", command>>,
                                                           !.stage = "consulting"]]
      BY <2>2 DEF Check
    <3>2. <<"check", command>> \in Rows
      BY DEF Rows, Askers
    <3>3. OneCall([calls[c] EXCEPT !.row = <<"check", command>>, !.stage = "consulting"])
      BY <2>0, <3>2 DEF OneCall, Fields, Flags, Stage, Mutating
    <3> QED BY <3>1, <3>3
  <2>3. CASE Mutate(c)
    <3>1. PICK m \in Mutations :
            calls' = [calls EXCEPT ![c] = [calls[c] EXCEPT !.mutation = m, !.stage = "beginning",
                        !.basis = IF m.expect = "hash" THEN file.text ELSE Nothing]]
      BY <2>3 DEF Mutate
    <3>2. ASSUME NEW b
          PROVE  OneCall([calls[c] EXCEPT !.mutation = m, !.stage = "beginning", !.basis = b])
      BY <2>0 DEF OneCall, Fields, Flags, Stage, Asking
    <3> QED BY <3>1, <3>2
  <2> QED BY <2>1, <2>2, <2>3
<1>2. CallsOK'
  BY <1>1, Changes DEF Typed
<1>3. UNCHANGED <<interactive, process, starts, approvals, mutated>>
  BY DEF Ask, Check, Mutate
<1> QED BY <1>2, <1>3 DEF Typed, StoresOK, approvals, mutated

LEMMA CommandTyped ==
  ASSUME Typed, NEW c \in Calls, CommandStep(c)
  PROVE  Typed'
<1> USE DEF Row
<1>0. /\ CallsOK /\ StoresOK /\ OneCall(calls[c])
      /\ calls[c].stage \in Asking => calls[c].row \in Rows
  BY DEF Typed, CallsOK, OneCall
<1>1. CASE Consult(c) \/ ConsultForCheck(c)
  <2>0. calls[c].stage = "consulting" /\ calls[c].row \in Rows
    BY <1>0, <1>1 DEF Consult, ConsultForCheck, Asking
  <2>1. \/ End(c, "blocked") \/ Block(c, TRUE)
        \/ Move(c, "cleared") \/ Move(c, "requesting")
    BY <1>1 DEF Consult, ConsultForCheck
  <2>2. CallsOK'
    BY <1>0, <2>0, <2>1, Ends, Blocks, Moves DEF Stage, Outcome, Mutating
  <2> QED BY <1>0, <1>1, <2>2
          DEF Consult, ConsultForCheck, Typed, StoresOK, approvals, mutated
<1>2. CASE Request(c)
  <2>0. calls[c].row \in Rows
    BY <1>0, <1>2 DEF Request, Asking
  <2>1. CallsOK'
    BY <1>0, <1>2, <2>0, Blocks DEF Request
  <2>2. rows' \in [Rows -> RowStatus]
    BY <1>0, <1>2, <2>0, RowsTyped DEF Request
  <2> QED BY <1>0, <1>2, <2>1, <2>2 DEF Request, Typed, StoresOK, mutated
<1>3. CASE Launch(c)
  <2>1. calls' = [calls EXCEPT ![c] = [calls[c] EXCEPT !.stage = "running", !.launched = TRUE]]
    BY <1>3 DEF Launch
  <2>2. OneCall([calls[c] EXCEPT !.stage = "running", !.launched = TRUE])
    BY <1>0, <1>3 DEF Launch, OneCall, Fields, Flags, Stage, Asking, Mutating
  <2>3. CallsOK'
    BY <1>0, <2>1, <2>2, Changes
  <2> QED BY <1>0, <1>3, <2>3 DEF Launch, Typed, StoresOK, approvals, mutated
<1>4. CASE Exit(c)
  <2>1. CallsOK'
    BY <1>0, <1>4, Ends DEF Exit, Outcome
  <2> QED BY <1>0, <1>4, <2>1 DEF Exit, Typed, StoresOK, approvals, mutated
<1>5. CASE OpenWait(c)
  <2>0. calls[c].row \in Rows
    BY <1>0, <1>5 DEF OpenWait, Asking
  <2>1. CallsOK'
    BY <1>0, <1>5, <2>0, Reads, RowsTyped DEF OpenWait
  <2> QED BY <1>0, <1>5, <2>1 DEF OpenWait, Typed, StoresOK, approvals, mutated
<1>6. CASE Register(c)
  <2>0. calls[c].row \in Rows /\ calls[c].seen \in RowStatus
    BY <1>0, <1>6 DEF Register, Asking, OneCall
  <2>1. \/ calls' = Answered(c, calls[c].seen)
        \/ End(c, "refused wait") \/ Move(c, "waiting")
    BY <1>6 DEF Register
  <2>2. CallsOK'
    BY <1>0, <2>0, <2>1, Answers, Ends, Moves DEF Stage, Outcome, Mutating
  <2>3. waits' \subseteq Rows
    BY <1>0, <1>6, <2>0 DEF Register, StoresOK
  <2> QED BY <1>0, <1>6, <2>2, <2>3 DEF Register, Typed, StoresOK, mutated
<1>7. CASE Poll(c)
  <2>0. calls[c].row \in Rows
    BY <1>0, <1>7 DEF Poll, Asking
  <2>1. CallsOK'
    BY <1>0, <1>7, <2>0, Reads, RowsTyped DEF Poll
  <2> QED BY <1>0, <1>7, <2>1 DEF Poll, Typed, StoresOK, mutated
<1>8. CASE Lapse(c)
  <2>1. calls' = [calls EXCEPT ![c] = [calls[c] EXCEPT !.stage = "lapsing", !.lapsed = TRUE]]
    BY <1>8 DEF Lapse
  <2>2. OneCall([calls[c] EXCEPT !.stage = "lapsing", !.lapsed = TRUE])
    BY <1>0, <1>8 DEF Lapse, OneCall, Fields, Flags, Stage, Asking, Mutating
  <2>3. CallsOK'
    BY <1>0, <2>1, <2>2, Changes
  <2> QED BY <1>0, <1>8, <2>3 DEF Lapse, Typed, StoresOK, approvals, mutated
<1>9. CASE ExpireLapsed(c)
  <2>0. calls[c].row \in Rows /\ "expired" \in RowStatus
    BY <1>0, <1>9 DEF ExpireLapsed, Asking, RowStatus
  <2>1. CallsOK' /\ rows' \in [Rows -> RowStatus]
    BY <1>0, <1>9, <2>0, Reads, RowsTyped DEF ExpireLapsed
  <2> QED BY <1>0, <1>9, <2>1 DEF ExpireLapsed, Typed, StoresOK, mutated
<1>10. CASE CloseWait(c)
  <2>0. calls[c].row \in Rows /\ calls[c].seen \in RowStatus
    BY <1>0, <1>10 DEF CloseWait, Asking, OneCall
  <2>1. calls' = Answered(c, calls[c].seen) \/ End(c, "lost")
    BY <1>10 DEF CloseWait
  <2>2. CallsOK' /\ rows' \in [Rows -> RowStatus]
    BY <1>0, <1>10, <2>0, <2>1, Answers, Ends, RowsTyped DEF CloseWait, Outcome
  <2> QED BY <1>0, <1>10, <2>2 DEF CloseWait, Typed, StoresOK, mutated
<1> QED BY <1>1, <1>2, <1>3, <1>4, <1>5, <1>6, <1>7, <1>8, <1>9, <1>10 DEF CommandStep

(* A settled call mutates on, towards its end. *)
LEMMA Settles ==
  ASSUME CallsOK, NEW c \in Calls, calls[c].stage \in Mutating,
         NEW verdict, NEW after, Settle(c, verdict, after)
  PROVE  CallsOK'
<1> DEFINE s == CASE verdict # "write" -> "finishing"
                  [] calls[c].stage = "reading" -> "checking"
                  [] OTHER -> "replacing"
           o == Result(verdict)
           x == [calls[c] EXCEPT !.stage = s, !.before = file, !.after = after, !.outcome = o]
<1>0. calls' = [calls EXCEPT ![c].stage = s, ![c].before = file, ![c].after = after,
                             ![c].outcome = o]
  BY ONLY Settle(c, verdict, after) DEF Settle
<1>1. calls' = [calls EXCEPT ![c] = x]
  <2> HIDE DEF s, o
  <2> QED BY <1>0
<1>2. s \in {"finishing", "checking", "replacing"} /\ o \in Outcome
  BY DEF Result, Outcome
<1> HIDE DEF s, o
<1>3. OneCall(x)
  BY <1>2 DEF CallsOK, OneCall, Fields, Flags, Stage, Asking, Mutating
<1> HIDE DEF x
<1> QED BY <1>1, <1>3, Changes

LEMMA MutationTyped ==
  ASSUME Typed, NEW c \in Calls, MutationStep(c)
  PROVE  Typed'
<1>0. /\ CallsOK /\ StoresOK /\ OneCall(calls[c])
      /\ calls[c].stage \in Mutating => calls[c].mutation \in Mutations
  BY DEF Typed, CallsOK, OneCall
<1>1. CASE Begin(c)
  <2>1. CASE End(c, "replayed") /\ UNCHANGED receipts
    <3>1. CallsOK'
      BY <1>0, <2>1, Ends DEF Outcome
    <3> QED BY <1>0, <1>1, <2>1, <3>1 DEF Begin, Typed, StoresOK, approvals
  <2>2. CASE ~(Key(c) \in DOMAIN receipts /\ receipts[Key(c)] = "completed")
    <3> DEFINE s == IF Mutation(c).tool = "edit" THEN "reading" ELSE "checking"
               g == Key(c) \in held /\ \A d \in Busy \ {c} : Key(d) # Key(c)
               x == [calls[c] EXCEPT !.stage = s, !.again = g]
    <3>1. calls' = [calls EXCEPT ![c] = x]
      BY <1>1, <2>2 DEF Begin
    <3>2. s \in {"reading", "checking"} /\ g \in BOOLEAN
      OBVIOUS
    <3> HIDE DEF s, g
    <3>3. OneCall(x)
      BY <1>0, <1>1, <3>2 DEF Begin, OneCall, Fields, Flags, Stage, Asking, Mutating
    <3> HIDE DEF x
    <3>4. CallsOK'
      BY <1>0, <3>1, <3>3, Changes
    <3>5. \A k \in DOMAIN receipts' : receipts'[k] \in {"started", "completed", "failed"}
      BY <1>0, <1>1, <2>2 DEF Begin, StoresOK
    <3> QED BY <1>0, <1>1, <3>4, <3>5 DEF Begin, Typed, StoresOK, approvals
  <2> QED BY <1>1, <2>1, <2>2 DEF Begin
<1>2. CASE ReadForEdit(c)
  <2>1. CallsOK'
    BY <1>0, <1>2, Settles DEF ReadForEdit, Mutating
  <2> QED BY <1>0, <1>2, <2>1 DEF ReadForEdit, Typed, StoresOK, approvals
<1>3. CASE CheckFile(c)
  <2>1. CallsOK'
    BY <1>0, <1>3, Settles DEF CheckFile, Mutating
  <2> QED BY <1>0, <1>3, <2>1 DEF CheckFile, Typed, StoresOK, approvals
<1>4. CASE Replace(c)
  <2> DEFINE x == [calls[c] EXCEPT !.stage = "finishing", !.outcome = "ok", !.applies = TRUE]
  <2>1. calls' = [calls EXCEPT ![c] = x]
    BY <1>4 DEF Replace
  <2>2. OneCall(x)
    BY <1>0, <1>4 DEF Replace, OneCall, Fields, Flags, Stage, Outcome, Asking, Mutating
  <2> HIDE DEF x
  <2>3. CallsOK'
    BY <1>0, <2>1, <2>2, Changes
  <2>4. file'.here \in BOOLEAN
    BY <1>4 DEF Replace
  <2> QED BY <1>0, <1>4, <2>3, <2>4 DEF Replace, Typed, StoresOK, approvals
<1>5. CASE Finish(c)
  <2>1. CallsOK'
    BY <1>0, <1>5, Moves DEF Finish, Stage, Asking, Mutating
  <2>2. \A k \in DOMAIN receipts' : receipts'[k] \in {"started", "completed", "failed"}
    BY <1>0, <1>5 DEF Finish, StoresOK
  <2> QED BY <1>0, <1>5, <2>1, <2>2 DEF Finish, Typed, StoresOK, approvals
<1> QED BY <1>1, <1>2, <1>3, <1>4, <1>5 DEF MutationStep

(* The decisions of persons, and what happens to the run and the process. *)
Around ==
    \/ \E r \in Rows, d \in Decisions : Accept(r, d) \/ StoreDecision(r, d) \/ DecideInStore(r, d)
    \/ Cancel \/ Stop \/ Start

LEMMA AroundTyped ==
  ASSUME Typed, Around
  PROVE  Typed'
<1>0. CallsOK /\ StoresOK
  BY DEF Typed
<1>1. ASSUME NEW r \in Rows, NEW d \in Decisions,
             Accept(r, d) \/ StoreDecision(r, d) \/ DecideInStore(r, d)
      PROVE  Typed'
  <2>1. rows' \in [Rows -> RowStatus]
    BY <1>0, <1>1, RowsTyped DEF Accept, StoreDecision, DecideInStore, StoresOK
  <2>2. deciding' \subseteq Rows \X Decisions
    BY <1>0, <1>1 DEF Accept, StoreDecision, DecideInStore, StoresOK
  <2>3. UNCHANGED <<interactive, process, starts, waits, calls, mutated>>
    BY <1>1 DEF Accept, StoreDecision, DecideInStore
  <2> QED BY <1>0, <2>1, <2>2, <2>3 DEF Typed, CallsOK, StoresOK, mutated
<1>2. CASE Cancel
  <2>1. ASSUME NEW c \in Calls PROVE OneCall(Dropped(calls[c]))
    <3> DEFINE y == calls[c]
               s == CASE y.stage \in {"waiting", "lapsing"} -> "closing"
                      [] y.stage \in {"replied", "opening"} -> "done"
                      [] OTHER -> y.stage
               l == y.lapsed \/ y.stage \in {"replied", "opening", "waiting", "lapsing"}
               o == IF y.stage \in {"replied", "opening"} THEN "lost" ELSE y.outcome
    <3>0. OneCall(y)
      BY <1>0 DEF CallsOK
    <3>1. \/ s = "closing" /\ y.stage \in {"waiting", "lapsing"}
          \/ s = "done"
          \/ s = y.stage
      OBVIOUS
    <3>2. s \in Stage /\ (s \in Asking => y.row \in Rows)
          /\ (s \in Mutating => y.mutation \in Mutations)
      BY <3>0, <3>1 DEF OneCall, Stage, Asking, Mutating
    <3>3. l \in BOOLEAN /\ o \in Outcome
      BY <3>0 DEF OneCall, Flags, Outcome
    <3>4. Dropped(y) = [y EXCEPT !.awaited = FALSE, !.lapsed = l, !.stage = s, !.outcome = o]
      BY DEF Dropped
    <3> HIDE DEF y, s, l, o
    <3>5. OneCall([y EXCEPT !.awaited = FALSE, !.lapsed = l, !.stage = s, !.outcome = o])
      BY <3>0, <3>2, <3>3 DEF OneCall, Fields, Flags
    <3> QED BY <3>4, <3>5 DEF y
  <2>2. CallsOK'
    BY <1>0, <1>2, <2>1 DEF Cancel, CallsOK
  <2>3. waits' \subseteq Rows
    <3>1. \A c \in Busy : InWait(c) => calls[c].row \in Rows
      BY <1>0 DEF Busy, InWait, CallsOK, OneCall, Asking
    <3> QED BY <1>2, <3>1 DEF Cancel
  <2> QED BY <1>0, <1>2, <2>2, <2>3 DEF Cancel, Typed, StoresOK, mutated
<1>3. CASE Stop
  <2>1. CallsOK'
    BY <1>0, <1>3, Ended DEF Stop, CallsOK, Outcome
  <2> QED BY <1>0, <1>3, <2>1 DEF Stop, Typed, StoresOK, mutated
<1>4. CASE Start
  <2>1. starts' \in 1 .. MaxStarts
    BY <1>0, <1>4, LimitsAssumption DEF Start, StoresOK
  <2> QED BY <1>0, <1>4, <2>1 DEF Start, Typed, CallsOK, StoresOK, approvals, mutated
<1> QED BY <1>1, <1>2, <1>3, <1>4 DEF Around

LEMMA TypesStart == Init => Typed
<1> SUFFICES ASSUME Init PROVE Typed
  OBVIOUS
<1>1. OneCall(NoCall)
  BY DEF OneCall, NoCall, Fields, Flags, Stage, Outcome, RowStatus, Asking, Mutating
<1>2. CallsOK
  BY <1>1 DEF Init, CallsOK
<1>3. 1 \in 1 .. MaxStarts
  BY LimitsAssumption
<1>4. rows \in [Rows -> RowStatus] /\ DOMAIN receipts = {}
  BY DEF Init, RowStatus
<1>5. file.here \in BOOLEAN
  <2>1. \E h \in BOOLEAN : \E t : file = [here |-> h, text |-> t]
    <3>1. \/ file = [here |-> FALSE, text |-> <<>>]
          \/ file = [here |-> TRUE, text |-> <<"x">>]
      BY DEF Init
    <3> QED BY <3>1, Zenon
  <2> QED BY <2>1
<1> QED BY <1>2, <1>3, <1>4, <1>5 DEF Init, Typed, StoresOK

LEMMA TypesStep == Typed /\ [Next]_vars => Typed'
<1> SUFFICES ASSUME Typed, [Next]_vars PROVE Typed'
  OBVIOUS
<1>1. CASE UNCHANGED vars
  BY <1>1 DEF vars, Typed, CallsOK, StoresOK, approvals, mutated
<1>2. CASE Next
  BY <1>2, AskTyped, CommandTyped, MutationTyped, AroundTyped DEF Next, CallStep, Around
<1> QED BY <1>1, <1>2

(* Every variable has its type in every reachable state, and a call that asks
   or mutates knows for what. *)
THEOREM TypesCorrect == Spec => []TypeOK
<1>1. Spec => []Typed
  BY TypesStart, TypesStep, PTL DEF Spec
<1> QED BY <1>1, TypedImplies, PTL

-----------------------------------------------------------------------------
(* Commands and decisions.                                                 *)
(*                                                                         *)
(* Neither result is inductive: what a thread will launch was settled when *)
(* it read the row, and what a wait will answer when it ended. Waited says *)
(* which stages a call is past its wait in and what it may then have read; *)
(* Cleared that what let a command start still holds, because a decided    *)
(* row never changes.                                                      *)

Waited ==
    \A c \in Calls :
        /\ calls[c].launched => calls[c].stage \in {"running", "done"}
        /\ calls[c].lapsed =>
              /\ ~calls[c].launched
              /\ calls[c].stage \in {"lapsing", "closing", "done"}
              /\ calls[c].stage = "closing" => ~calls[c].awaited \/ calls[c].seen # "approved"

Cleared ==
    \A c \in Calls :
        calls[c].stage = "cleared" => Command(c) \in Allowed \/ rows[Row(c)] = "approved"

Applied ==
    /\ SuccessWasApplied
    /\ \A c \in Calls : calls[c].stage = "idle" => calls[c].outcome = "none"

Answering == Typed /\ Waited /\ Cleared /\ Applied

(* A row is decided once: approved, denied or expired it stays. *)
LEMMA DecidedForGood ==
  ASSUME Typed, Next, NEW r \in Rows, rows[r] \notin {"none", "pending"}
  PROVE  rows'[r] = rows[r]
<1>0. rows \in [Rows -> RowStatus]
  BY DEF Typed, StoresOK
<1>1. ASSUME NEW c \in Calls, Request(c) \/ ExpireLapsed(c) \/ CloseWait(c)
      PROVE  rows'[r] = rows[r]
  BY <1>0, <1>1 DEF Request, ExpireLapsed, CloseWait, Expired
<1>2. ASSUME NEW c \in Calls, Ask(c) \/ Check(c) \/ Mutate(c) \/ MutationStep(c)
      PROVE  UNCHANGED rows
  BY <1>2 DEF Ask, Check, Mutate, MutationStep, Begin, ReadForEdit, CheckFile, Replace,
              Finish, approvals
<1>3. ASSUME NEW c \in Calls,
             \/ Consult(c) \/ ConsultForCheck(c) \/ Launch(c) \/ Exit(c)
             \/ OpenWait(c) \/ Register(c) \/ Poll(c) \/ Lapse(c)
      PROVE  UNCHANGED rows
  BY <1>3 DEF Consult, ConsultForCheck, Launch, Exit, OpenWait, Register, Poll, Lapse,
              approvals
<1>4. ASSUME NEW q \in Rows, NEW d \in Decisions,
             Accept(q, d) \/ StoreDecision(q, d) \/ DecideInStore(q, d)
      PROVE  rows'[r] = rows[r]
  BY <1>0, <1>4 DEF Accept, StoreDecision, DecideInStore, Decided
<1>5. CASE Cancel \/ Stop \/ Start
  BY <1>5 DEF Cancel, Stop, Start, approvals
<1> QED BY <1>1, <1>2, <1>3, <1>4, <1>5 DEF Next, CallStep, CommandStep

(* A call has all its fields, so that an update of one leaves the others. *)
LEMMA Shape ==
  ASSUME Typed
  PROVE  /\ DOMAIN calls = Calls
         /\ \A c \in Calls :
               DOMAIN calls[c] = {"cell", "awaited", "asked", "again", "applies", "launched",
                                  "lapsed", "row", "mutation", "basis", "stage", "seen",
                                  "before", "after", "outcome"}
BY DEF Typed, CallsOK, OneCall, Fields, Flags

LEMMA WaitedKept == Typed /\ Waited /\ Next => Waited'
<1> SUFFICES ASSUME Typed, Waited, Next PROVE Waited'
  OBVIOUS
<1>0. /\ DOMAIN calls = Calls
      /\ \A c \in Calls :
               DOMAIN calls[c] = {"cell", "awaited", "asked", "again", "applies", "launched",
                                  "lapsed", "row", "mutation", "basis", "stage", "seen",
                                  "before", "after", "outcome"}
  BY Shape
<1> USE DEF Waited
<1>1. ASSUME NEW c \in Calls, Ask(c) \/ Check(c) \/ Mutate(c)
      PROVE  Waited'
  <2>1. CASE Ask(c)
    <3>1. PICK command \in Commands, cell \in BOOLEAN :
            calls' = [calls EXCEPT ![c].row = <<"bash", command>>, ![c].cell = cell,
                                   ![c].stage = "consulting"]
      BY ONLY <2>1 DEF Ask
    <3>2. calls[c].stage = "idle"
      BY ONLY <2>1 DEF Ask
    <3> QED BY ONLY <1>0, <3>1, <3>2, Waited DEF Waited
  <2>2. CASE Check(c)
    <3>1. PICK command \in Commands :
            calls' = [calls EXCEPT ![c].row = <<"check", command>>, ![c].stage = "consulting"]
      BY ONLY <2>2 DEF Check
    <3>2. calls[c].stage = "idle"
      BY ONLY <2>2 DEF Check
    <3> QED BY ONLY <1>0, <3>1, <3>2, Waited DEF Waited
  <2>3. CASE Mutate(c)
    BY <1>0, <2>3 DEF Mutate
  <2> QED BY <1>1, <2>1, <2>2, <2>3
<1>2. ASSUME NEW c \in Calls, NEW b, Block(c, b), calls[c].stage \in {"consulting", "requesting"}
      PROVE  Waited'
  BY <1>0, <1>2 DEF Block, Move, End
<1>3. ASSUME NEW c \in Calls, Consult(c) \/ ConsultForCheck(c)
      PROVE  Waited'
  <2>1. CASE Block(c, TRUE)
    BY <1>2, <1>3, <2>1 DEF Consult, ConsultForCheck
  <2>2. CASE End(c, "blocked") \/ Move(c, "cleared") \/ Move(c, "requesting")
    <3>1. calls[c].stage = "consulting"
      BY <1>3 DEF Consult, ConsultForCheck
    <3> QED BY ONLY <1>0, <2>2, <3>1, Waited DEF Waited, Move, End
  <2> QED BY <1>3, <2>1, <2>2 DEF Consult, ConsultForCheck
<1>4. ASSUME NEW c \in Calls, Request(c)
      PROVE  Waited'
  BY <1>2, <1>4 DEF Request
<1>5. ASSUME NEW c \in Calls, Launch(c) \/ Exit(c)
      PROVE  Waited'
  BY <1>0, <1>5 DEF Launch, Exit, End
<1>6. ASSUME NEW c \in Calls, OpenWait(c) \/ Poll(c) \/ Lapse(c) \/ ExpireLapsed(c)
      PROVE  Waited'
  BY <1>0, <1>6 DEF OpenWait, Poll, Lapse, ExpireLapsed
<1>7. ASSUME NEW c \in Calls, Register(c)
      PROVE  Waited'
  <2>1. calls[c].stage = "opening"
    BY <1>7 DEF Register
  <2>2. CASE calls' = Answered(c, calls[c].seen)
    BY ONLY <1>0, <2>1, <2>2, Waited DEF Waited, Answered
  <2>3. CASE End(c, "refused wait")
    BY ONLY <1>0, <2>1, <2>3, Waited DEF Waited, End
  <2>4. CASE Move(c, "waiting")
    BY ONLY <1>0, <2>1, <2>4, Waited DEF Waited, Move
  <2> QED BY <1>7, <2>2, <2>3, <2>4 DEF Register
<1>8. ASSUME NEW c \in Calls, CloseWait(c)
      PROVE  Waited'
  BY <1>0, <1>8 DEF CloseWait, Answered, End
<1>9. ASSUME NEW c \in Calls, MutationStep(c)
      PROVE  Waited'
  <2>1. CASE Begin(c)
    BY <1>0, <2>1 DEF Begin, End
  <2>2. CASE ReadForEdit(c) \/ CheckFile(c)
    BY <1>0, <2>2 DEF ReadForEdit, CheckFile, Settle
  <2>3. CASE Replace(c)
    BY <1>0, <2>3 DEF Replace
  <2>4. CASE Finish(c)
    BY <1>0, <2>4 DEF Finish, Move
  <2> QED BY <1>9, <2>1, <2>2, <2>3, <2>4 DEF MutationStep
<1>10. ASSUME NEW r \in Rows, NEW d \in Decisions,
              Accept(r, d) \/ StoreDecision(r, d) \/ DecideInStore(r, d)
       PROVE  Waited'
  BY <1>10 DEF Accept, StoreDecision, DecideInStore
<1>11. CASE Cancel
  <2>1. ASSUME NEW c \in Calls
        PROVE  calls'[c] = calls[c] \/ calls'[c] = Dropped(calls[c])
    BY <1>11 DEF Cancel
  <2>2. ASSUME NEW c \in Calls
        PROVE  LET y == calls[c]
                   z == Dropped(calls[c])
               IN  /\ z.launched = y.launched /\ ~z.awaited /\ z.seen = y.seen
                   /\ z.lapsed = (y.lapsed \/ y.stage \in {"replied", "opening", "waiting", "lapsing"})
                   /\ y.stage \in {"waiting", "lapsing"} => z.stage = "closing"
                   /\ y.stage \in {"replied", "opening"} => z.stage = "done"
                   /\ y.stage \notin {"replied", "opening", "waiting", "lapsing"}
                         => z.stage = y.stage
    BY <1>0 DEF Dropped
  <2> QED BY ONLY ZenonT(40), <2>1, <2>2, Waited DEF Waited
<1>12. CASE Stop
  BY ZenonT(40), <1>0, <1>12 DEF Stop, Busy
<1>13. CASE Start
  BY <1>13 DEF Start
<1> QED BY <1>1, <1>3, <1>4, <1>5, <1>6, <1>7, <1>8, <1>9, <1>10, <1>11, <1>12, <1>13
        DEF Next, CallStep, CommandStep

(* What a step of a call that asks does to it: it keeps its question and its
   mutation, is cleared only by what it read, and answers no success. *)
LEMMA CommandEffect ==
  ASSUME Typed, NEW c \in Calls, CommandStep(c)
  PROVE  /\ \A d \in Calls \ {c} : calls'[d] = calls[d]
         /\ calls'[c].row = calls[c].row
         /\ calls'[c].mutation = calls[c].mutation /\ calls'[c].basis = calls[c].basis
         /\ calls'[c].stage # "idle" /\ calls[c].stage # "idle"
         /\ calls'[c].outcome \in {calls[c].outcome, "none", "ran", "blocked", "refused wait", "lost"}
         /\ calls'[c].stage = "cleared" =>
               Command(c) \in Allowed \/ rows[Row(c)] = "approved"
         /\ calls'[c].launched /\ ~calls[c].launched => calls[c].stage = "cleared"
         /\ UNCHANGED <<receipts, held>>
<1>0. /\ DOMAIN calls = Calls
      /\ \A d \in Calls :
               DOMAIN calls[d] = {"cell", "awaited", "asked", "again", "applies", "launched",
                                  "lapsed", "row", "mutation", "basis", "stage", "seen",
                                  "before", "after", "outcome"}
  BY Shape
<1> USE DEF mutated
<1>1. ASSUME NEW b, Block(c, b), calls[c].stage \in {"consulting", "requesting"}
      PROVE  \/ Move(c, "replied")
             \/ End(c, "blocked")
  BY <1>1 DEF Block
<1>2. CASE Consult(c) \/ ConsultForCheck(c)
  <2>1. calls[c].stage = "consulting" /\ UNCHANGED <<receipts, held>>
    BY <1>2 DEF Consult, ConsultForCheck
  <2>2. \/ End(c, "blocked") \/ Move(c, "replied") \/ Move(c, "requesting")
        \/ /\ Move(c, "cleared")
           /\ Command(c) \in Allowed \/ rows[Row(c)] = "approved"
    BY <1>1, <1>2, <2>1 DEF Consult, ConsultForCheck
  <2>3. CASE End(c, "blocked")
    BY <1>0, <2>1, <2>3 DEF End
  <2>4. ASSUME NEW s \in {"replied", "requesting", "cleared"}, Move(c, s),
               s = "cleared" => Command(c) \in Allowed \/ rows[Row(c)] = "approved"
        PROVE  /\ \A d \in Calls \ {c} : calls'[d] = calls[d]
               /\ calls'[c] = [calls[c] EXCEPT !.stage = s]
    BY <1>0, <2>4 DEF Move
  <2> QED BY <1>0, <2>1, <2>2, <2>3, <2>4
<1>3. CASE Request(c)
  <2>1. calls[c].stage = "requesting" /\ UNCHANGED <<receipts, held>>
    BY <1>3 DEF Request
  <2>2. Move(c, "replied") \/ End(c, "blocked")
    BY <1>1, <1>3, <2>1 DEF Request
  <2>3. CASE Move(c, "replied")
    BY <1>0, <2>1, <2>3 DEF Move
  <2>4. CASE End(c, "blocked")
    BY <1>0, <2>1, <2>4 DEF End
  <2> QED BY <2>2, <2>3, <2>4
<1>4. CASE Launch(c)
  BY <1>0, <1>4 DEF Launch
<1>5. CASE Exit(c)
  BY <1>0, <1>5 DEF Exit, End
<1>6. CASE OpenWait(c) \/ Poll(c) \/ Lapse(c) \/ ExpireLapsed(c)
  <2>1. CASE OpenWait(c)
    BY <1>0, <2>1 DEF OpenWait, approvals
  <2>2. CASE Poll(c)
    BY <1>0, <2>2 DEF Poll
  <2>3. CASE Lapse(c)
    BY <1>0, <2>3 DEF Lapse
  <2>4. CASE ExpireLapsed(c)
    BY <1>0, <2>4 DEF ExpireLapsed
  <2> QED BY <1>6, <2>1, <2>2, <2>3, <2>4
<1>7. CASE Register(c)
  <2>1. calls[c].stage = "opening" /\ UNCHANGED <<receipts, held>>
    BY <1>7 DEF Register
  <2>2. CASE calls' = Answered(c, calls[c].seen)
    BY <1>0, <2>1, <2>2 DEF Answered
  <2>3. CASE End(c, "refused wait")
    BY <1>0, <2>1, <2>3 DEF End
  <2>4. CASE Move(c, "waiting")
    BY <1>0, <2>1, <2>4 DEF Move
  <2> QED BY <1>7, <2>2, <2>3, <2>4 DEF Register
<1>8. CASE CloseWait(c)
  <2>1. calls[c].stage = "closing" /\ UNCHANGED <<receipts, held>>
    BY <1>8 DEF CloseWait
  <2>2. CASE calls' = Answered(c, calls[c].seen)
    BY <1>0, <2>1, <2>2 DEF Answered
  <2>3. CASE End(c, "lost")
    BY <1>0, <2>1, <2>3 DEF End
  <2> QED BY <1>8, <2>2, <2>3 DEF CloseWait
<1> QED BY <1>2, <1>3, <1>4, <1>5, <1>6, <1>7, <1>8 DEF CommandStep

(* What a step of a mutation does to its call, the receipts and the history:
   a success is answered only for what the file has held. *)
LEMMA MutationEffect ==
  ASSUME Typed, NEW c \in Calls, MutationStep(c)
  PROVE  /\ \A d \in Calls \ {c} : calls'[d] = calls[d]
         /\ calls'[c].row = calls[c].row
         /\ calls'[c].mutation = calls[c].mutation /\ calls'[c].basis = calls[c].basis
         /\ calls'[c].stage \notin {"idle", "cleared"} /\ calls[c].stage # "idle"
         /\ calls'[c].launched = calls[c].launched
         /\ held \subseteq held'
         /\ calls'[c].outcome \in {"ok", "replayed"} =>
              \/ calls[c].outcome = calls'[c].outcome
              \/ Key(c) \in held'
              \/ Key(c) \in DOMAIN receipts /\ receipts[Key(c)] = "completed"
         /\ \A k \in DOMAIN receipts' : receipts'[k] = "completed" =>
              \/ k \in DOMAIN receipts /\ receipts[k] = "completed"
              \/ k = Key(c) /\ calls[c].outcome = "ok"
         /\ UNCHANGED rows
<1>0. /\ DOMAIN calls = Calls
      /\ \A d \in Calls :
               DOMAIN calls[d] = {"cell", "awaited", "asked", "again", "applies", "launched",
                                  "lapsed", "row", "mutation", "basis", "stage", "seen",
                                  "before", "after", "outcome"}
  BY Shape
<1> USE DEF approvals
<1>1. CASE Begin(c)
  BY <1>0, <1>1 DEF Begin, End
<1>2. ASSUME NEW v, NEW t, Settle(c, v, t), calls[c].stage \in {"reading", "checking"},
             UNCHANGED <<receipts, rows>>
      PROVE  /\ \A d \in Calls \ {c} : calls'[d] = calls[d]
             /\ calls'[c].row = calls[c].row
             /\ calls'[c].mutation = calls[c].mutation /\ calls'[c].basis = calls[c].basis
             /\ calls'[c].stage \notin {"idle", "cleared"}
             /\ calls'[c].launched = calls[c].launched
             /\ held \subseteq held'
             /\ calls'[c].outcome \in {"ok", "replayed"} => Key(c) \in held'
  BY <1>0, <1>2 DEF Settle, Result
<1>3. CASE ReadForEdit(c)
  <2>1. calls[c].stage = "reading" /\ UNCHANGED <<receipts, rows>>
    BY <1>3 DEF ReadForEdit
  <2>2. \E v, t : Settle(c, v, t)
    BY <1>3 DEF ReadForEdit
  <2> QED BY <1>2, <2>1, <2>2
<1>4. CASE CheckFile(c)
  <2>1. calls[c].stage = "checking" /\ UNCHANGED <<receipts, rows>>
    BY <1>4 DEF CheckFile
  <2>2. \E v, t : Settle(c, v, t)
    BY <1>4 DEF CheckFile
  <2> QED BY <1>2, <2>1, <2>2
<1>5. CASE Replace(c)
  BY <1>0, <1>5 DEF Replace
<1>6. CASE Finish(c)
  BY <1>0, <1>6 DEF Finish, Move
<1> QED BY <1>1, <1>3, <1>4, <1>5, <1>6 DEF MutationStep

(* Cancelling a run and stopping the process end calls, answer no success and
   clear nothing. *)
LEMMA AroundEffect ==
  ASSUME Typed, Around
  PROVE  /\ \A c \in Calls :
               /\ calls'[c].row = calls[c].row
               /\ calls'[c].mutation = calls[c].mutation /\ calls'[c].basis = calls[c].basis
               /\ calls'[c].stage \in {"idle", "cleared"} => calls'[c].stage = calls[c].stage
               /\ calls'[c].launched = calls[c].launched
               /\ calls'[c].outcome \in {calls[c].outcome, "lost"}
               /\ calls[c].stage = "idle" => calls'[c] = calls[c]
         /\ UNCHANGED <<receipts, held>>
<1>0. /\ DOMAIN calls = Calls
      /\ \A d \in Calls :
               DOMAIN calls[d] = {"cell", "awaited", "asked", "again", "applies", "launched",
                                  "lapsed", "row", "mutation", "basis", "stage", "seen",
                                  "before", "after", "outcome"}
  BY Shape
<1>1. CASE Cancel
  <2>1. ASSUME NEW c \in Calls
        PROVE  (calls'[c] = calls[c]) \/ (c \in Busy /\ calls'[c] = Dropped(calls[c]))
    BY <1>1 DEF Cancel
  <2>2. ASSUME NEW c \in Calls
        PROVE  LET y == calls[c]
                   z == Dropped(calls[c])
               IN  /\ z.launched = y.launched /\ z.row = y.row
                   /\ z.mutation = y.mutation /\ z.basis = y.basis
                   /\ z.outcome \in {y.outcome, "lost"}
                   /\ z.stage \in {"closing", "done", y.stage}
    BY <1>0 DEF Dropped
  <2>3. UNCHANGED <<receipts, held>>
    BY <1>1 DEF Cancel, mutated
  <2> QED BY ONLY <2>1, <2>2, <2>3 DEF Busy
<1>2. CASE Stop
  BY <1>0, <1>2 DEF Stop, Busy, mutated
<1>3. CASE ~Cancel /\ ~Stop
  BY <1>3 DEF Around, Accept, StoreDecision, DecideInStore, Start, mutated
<1> QED BY <1>1, <1>2, <1>3

(* A new question or mutation is one of a call that had done nothing yet. *)
LEMMA AskEffect ==
  ASSUME Typed, NEW c \in Calls, Ask(c) \/ Check(c) \/ Mutate(c)
  PROVE  /\ \A d \in Calls \ {c} : calls'[d] = calls[d]
         /\ calls[c].stage = "idle" /\ calls'[c].stage \in {"consulting", "beginning"}
         /\ calls'[c].launched = calls[c].launched /\ calls'[c].outcome = calls[c].outcome
         /\ UNCHANGED <<receipts, held, rows>>
<1>0. /\ DOMAIN calls = Calls
      /\ \A d \in Calls :
               DOMAIN calls[d] = {"cell", "awaited", "asked", "again", "applies", "launched",
                                  "lapsed", "row", "mutation", "basis", "stage", "seen",
                                  "before", "after", "outcome"}
  BY Shape
<1>1. calls[c].stage = "idle" /\ UNCHANGED <<receipts, held, rows>>
  BY DEF Ask, Check, Mutate, approvals, mutated
<1>2. CASE Ask(c)
  <2>1. PICK command \in Commands, cell \in BOOLEAN :
          calls' = [calls EXCEPT ![c].row = <<"bash", command>>, ![c].cell = cell,
                                 ![c].stage = "consulting"]
    BY ONLY <1>2 DEF Ask
  <2> QED BY <1>0, <1>1, <2>1
<1>3. CASE Check(c)
  <2>1. PICK command \in Commands :
          calls' = [calls EXCEPT ![c].row = <<"check", command>>, ![c].stage = "consulting"]
    BY ONLY <1>3 DEF Check
  <2> QED BY <1>0, <1>1, <2>1
<1>4. CASE Mutate(c)
  <2>1. PICK m \in Mutations :
          calls' = [calls EXCEPT ![c].mutation = m, ![c].stage = "beginning",
                        ![c].basis = IF m.expect = "hash" THEN file.text ELSE Nothing]
    BY ONLY <1>4 DEF Mutate
  <2> QED BY <1>0, <1>1, <2>1
<1> QED BY <1>2, <1>3, <1>4

(* What let a command start still does: its row has been decided. *)
LEMMA ClearedKept == Typed /\ Cleared /\ Next => Cleared'
<1> SUFFICES ASSUME Typed, Cleared, Next, NEW c \in Calls, calls'[c].stage = "cleared"
             PROVE  (Command(c) \in Allowed \/ rows[Row(c)] = "approved")'
  BY DEF Cleared
<1>1. calls'[c].row = calls[c].row /\ (calls[c].stage = "cleared" \/ CommandStep(c))
  BY ZenonT(40), AskEffect, CommandEffect, MutationEffect, AroundEffect DEF Next, CallStep, Around
<1>2. Command(c) \in Allowed \/ rows[Row(c)] = "approved"
  BY <1>1, CommandEffect DEF Cleared
<1>3. calls[c].row \in Rows
  BY <1>1 DEF Typed, CallsOK, OneCall, Asking, CommandStep, Consult, ConsultForCheck,
              Request, Launch, Exit, OpenWait, Register, Poll, Lapse, ExpireLapsed, CloseWait
<1>4. rows[Row(c)] = "approved" => rows'[Row(c)] = "approved"
  BY <1>3, DecidedForGood DEF Row
<1> QED BY <1>1, <1>2, <1>4 DEF Command, Row

(* What is answered as a success has been in the file. *)
LEMMA AppliedKept == Typed /\ Applied /\ Next => Applied'
<1> SUFFICES ASSUME Typed, Applied, Next PROVE Applied'
  OBVIOUS
<1> USE DEF Applied, SuccessWasApplied, Key
<1>1. ASSUME NEW c \in Calls, Ask(c) \/ Check(c) \/ Mutate(c)
      PROVE  Applied'
  BY <1>1, AskEffect
<1> HIDE DEF Key
<1>2. ASSUME NEW c \in Calls, CommandStep(c)
      PROVE  Applied'
  <2>1. /\ \A d \in Calls \ {c} : calls'[d] = calls[d]
        /\ calls'[c].mutation = calls[c].mutation /\ calls'[c].basis = calls[c].basis
        /\ calls'[c].stage # "idle"
        /\ calls'[c].outcome \in {calls[c].outcome, "none", "ran", "blocked", "refused wait", "lost"}
        /\ UNCHANGED <<receipts, held>>
    BY ONLY <1>2, Typed, CommandEffect
  <2>2. \A d \in Calls : Key(d)' = Key(d)
    BY ONLY <2>1 DEF Key
  <2> QED BY ONLY <2>1, <2>2, Applied DEF Applied, SuccessWasApplied
<1>3. ASSUME NEW c \in Calls, MutationStep(c)
      PROVE  Applied'
  <2>1. /\ \A d \in Calls \ {c} : calls'[d] = calls[d]
        /\ calls'[c].mutation = calls[c].mutation /\ calls'[c].basis = calls[c].basis
        /\ calls'[c].stage # "idle"
        /\ held \subseteq held'
    BY ONLY <1>3, Typed, MutationEffect
  <2>2. calls'[c].outcome \in {"ok", "replayed"} =>
          \/ calls[c].outcome = calls'[c].outcome
          \/ Key(c) \in held'
          \/ Key(c) \in DOMAIN receipts /\ receipts[Key(c)] = "completed"
    BY ONLY <1>3, Typed, MutationEffect
  <2>3. \A k \in DOMAIN receipts' : receipts'[k] = "completed" =>
          \/ k \in DOMAIN receipts /\ receipts[k] = "completed"
          \/ k = Key(c) /\ calls[c].outcome = "ok"
    BY ONLY <1>3, Typed, MutationEffect
  <2>4. \A d \in Calls : Key(d)' = Key(d)
    BY ONLY <2>1 DEF Key
  <2> QED BY ONLY <2>1, <2>2, <2>3, <2>4, Applied DEF Applied, SuccessWasApplied
<1>4. CASE Around
  <2>1. /\ \A c \in Calls :
               /\ calls'[c].mutation = calls[c].mutation /\ calls'[c].basis = calls[c].basis
               /\ calls'[c].stage \in {"idle", "cleared"} => calls'[c].stage = calls[c].stage
               /\ calls'[c].outcome \in {calls[c].outcome, "lost"}
               /\ calls[c].stage = "idle" => calls'[c] = calls[c]
        /\ UNCHANGED <<receipts, held>>
    BY ONLY <1>4, Typed, AroundEffect
  <2>2. \A d \in Calls : Key(d)' = Key(d)
    BY ONLY <2>1 DEF Key
  <2> QED BY ONLY <2>1, <2>2, Applied DEF Applied, SuccessWasApplied
<1> QED BY <1>1, <1>2, <1>3, <1>4 DEF Next, CallStep, Around

(* Waits, decisions and receipts hold together: a call that lapsed has launched
   nothing and cannot, what is cleared to run is still allowed or approved, and
   a success was in the file. *)
THEOREM AnsweringKept == Spec => []Answering
<1>1. Init => Answering
  <2> SUFFICES ASSUME Init PROVE Waited /\ Cleared /\ Applied
    BY TypesStart DEF Answering
  <2>1. \A c \in Calls : calls[c] = NoCall
    BY DEF Init
  <2>2. DOMAIN receipts = {}
    BY DEF Init
  <2> QED BY <2>1, <2>2 DEF NoCall, Waited, Cleared, Applied, SuccessWasApplied
<1>2. Answering /\ [Next]_vars => Answering'
  <2> SUFFICES ASSUME Answering, [Next]_vars PROVE Answering'
    OBVIOUS
  <2>1. CASE UNCHANGED vars
    BY <2>1, TypesStep DEF vars, approvals, mutated, Answering, Waited, Cleared, Applied,
                           SuccessWasApplied, Key, Command, Row
  <2>2. CASE Next
    BY <2>2, TypesStep, WaitedKept, ClearedKept, AppliedKept DEF Answering
  <2> QED BY <2>1, <2>2
<1> QED BY <1>1, <1>2, PTL DEF Spec

(* A call whose wait timed out or was cancelled never launches its command. *)
THEOREM LapsedStaysOut == Spec => []LapsedNeverRuns
<1>1. Answering => LapsedNeverRuns
  BY DEF Answering, Waited, LapsedNeverRuns
<1> QED BY <1>1, AnsweringKept, PTL

(* A success, a replayed one too, was in the file. *)
THEOREM SuccessesApplied == Spec => []SuccessWasApplied
<1>1. Answering => SuccessWasApplied
  BY DEF Answering, Applied
<1> QED BY <1>1, AnsweringKept, PTL

(* A command that needs an approval starts only under an approved row of its
   own asker. *)
THEOREM ApprovalsHeld == Spec => RunsOnlyApproved
<1>1. Answering /\ [Next]_vars =>
        [\A c \in Calls : (calls'[c].launched /\ ~calls[c].launched) =>
            (Command(c) \in Allowed \/ rows[Row(c)] = "approved")]_calls
  <2> SUFFICES ASSUME Answering, Next, NEW c \in Calls,
                      calls'[c].launched, ~calls[c].launched
               PROVE  Command(c) \in Allowed \/ rows[Row(c)] = "approved"
    BY DEF vars
  <2>1. calls[c].stage = "cleared"
    BY ZenonT(40), AskEffect, CommandEffect, MutationEffect, AroundEffect
       DEF Answering, Next, CallStep, Around
  <2> QED BY <2>1 DEF Answering, Cleared
<1> QED BY <1>1, AnsweringKept, PTL DEF Spec, RunsOnlyApproved

(* A decided row is decided for good: no late decision, expiry or retry
   changes what was answered about it. *)
THEOREM DecisionsFinal ==
  Spec => [][\A r \in Rows : rows[r] \notin {"none", "pending"} => rows'[r] = rows[r]]_rows
<1>1. Answering /\ [Next]_vars =>
        [\A r \in Rows : rows[r] \notin {"none", "pending"} => rows'[r] = rows[r]]_rows
  BY DecidedForGood DEF Answering, vars, approvals
<1> QED BY <1>1, AnsweringKept, PTL DEF Spec
=============================================================================
