------------------------- MODULE ConversationsProofs -------------------------
(***************************************************************************)
(* Theorems about Conversations, for any turns, messages, continuations and *)
(* bounds: types, the two safety properties of the table and the runs, and  *)
(* that the table implements FollowUpQueue.                                 *)
(***************************************************************************)
EXTENDS Conversations, WellFoundedInduction, FiniteSetTheorems, TLAPS

-----------------------------------------------------------------------------
(* The first of the pending messages.                                      *)

(* A nonempty set of positions has a first one. *)
LEMMA MinIsFirst ==
  ASSUME NEW S \in SUBSET Nat, S # {}
  PROVE  Min(S) \in S /\ \A n \in S : Min(S) <= n
<1> DEFINE Less == {ss \in Nat \X Nat : ss[1] < ss[2]}
<1>1. IsWellFoundedOn(Less, Nat)
  BY NatLessThanWellFounded DEF OpToRel
<1>2. \E n \in S : \A m \in S : ~(<<m, n>> \in Less)
  <2> HIDE DEF Less
  <2> QED BY <1>1, WFMin
<1>3. \E n \in S : \A m \in S : n <= m
  <2>1. PICK n \in S : \A m \in S : ~(<<m, n>> \in Less)
    BY <1>2
  <2>2. ASSUME NEW m \in S PROVE n <= m
    <3>1. m \in Nat /\ n \in Nat
      OBVIOUS
    <3>2. m < n => <<m, n>> \in Less
      BY <3>1
    <3> QED BY <2>1, <3>1, <3>2
  <2> QED BY <2>2
<1> QED BY <1>3 DEF Min

(* What First picks waits and everything accepted before it does not. *)
LEMMA FirstIsPending ==
  ASSUME queue \in Seq(Items)
  PROVE  /\ Pending = {} => First = Nothing
         /\ Pending # {} => \E n \in DOMAIN queue :
              /\ First = queue[n] /\ First \in Items /\ mark[First] = "pending"
              /\ \A m \in 1..n-1 : mark[queue[m]] # "pending"
<1>1. CASE Pending = {}
  BY <1>1 DEF First
<1>2. CASE Pending # {}
  <2>1. Pending \in SUBSET Nat /\ DOMAIN queue = 1..Len(queue) /\ Len(queue) \in Nat
    BY DEF Pending
  <2>2. PICK n \in Pending : n = Min(Pending) /\ \A m \in Pending : n <= m
    BY <1>2, <2>1, MinIsFirst
  <2>3. First = queue[n] /\ n \in DOMAIN queue /\ mark[queue[n]] = "pending"
    BY <1>2, <2>2 DEF First, Pending
  <2>4. ASSUME NEW m \in 1..n-1 PROVE mark[queue[m]] # "pending"
    <3>1. m \in DOMAIN queue /\ ~(n <= m)
      BY <2>1, <2>3, <2>4
    <3> QED BY <2>2, <3>1 DEF Pending
  <2>5. queue[n] \in Items
    BY <2>3
  <2> QED BY <1>2, <2>3, <2>4, <2>5
<1> QED BY <1>1, <1>2

-----------------------------------------------------------------------------
(* Types.                                                                  *)

RunsOK == /\ status \in [Turns -> Active \cup Terminal \cup {"none"}]
          /\ order \in Seq(Turns) /\ IsInjective(order)
          /\ ToSet(order) = {t \in Turns : status[t] # "none"}
          /\ masked \in SUBSET Turns
TableOK == /\ queue \in Seq(Items) /\ IsInjective(queue)
           /\ mark \in [Items -> Mark]
           /\ \A i \in Items : mark[i] = "none" <=> i \notin ToSet(queue)
           /\ target \in [Continues -> SUBSET (Items \cup {Nothing})]
ProcessOK == /\ up \in BOOLEAN /\ downs \in 0..MaxFaults /\ closed \in BOOLEAN
             /\ ctl \in [pc : {"idle", "deciding", "starting"}, item : Items \cup {Nothing},
                         by : Continues \cup {Nothing}]
             /\ driven \in SUBSET Turns /\ late \in SUBSET Turns /\ ended \in SUBSET Turns
             /\ startedBy \in [Continues -> SUBSET Items]

(* Appending something new keeps a sequence without repetitions. *)
LEMMA AppendNew ==
  ASSUME NEW S, NEW s \in Seq(S), IsInjective(s), NEW e \in S, e \notin ToSet(s)
  PROVE  /\ Append(s, e) \in Seq(S) /\ IsInjective(Append(s, e))
         /\ ToSet(Append(s, e)) = ToSet(s) \cup {e}
         /\ DOMAIN Append(s, e) = 1..Len(s)+1 /\ Append(s, e)[Len(s)+1] = e
         /\ \A n \in DOMAIN s : Append(s, e)[n] = s[n]
<1> DEFINE w == Append(s, e)
<1>1. /\ w \in Seq(S) /\ Len(w) = Len(s)+1 /\ Len(s) \in Nat /\ DOMAIN s = 1..Len(s)
      /\ DOMAIN w = 1..Len(s)+1 /\ w[Len(s)+1] = e
      /\ \A n \in 1..Len(s) : w[n] = s[n]
  OBVIOUS
<1> HIDE DEF w
<1>2. ASSUME NEW m \in DOMAIN w, NEW n \in DOMAIN w, w[m] = w[n]
      PROVE  m = n
  <2>1. \A k \in 1..Len(s) : w[k] # e
    BY <1>1 DEF ToSet
  <2>2. CASE m \in 1..Len(s) /\ n \in 1..Len(s)
    BY <1>1, <1>2, <2>2 DEF IsInjective
  <2> QED BY <1>1, <1>2, <2>1, <2>2
<1>3. ToSet(w) = ToSet(s) \cup {e}
  <2>1. \A n \in DOMAIN w : w[n] = e \/ \E m \in DOMAIN s : w[n] = s[m]
    BY <1>1
  <2>2. \A m \in DOMAIN s : m \in DOMAIN w /\ w[m] = s[m]
    BY <1>1
  <2>3. \E n \in DOMAIN w : w[n] = e
    BY <1>1
  <2> QED BY <2>1, <2>2, <2>3 DEF ToSet
<1>4. IsInjective(w)
  BY <1>2 DEF IsInjective
<1> QED BY ONLY <1>1, <1>3, <1>4 DEF w

LEMMA CreateRunTyped ==
  ASSUME RunsOK, NEW t \in Turns, status[t] = "none", CreateRun(t)
  PROVE  RunsOK'
<1>1. t \notin ToSet(order)
  BY DEF RunsOK
<1>2. order' \in Seq(Turns) /\ IsInjective(order') /\ ToSet(order') = ToSet(order) \cup {t}
  BY <1>1, AppendNew DEF RunsOK, CreateRun
<1>3. status' \in [Turns -> Active \cup Terminal \cup {"none"}]
  BY DEF RunsOK, CreateRun, Active
<1>4. {u \in Turns : status'[u] # "none"} = {u \in Turns : status[u] # "none"} \cup {t}
  BY DEF RunsOK, CreateRun
<1> QED BY <1>2, <1>3, <1>4 DEF RunsOK, CreateRun

LEMMA BecomeTyped ==
  ASSUME RunsOK, NEW t \in Turns, status[t] # "none", NEW st \in Active \cup Terminal,
         Become(t, st)
  PROVE  RunsOK'
<1>1. status' \in [Turns -> Active \cup Terminal \cup {"none"}]
  BY DEF RunsOK, Become
<1>2. st # "none"
  BY DEF Active, Terminal
<1>3. {u \in Turns : status'[u] # "none"} = {u \in Turns : status[u] # "none"}
  BY <1>2 DEF RunsOK, Become
<1> QED BY <1>1, <1>3 DEF RunsOK, Become

Typed == /\ RunsOK /\ TableOK /\ ProcessOK
         /\ ctl.pc = "starting" => ctl.item \in Items /\ mark[ctl.item] = "pending"

LEMMA TypedIsTypeOK == Typed => TypeOK
BY DEF Typed, TypeOK, RunsOK, TableOK, ProcessOK

LEMMA TypesStart == Init => Typed
<1> SUFFICES ASSUME Init PROVE Typed
  OBVIOUS
<1>1. RunsOK
  BY DEF Init, RunsOK, IsInjective, ToSet
<1>2. TableOK
  BY DEF Init, TableOK, Mark, IsInjective, ToSet
<1>3. ProcessOK
  <2>1. 0 \in 0..MaxFaults
    BY ConversationsAssumption
  <2>2. Free \in [pc : {"idle", "deciding", "starting"}, item : Items \cup {Nothing},
                  by : Continues \cup {Nothing}]
    BY DEF Free
  <2> QED BY <2>1, <2>2 DEF Init, ProcessOK
<1>4. ctl.pc # "starting"
  BY DEF Init, Free
<1> QED BY <1>1, <1>2, <1>3, <1>4 DEF Typed

(* The turn an action is about. *)
TurnStep(t) == \/ Submit(t) \/ Resubmit(t) \/ Created(t) \/ Begin(t) \/ Finish(t) \/ Strand(t)
               \/ Unstrand(t) \/ CancelQueued(t) \/ DrivenAgain(t) \/ AfterTurn(t) \/ Recover(t)

LEMMA TurnStepTyped ==
  ASSUME Typed, NEW t \in Turns, TurnStep(t)
  PROVE  Typed'
<1> USE DEF Typed
<1>1. CASE Submit(t)
  <2>1. RunsOK'
    BY <1>1, CreateRunTyped DEF Submit
  <2> QED BY <1>1, <2>1 DEF Submit, TableOK, ProcessOK, table, tasks
<1>2. CASE Resubmit(t)
  BY <1>2 DEF Resubmit, RunsOK, TableOK, ProcessOK, table, runs
<1>3. CASE Created(t)
  <2>1. RunsOK'
    <3>1. CASE UNCHANGED runs
      BY <3>1 DEF RunsOK, runs
    <3>2. CASE Become(t, "failed")
      BY <1>3, <3>2, BecomeTyped DEF Created, Active, Terminal
    <3> QED BY <1>3, <3>1, <3>2 DEF Created
  <2> QED BY <1>3, <2>1 DEF Created, TableOK, ProcessOK, table, runs
<1>4. CASE Begin(t)
  <2>1. RunsOK'
    BY <1>4, BecomeTyped DEF Begin, Active
  <2> QED BY <1>4, <2>1 DEF Begin, TableOK, ProcessOK, table, tasks
<1>5. CASE Finish(t)
  <2>1. RunsOK'
    <3>1. ASSUME NEW st \in Terminal, Become(t, st), status[t] # "none"
          PROVE  RunsOK'
      BY <3>1, BecomeTyped
    <3>2. CASE UNCHANGED runs
      BY <3>2 DEF RunsOK, runs
    <3> QED BY <1>5, <3>1, <3>2 DEF Finish, Terminal
  <2> QED BY <1>5, <2>1 DEF Finish, Hooked, TableOK, ProcessOK, table
<1>6. CASE Strand(t)
  BY <1>6 DEF Strand, Hooked, RunsOK, TableOK, ProcessOK, table, runs
<1>7. CASE Unstrand(t)
  <2>1. RunsOK'
    BY <1>7, BecomeTyped DEF Unstrand, Terminal
  <2> QED BY <1>7, <2>1 DEF Unstrand, TableOK, ProcessOK, table, tasks
<1>8. CASE CancelQueued(t)
  <2>1. RunsOK'
    BY <1>8, BecomeTyped DEF CancelQueued, Terminal
  <2> QED BY <1>8, <2>1 DEF CancelQueued, TableOK, ProcessOK, table, tasks
<1>9. CASE DrivenAgain(t)
  BY <1>9 DEF DrivenAgain, RunsOK, TableOK, ProcessOK, table
<1>10. CASE AfterTurn(t)
  <2>1. ctl' = Free \/ ctl' = [Free EXCEPT !.pc = "deciding", !.by = Nothing]
    BY <1>10 DEF AfterTurn, Decide, Unlocked
  <2>2. RunsOK' /\ TableOK'
    BY <1>10 DEF AfterTurn, table, runs, RunsOK, TableOK
  <2>3. UNCHANGED <<up, downs, closed, driven, late, startedBy>> /\ ended' \subseteq ended
    BY <1>10 DEF AfterTurn
  <2>4. /\ ctl' \in [pc : {"idle", "deciding", "starting"}, item : Items \cup {Nothing},
                     by : Continues \cup {Nothing}]
        /\ ctl'.pc # "starting"
    <3>1. CASE ctl' = Free
      BY <3>1 DEF Free
    <3>2. CASE ctl' = [Free EXCEPT !.pc = "deciding", !.by = Nothing]
      <4>1. ctl' = [pc |-> "deciding", item |-> Nothing, by |-> Nothing]
        BY <3>2 DEF Free
      <4> QED BY <4>1
    <3> QED BY <2>1, <3>1, <3>2
  <2> QED BY <2>2, <2>3, <2>4 DEF ProcessOK
<1>11. CASE Recover(t)
  <2>1. RunsOK'
    BY <1>11, BecomeTyped DEF Recover, Active, Terminal
  <2> QED BY <1>11, <2>1 DEF Recover, TableOK, ProcessOK, table, tasks
<1> QED BY <1>1, <1>2, <1>3, <1>4, <1>5, <1>6, <1>7, <1>8, <1>9, <1>10, <1>11 DEF TurnStep

LEMMA DispatchTyped == ASSUME Typed, Dispatch PROVE Typed'
<1> USE DEF Typed
<1>1. First = Nothing \/ (First \in Items /\ mark[First] = "pending")
  BY FirstIsPending DEF TableOK
<1>2. UNCHANGED <<queue, target, up, downs, closed, tasks>>
  BY DEF Dispatch
<1>3. CASE ctl' = Free /\ UNCHANGED <<mark, runs, startedBy>>
  BY <1>2, <1>3 DEF RunsOK, TableOK, ProcessOK, runs, tasks, Free
<1>4. CASE /\ First \in Items /\ mark[First] = "pending" /\ ctl' = Free /\ UNCHANGED <<runs, startedBy>>
           /\ mark' = [mark EXCEPT ![First] = "dispatched"]
  <2>1. /\ mark' \in [Items -> Mark]
        /\ \A i \in Items : mark'[i] = "none" <=> mark[i] = "none"
    BY <1>4 DEF TableOK, Mark
  <2> QED BY <1>2, <1>4, <2>1 DEF RunsOK, TableOK, ProcessOK, runs, tasks, Free
<1>5. CASE /\ First \in Items /\ mark[First] = "pending" /\ status[First] = "none" /\ CreateRun(First)
           /\ ctl' = [ctl EXCEPT !.pc = "starting", !.item = First]
           /\ startedBy' = [k \in Continues |-> IF k = ctl.by THEN startedBy[k] \cup {First}
                                                ELSE startedBy[k]]
           /\ UNCHANGED mark
  <2>1. RunsOK'
    BY <1>5, CreateRunTyped DEF Turns
  <2>2. startedBy' \in [Continues -> SUBSET Items]
    BY <1>5 DEF ProcessOK
  <2>3. /\ ctl' \in [pc : {"idle", "deciding", "starting"}, item : Items \cup {Nothing},
                     by : Continues \cup {Nothing}]
        /\ ctl'.item = First /\ mark[First] = "pending"
    BY <1>5 DEF ProcessOK
  <2> QED BY <1>2, <1>5, <2>1, <2>2, <2>3 DEF TableOK, ProcessOK, tasks
<1> QED BY <1>1, <1>3, <1>4, <1>5 DEF Dispatch

LEMMA RequestTyped ==
  ASSUME Typed, \/ \E i \in Items : FollowUp(i) \/ RemoveFollowUp(i)
                \/ \E k \in Continues : Continue(k)
  PROVE  Typed'
<1> USE DEF Typed
<1>1. ASSUME NEW by \in Continues \cup {Nothing}, Unlocked, Decide(by) \/ UNCHANGED ctl,
             UNCHANGED <<runs, up, downs, closed, tasks, startedBy>>
      PROVE  ProcessOK' /\ RunsOK' /\ ctl'.pc # "starting"
  <2>1. CASE UNCHANGED ctl
    BY <1>1, <2>1 DEF RunsOK, ProcessOK, runs, tasks, Unlocked, Free
  <2>2. CASE Decide(by)
    BY <1>1, <2>2 DEF RunsOK, ProcessOK, runs, tasks, Decide, Free
  <2> QED BY <1>1, <2>1, <2>2
<1>2. ASSUME NEW i \in Items, FollowUp(i)
      PROVE  Typed'
  <2>1. Unlocked /\ UNCHANGED <<target, runs, up, downs, closed, tasks, startedBy>>
    BY <1>2 DEF FollowUp
  <2>2. Decide(Nothing) \/ UNCHANGED ctl
    BY <1>2 DEF FollowUp
  <2>3. TableOK'
    <3>1. CASE UNCHANGED <<queue, mark>>
      BY <2>1, <3>1 DEF TableOK
    <3>2. CASE /\ mark[i] = "none" /\ queue' = Append(queue, i)
               /\ mark' = [mark EXCEPT ![i] = "pending"]
      <4>1. i \notin ToSet(queue)
        BY <3>2 DEF TableOK
      <4>2. /\ queue' \in Seq(Items) /\ IsInjective(queue')
            /\ ToSet(queue') = ToSet(queue) \cup {i}
        BY <3>2, <4>1, AppendNew DEF TableOK
      <4>3. mark' \in [Items -> Mark]
        BY <3>2 DEF TableOK, Mark
      <4>4. \A j \in Items : mark'[j] = "none" <=> j \notin ToSet(queue')
        BY <3>2, <4>2 DEF TableOK
      <4> QED BY <2>1, <4>2, <4>3, <4>4 DEF TableOK
    <3> QED BY <1>2, <3>1, <3>2 DEF FollowUp
  <2> QED BY <1>1, <2>1, <2>2, <2>3
<1>3. ASSUME NEW i \in Items, RemoveFollowUp(i)
      PROVE  Typed'
  <2>1. Unlocked /\ UNCHANGED <<queue, target, runs, up, downs, closed, ctl, tasks, startedBy>>
    BY <1>3 DEF RemoveFollowUp
  <2>2. /\ mark' \in [Items -> Mark]
        /\ \A j \in Items : mark'[j] = "none" <=> mark[j] = "none"
    BY <1>3 DEF RemoveFollowUp, TableOK, Mark
  <2> QED BY <1>1, <2>1, <2>2 DEF TableOK
<1>4. ASSUME NEW k \in Continues, Continue(k)
      PROVE  Typed'
  <2>1. First = Nothing \/ First \in Items
    BY FirstIsPending DEF TableOK
  <2>2. target' \in [Continues -> SUBSET (Items \cup {Nothing})]
    BY <1>4, <2>1 DEF Continue, Authorized, TableOK
  <2>3. /\ Unlocked
        /\ Decide(k) \/ UNCHANGED ctl
        /\ UNCHANGED <<queue, mark, runs, up, downs, closed, tasks, startedBy>>
    BY <1>4 DEF Continue
  <2> QED BY <1>1, <2>2, <2>3 DEF TableOK
<1> QED BY <1>2, <1>3, <1>4

LEMMA TypesStep == Typed /\ [Next]_vars => Typed'
<1> SUFFICES ASSUME Typed, [Next]_vars PROVE Typed'
  OBVIOUS
<1>1. CASE UNCHANGED vars
  BY <1>1 DEF vars, table, runs, tasks, Typed, RunsOK, TableOK, ProcessOK
<1>2. CASE Started
  <2>1. /\ ctl.item \in Items /\ driven' = driven \cup {ctl.item} /\ ctl' = Free
        /\ mark' = [mark EXCEPT ![ctl.item] = "dispatched"] /\ mark[ctl.item] # "none"
        /\ UNCHANGED <<queue, target, runs, up, downs, closed, late, ended, startedBy>>
    BY <1>2 DEF Started, Typed
  <2>2. RunsOK'
    BY <2>1 DEF Typed, RunsOK, runs
  <2>3. TableOK'
    <3>1. mark' \in [Items -> Mark]
      BY <2>1 DEF Typed, TableOK, Mark
    <3>2. \A i \in Items : mark'[i] # "none" <=> mark[i] # "none"
      BY <2>1 DEF Typed, TableOK
    <3> QED BY <2>1, <3>1, <3>2 DEF Typed, TableOK, runs
  <2>4. ProcessOK' /\ ctl'.pc # "starting"
    <3>1. Free \in [pc : {"idle", "deciding", "starting"}, item : Items \cup {Nothing},
                    by : Continues \cup {Nothing}] /\ Free.pc = "idle"
      BY DEF Free
    <3>2. Items \subseteq Turns
      BY DEF Turns
    <3> QED BY <2>1, <3>1, <3>2 DEF Typed, ProcessOK
  <2> QED BY <2>2, <2>3, <2>4 DEF Typed
<1>3. CASE StartFails
  <2>1. RunsOK'
    <3>1. CASE UNCHANGED runs
      BY <3>1 DEF Typed, RunsOK, runs
    <3>2. CASE status[ctl.item] = "queued" /\ Become(ctl.item, "failed")
      <4>1. ctl.item \in Turns
        BY <1>3 DEF StartFails, Typed, Turns
      <4> QED BY <3>2, <4>1, BecomeTyped DEF Typed, Terminal
    <3> QED BY <1>3, <3>1, <3>2 DEF StartFails
  <2> QED BY <1>3, <2>1 DEF StartFails, Typed, TableOK, ProcessOK, table, tasks, Free
<1>4. CASE Close
  BY <1>4 DEF Close, Typed, RunsOK, TableOK, ProcessOK, table, runs, tasks
<1>5. CASE Down
  <2>1. downs' \in 0..MaxFaults
    BY <1>5, ConversationsAssumption DEF Down, Typed, ProcessOK
  <2> QED BY <1>5, <2>1 DEF Down, Typed, RunsOK, TableOK, ProcessOK, table, runs, Free
<1>6. CASE Serve
  BY <1>6 DEF Serve, Typed, RunsOK, TableOK, ProcessOK, table, runs, tasks
<1>7. ASSUME NEW t \in Turns, TurnStep(t)
      PROVE  Typed'
  BY <1>7, TurnStepTyped
<1> QED BY <1>1, <1>2, <1>3, <1>4, <1>5, <1>6, <1>7, DispatchTyped, RequestTyped
        DEF Next, Hold, TurnStep

(* Every variable keeps its type. *)
THEOREM TypesCorrect == Spec => []TypeOK
<1>1. Spec => []Typed
  BY TypesStart, TypesStep, PTL DEF Spec
<1> QED BY <1>1, TypedIsTypeOK, PTL

-----------------------------------------------------------------------------
(***************************************************************************)
(* The table and the runs. PendingNotRunning is not inductive: that a start *)
(* which returns or fails leaves no pending row with an active run needs    *)
(* what a dispatched row and a driven message are (Rows, Drivers), and that *)
(* nobody begins or settles the run of a start but a cancel (Dispatching).  *)
(***************************************************************************)
Rows == \A i \in Items : /\ mark[i] = "none" => status[i] = "none"
                         /\ mark[i] = "dispatched" => status[i] # "none"

Drivers == /\ \A t \in driven : status[t] # "none"
           /\ \A i \in Items : i \in driven => mark[i] = "dispatched"

Dispatching == /\ ~up => ctl = Free
               /\ ctl.pc = "starting" =>
                    /\ ctl.item \notin driven
                    /\ status[ctl.item] \in {"queued", "cancelled"}

Legal == Rows /\ Drivers /\ Dispatching /\ PendingNotRunning

LEMMA LegalStart == Init => Legal
BY DEF Init, Legal, Rows, Drivers, Dispatching, PendingNotRunning, Turns, Free

LEMMA TurnStepLegal ==
  ASSUME Typed, Legal, NEW t \in Turns, TurnStep(t)
  PROVE  Legal'
<1>0. /\ t \in Roots => t \notin Items
      /\ status \in [Turns -> Active \cup Terminal \cup {"none"}] /\ Items \subseteq Turns
      /\ ctl.pc = "starting" => ctl.item \in Items
  BY ConversationsAssumption DEF Typed, RunsOK, Turns
<1> USE DEF Legal, Rows, Drivers, Dispatching, PendingNotRunning
<1>1. CASE Submit(t)
  BY <1>0, <1>1 DEF Submit, CreateRun, Calm, table, tasks
<1>2. CASE Resubmit(t)
  BY <1>2 DEF Resubmit, table, runs
<1>3. CASE Created(t)
  <2>1. CASE driven' = driven \cup {t} /\ UNCHANGED runs
    BY <1>0, <1>3, <2>1 DEF Created, Calm, table, runs
  <2>2. CASE Become(t, "failed") /\ UNCHANGED driven
    BY <1>0, <1>3, <2>2 DEF Created, Become, Calm, table, Active
  <2> QED BY <1>3, <2>1, <2>2 DEF Created
<1>4. CASE Begin(t)
  BY <1>0, <1>4 DEF Begin, Become, Calm, table, tasks
<1>5. CASE Finish(t)
  <2>1. /\ up /\ t \in driven /\ driven' = driven \ {t}
        /\ UNCHANGED <<table, up, ctl>>
    BY <1>5 DEF Finish, Hooked, Calm
  <2>2. ASSUME NEW st \in Terminal, Become(t, st)
        PROVE  Legal'
    BY <1>0, <2>1, <2>2 DEF Become, table, Active, Terminal
  <2>3. CASE UNCHANGED runs
    BY <2>1, <2>3 DEF table, runs
  <2> QED BY <1>5, <2>2, <2>3 DEF Finish, Terminal
<1>6. CASE Strand(t)
  BY <1>6 DEF Strand, Hooked, table, runs
<1>7. CASE Unstrand(t)
  BY <1>0, <1>7 DEF Unstrand, Become, Calm, table, tasks, Active
<1>8. CASE CancelQueued(t)
  BY <1>0, <1>8 DEF CancelQueued, Become, Calm, table, tasks, Active
<1>9. CASE DrivenAgain(t)
  BY <1>9 DEF DrivenAgain, table
<1>10. CASE AfterTurn(t)
  BY <1>10 DEF AfterTurn, Decide, Unlocked, Free, table, runs
<1>11. CASE Recover(t)
  BY <1>0, <1>11 DEF Recover, Become, table, tasks, Active, Free
<1> QED BY <1>1, <1>2, <1>3, <1>4, <1>5, <1>6, <1>7, <1>8, <1>9, <1>10, <1>11 DEF TurnStep

LEMMA LegalStep == Typed /\ Legal /\ [Next]_vars => Legal'
<1> SUFFICES ASSUME Typed, Legal, [Next]_vars PROVE Legal'
  OBVIOUS
<1>0. /\ Items \subseteq Turns /\ Nothing \notin Items
      /\ ctl.pc = "starting" => ctl.item \in Items /\ mark[ctl.item] = "pending"
      /\ status \in [Turns -> Active \cup Terminal \cup {"none"}]
      /\ mark \in [Items -> Mark]
      /\ First = Nothing \/ (First \in Items /\ mark[First] = "pending")
  BY ConversationsAssumption, FirstIsPending DEF Typed, RunsOK, TableOK, Turns
<1> USE DEF Legal, Rows, Drivers, Dispatching, PendingNotRunning
<1>1. CASE UNCHANGED vars
  BY <1>1 DEF vars, table, runs, tasks
<1>2. CASE Started
  BY <1>0, <1>2 DEF Started, runs, Free, Active
<1>3. CASE StartFails
  <2>1. CASE status[ctl.item] = "queued" /\ Become(ctl.item, "failed")
    BY <1>0, <1>3, <2>1 DEF StartFails, Become, table, tasks, Free, Active
  <2>2. CASE status[ctl.item] # "queued" /\ UNCHANGED runs
    BY <1>0, <1>3, <2>2 DEF StartFails, runs, table, tasks, Free, Active
  <2> QED BY <1>3, <2>1, <2>2 DEF StartFails
<1>4. CASE Close
  BY <1>4 DEF Close, table, runs, tasks
<1>5. CASE Down
  BY <1>5 DEF Down, table, runs, Free
<1>6. CASE Serve
  BY <1>0, <1>6 DEF Serve, table, runs, tasks, ActiveIn
<1>7. CASE Dispatch
  <2>1. up /\ ctl.pc = "deciding" /\ UNCHANGED <<queue, target, up, tasks>>
    BY <1>7 DEF Dispatch
  <2>2. CASE ctl' = Free /\ UNCHANGED <<mark, runs>>
    BY <2>1, <2>2 DEF runs, tasks, Free
  <2>3. CASE /\ First \in Items /\ status[First] # "none" /\ ctl' = Free /\ UNCHANGED runs
             /\ mark' = [mark EXCEPT ![First] = "dispatched"]
    BY <1>0, <2>1, <2>3 DEF runs, tasks, Free
  <2>4. CASE /\ First \in Items /\ mark[First] = "pending" /\ status[First] = "none"
             /\ CreateRun(First)
             /\ ctl' = [ctl EXCEPT !.pc = "starting", !.item = First] /\ UNCHANGED mark
    <3>1. ctl'.pc = "starting" /\ ctl'.item = First
      BY <2>4 DEF Typed, ProcessOK
    <3>2. status' = [status EXCEPT ![First] = "queued"]
      BY <2>4 DEF CreateRun
    <3> QED BY <1>0, <2>1, <2>4, <3>1, <3>2 DEF tasks
  <2> QED BY <1>0, <1>7, <2>2, <2>3, <2>4 DEF Dispatch
<1>8. ASSUME NEW i \in Items, FollowUp(i)
      PROVE  Legal'
  <2>1. /\ up /\ ctl = Free /\ ctl'.pc # "starting" /\ UNCHANGED <<runs, up, tasks>>
    <3>1. up /\ ctl = Free /\ UNCHANGED <<runs, up, tasks>>
      BY <1>8 DEF FollowUp, Unlocked
    <3>2. ctl' = ctl \/ ctl' = [Free EXCEPT !.pc = "deciding", !.by = Nothing]
      BY <1>8 DEF FollowUp, Decide
    <3>3. Free.pc = "idle" /\ [Free EXCEPT !.pc = "deciding", !.by = Nothing].pc = "deciding"
      BY DEF Free
    <3> QED BY <3>1, <3>2, <3>3
  <2>2. UNCHANGED mark \/ (mark[i] = "none" /\ mark' = [mark EXCEPT ![i] = "pending"])
    BY <1>8 DEF FollowUp
  <2> QED BY <1>0, <2>1, <2>2 DEF runs, tasks, Free, Active
<1>9. ASSUME NEW i \in Items, RemoveFollowUp(i)
      PROVE  Legal'
  BY <1>0, <1>9 DEF RemoveFollowUp, Unlocked, runs, tasks, Free
<1>10. ASSUME NEW k \in Continues, Continue(k)
       PROVE  Legal'
  BY <1>10 DEF Continue, Unlocked, Decide, Free, runs, tasks
<1>11. ASSUME NEW t \in Turns, TurnStep(t)
       PROVE  Legal'
  BY <1>11, TurnStepLegal
<1> QED BY <1>1, <1>2, <1>3, <1>4, <1>5, <1>6, <1>7, <1>8, <1>9, <1>10, <1>11
        DEF Next, Hold, TurnStep

LEMMA LegalAlways == Spec => [](Typed /\ Legal)
<1>1. Init => Typed /\ Legal
  BY TypesStart, LegalStart
<1>2. Typed /\ Legal /\ [Next]_vars => Typed' /\ Legal'
  BY TypesStep, LegalStep
<1> QED BY <1>1, <1>2, PTL DEF Spec

(* A row is pending while its run is under way only as long as the dispatch
   that created the run waits for its start. *)
THEOREM PendingIsNotRunning == Spec => []PendingNotRunning
<1>1. Legal => PendingNotRunning
  BY DEF Legal
<1> QED BY <1>1, LegalAlways, PTL

-----------------------------------------------------------------------------
(* A continuation authorises one message, and starts none but that.        *)
Authorising ==
  \A k \in Continues : /\ target[k] = {} \/ \E i \in Items \cup {Nothing} : target[k] = {i}
                       /\ startedBy[k] \subseteq target[k]

LEMMA AuthorisingStep == Typed /\ Authorising /\ [Next]_vars => Authorising'
<1> SUFFICES ASSUME Typed, Authorising, [Next]_vars PROVE Authorising'
  OBVIOUS
<1>0. /\ Nothing \notin Continues
      /\ target \in [Continues -> SUBSET (Items \cup {Nothing})]
      /\ startedBy \in [Continues -> SUBSET Items]
      /\ First \in Items \cup {Nothing}
  BY ConversationsAssumption, FirstIsPending DEF Typed, TableOK, ProcessOK
<1>1. CASE UNCHANGED <<target, startedBy>>
  BY <1>1 DEF Authorising
<1>2. CASE Dispatch
  <2>1. UNCHANGED target
    BY <1>2 DEF Dispatch
  <2>2. CASE /\ ctl.by = Nothing \/ First \in target[ctl.by]
             /\ startedBy' = [k \in Continues |-> IF k = ctl.by THEN startedBy[k] \cup {First}
                                                  ELSE startedBy[k]]
    BY <1>0, <2>1, <2>2 DEF Authorising
  <2> QED BY <1>1, <1>2, <2>1, <2>2 DEF Dispatch, Allowed
<1>3. ASSUME NEW k \in Continues, Continue(k)
      PROVE  Authorising'
  <2>1. target' = [target EXCEPT ![k] = Authorized(k)] /\ UNCHANGED startedBy
    BY <1>3 DEF Continue
  <2> QED BY <1>0, <2>1 DEF Authorising, Authorized
<1>4. ASSUME ~ Dispatch, \A k \in Continues : ~ Continue(k)
      PROVE  UNCHANGED <<target, startedBy>>
  BY <1>4 DEF Next, vars, table, Hold, Submit, Resubmit, Created, Begin, Finish, Strand,
              Unstrand, CancelQueued, DrivenAgain, AfterTurn, Recover, FollowUp,
              RemoveFollowUp, Started, StartFails, Close, Down, Serve
<1> QED BY <1>1, <1>2, <1>3, <1>4

(* However often one continuation is sent, it starts at most one message. *)
THEOREM OneContinuationStartsOne == Spec => []ContinuationStartsOne
<1>1. Init => Authorising
  BY DEF Init, Authorising
<1>2. Typed /\ Authorising => ContinuationStartsOne
  <2> SUFFICES ASSUME Typed, Authorising, NEW k \in Continues
               PROVE  Cardinality(startedBy[k]) <= 1
    BY DEF ContinuationStartsOne
  <2>1. startedBy[k] = {} \/ \E i \in Items \cup {Nothing} : startedBy[k] = {i}
    BY DEF Authorising
  <2>2. CASE startedBy[k] = {}
    BY <2>2, FS_EmptySet
  <2>3. ASSUME NEW i, startedBy[k] = {i}
        PROVE  Cardinality(startedBy[k]) <= 1
    <3>1. Cardinality({i}) = 1
      BY FS_Singleton
    <3> QED BY <2>3, <3>1
  <2> QED BY <2>1, <2>2, <2>3
<1> QED BY <1>1, <1>2, TypesStart, TypesStep, AuthorisingStep, PTL DEF Spec

-----------------------------------------------------------------------------
(***************************************************************************)
(* The table implements FollowUpQueue: a message counts as started when it  *)
(* has a run, and as removed when it was cancelled before that.             *)
(***************************************************************************)
Ran == {i \in Items : status[i] # "none"}
Withdrawn == {i \in Items : mark[i] = "cancelled" /\ status[i] = "none"}

LEMMA Unseen ==
  ASSUME Typed, UNCHANGED queue,
         \A i \in Items : /\ status'[i] = "none" <=> status[i] = "none"
                          /\ status[i] = "none" =>
                               (mark'[i] = "cancelled" <=> mark[i] = "cancelled")
  PROVE  UNCHANGED <<queue, Ran, Withdrawn>>
BY DEF Ran, Withdrawn

(* A start is that of the first message that waits. *)
LEMMA DispatchStarts ==
  ASSUME Typed, Legal, Dispatch
  PROVE  (\E n \in DOMAIN queue : FollowUps!Start(n)) \/ UNCHANGED <<queue, Ran, Withdrawn>>
<1>0. /\ Items \subseteq Turns /\ status \in [Turns -> Active \cup Terminal \cup {"none"}]
      /\ mark \in [Items -> Mark] /\ queue \in Seq(Items) /\ UNCHANGED queue
      /\ Nothing \notin Items
  BY ConversationsAssumption DEF Typed, RunsOK, TableOK, Turns, Dispatch
<1>1. CASE UNCHANGED <<mark, runs>>
  BY <1>0, <1>1, Unseen DEF runs
<1>2. CASE /\ First # Nothing /\ status[First] # "none" /\ UNCHANGED runs
           /\ mark' = [mark EXCEPT ![First] = "dispatched"]
  BY <1>0, <1>2, Unseen DEF runs
<1>3. CASE /\ First # Nothing /\ status[First] = "none" /\ CreateRun(First)
           /\ UNCHANGED mark
  <2>1. Pending # {}
    BY <1>0, <1>3, FirstIsPending
  <2>2. PICK n \in DOMAIN queue :
          /\ First = queue[n] /\ First \in Items /\ mark[First] = "pending"
          /\ \A m \in 1..n-1 : mark[queue[m]] # "pending"
    BY <1>0, <2>1, FirstIsPending
  <2>3. Ran' = Ran \cup {First} /\ Withdrawn' = Withdrawn
    BY <1>0, <1>3, <2>2 DEF CreateRun, Ran, Withdrawn
  <2>4. First \notin Ran \cup Withdrawn
    BY <1>3, <2>2 DEF Ran, Withdrawn
  <2>5. ASSUME NEW m \in 1..n-1
        PROVE  queue[m] \in Ran \cup Withdrawn
    <3>1. m \in DOMAIN queue /\ queue[m] \in Items
      BY <1>0
    <3>2. mark[queue[m]] \in {"dispatched", "cancelled"}
      <4>1. mark[queue[m]] # "none"
        BY <3>1 DEF Typed, TableOK, ToSet
      <4> QED BY <1>0, <2>2, <3>1, <4>1 DEF Mark
    <3> QED BY <3>1, <3>2 DEF Legal, Rows, Ran, Withdrawn
  <2> QED BY <1>0, <2>2, <2>3, <2>4, <2>5
          DEF FollowUps!Start, FollowUps!Waits, Ran, Withdrawn
<1> QED BY <1>1, <1>2, <1>3 DEF Dispatch

LEMMA FollowUpAccepts ==
  ASSUME Typed, Legal, NEW i \in Items, FollowUp(i)
  PROVE  FollowUps!Accept(i) \/ UNCHANGED <<queue, Ran, Withdrawn>>
<1>1. UNCHANGED status
  BY DEF FollowUp, runs
<1>2. CASE UNCHANGED <<queue, mark>>
  BY <1>1, <1>2, Unseen
<1>3. CASE /\ mark[i] = "none" /\ queue' = Append(queue, i)
           /\ mark' = [mark EXCEPT ![i] = "pending"]
  <2>1. i \notin ToSet(queue)
    BY <1>3 DEF Typed, TableOK
  <2>2. Ran' = Ran /\ Withdrawn' = Withdrawn
    BY <1>1, <1>3 DEF Typed, TableOK, Ran, Withdrawn
  <2> QED BY <1>3, <2>1, <2>2 DEF FollowUps!Accept, FollowUps!ToSet, ToSet, Ran, Withdrawn
<1> QED BY <1>2, <1>3 DEF FollowUp

LEMMA RemoveWithdraws ==
  ASSUME Typed, Legal, NEW i \in Items, RemoveFollowUp(i)
  PROVE  (\E n \in DOMAIN queue : FollowUps!Withdraw(n)) \/ UNCHANGED <<queue, Ran, Withdrawn>>
<1>1. UNCHANGED <<queue, status>> /\ mark' = [mark EXCEPT ![i] = "cancelled"]
      /\ mark[i] \in {"pending", "cancelled"} /\ mark \in [Items -> Mark]
  BY DEF RemoveFollowUp, runs, Typed, TableOK
<1>2. CASE mark[i] = "cancelled" \/ status[i] # "none"
  BY <1>1, <1>2, Unseen
<1>3. CASE mark[i] = "pending" /\ status[i] = "none"
  <2>1. PICK n \in DOMAIN queue : queue[n] = i
    BY <1>3 DEF Typed, TableOK, ToSet
  <2>2. Ran' = Ran /\ Withdrawn' = Withdrawn \cup {i}
    BY <1>1, <1>3 DEF Ran, Withdrawn
  <2>3. i \notin Ran \cup Withdrawn
    BY <1>3 DEF Ran, Withdrawn
  <2> QED BY <1>1, <2>1, <2>2, <2>3 DEF FollowUps!Withdraw, FollowUps!Waits, Ran, Withdrawn
<1> QED BY <1>1, <1>2, <1>3

(* No other step is seen in the queue. *)
LEMMA OthersUnseen ==
  ASSUME Typed, Legal, [Next]_vars, ~Dispatch,
         \A i \in Items : ~FollowUp(i) /\ ~RemoveFollowUp(i)
  PROVE  UNCHANGED <<queue, Ran, Withdrawn>>
<1>0. /\ status \in [Turns -> Active \cup Terminal \cup {"none"}] /\ Items \subseteq Turns
      /\ mark \in [Items -> Mark]
      /\ \A t \in Roots : t \notin Items
  BY ConversationsAssumption DEF Typed, RunsOK, TableOK, Turns
<1>1. ASSUME NEW t \in Turns, NEW st \in Active \cup Terminal, Become(t, st),
             status[t] # "none", UNCHANGED table
      PROVE  UNCHANGED <<queue, Ran, Withdrawn>>
  BY <1>0, <1>1, Unseen DEF Become, table, Active, Terminal
<1>2. CASE UNCHANGED <<table, runs>>
  BY <1>2, Unseen DEF table, runs
<1>3. CASE UNCHANGED vars
  BY <1>2, <1>3 DEF vars
<1>4. ASSUME NEW t \in Turns, Submit(t)
      PROVE  UNCHANGED <<queue, Ran, Withdrawn>>
  BY <1>0, <1>4, Unseen DEF Submit, CreateRun, table
<1>5. ASSUME NEW t \in Turns, Resubmit(t) \/ Strand(t) \/ AfterTurn(t)
      PROVE  UNCHANGED <<queue, Ran, Withdrawn>>
  BY <1>2, <1>5 DEF Resubmit, Strand, AfterTurn
<1>6. ASSUME NEW t \in Turns, Created(t)
      PROVE  UNCHANGED <<queue, Ran, Withdrawn>>
  BY <1>1, <1>2, <1>6 DEF Created, Terminal
<1>7. ASSUME NEW t \in Turns, Begin(t) \/ Unstrand(t) \/ CancelQueued(t) \/ Recover(t)
      PROVE  UNCHANGED <<queue, Ran, Withdrawn>>
  BY <1>1, <1>7 DEF Begin, Unstrand, CancelQueued, Recover, Active, Terminal
<1>8. ASSUME NEW t \in Turns, Finish(t)
      PROVE  UNCHANGED <<queue, Ran, Withdrawn>>
  BY <1>1, <1>2, <1>8 DEF Finish, Terminal
<1>9. ASSUME NEW t \in Turns, DrivenAgain(t)
      PROVE  UNCHANGED <<queue, Ran, Withdrawn>>
  BY <1>9, Unseen DEF DrivenAgain, table
<1>10. ASSUME NEW k \in Continues, Continue(k)
       PROVE  UNCHANGED <<queue, Ran, Withdrawn>>
  BY <1>10, Unseen DEF Continue, runs
<1>11. CASE Started
  <2>1. ctl.item \in Items /\ status[ctl.item] # "none"
    BY <1>11 DEF Started, Typed, Legal, Dispatching
  <2>2. mark' = [mark EXCEPT ![ctl.item] = "dispatched"] /\ UNCHANGED <<queue, status>>
    BY <1>11 DEF Started, runs
  <2> QED BY <1>0, <2>1, <2>2, Unseen
<1>12. CASE StartFails
  <2>1. ctl.item \in Turns
    BY <1>12 DEF StartFails, Typed, Turns
  <2> QED BY <1>1, <1>2, <1>12, <2>1 DEF StartFails, Terminal
<1>13. CASE Close \/ Down \/ Serve
  BY <1>2, <1>13 DEF Close, Down, Serve
<1> QED BY <1>3, <1>4, <1>5, <1>6, <1>7, <1>8, <1>9, <1>10, <1>11, <1>12, <1>13 DEF Next, Hold

(* Messages are started in the order they were accepted, each at most once, and
   never one that was removed while it waited: whatever is retried, removed,
   cancelled or lost with the process. *)
THEOREM QueueKept == Spec => QueueSpec
<1>1. Init => FollowUps!Init
  BY DEF Init, FollowUps!Init, Turns
<1>2. Typed /\ Legal /\ [Next]_vars => [FollowUps!Next]_(FollowUps!queueVars)
  <2> SUFFICES ASSUME Typed, Legal, [Next]_vars
               PROVE  FollowUps!Next \/ UNCHANGED FollowUps!queueVars
    OBVIOUS
  <2>1. CASE Dispatch
    BY <2>1, DispatchStarts DEF FollowUps!Next, FollowUps!queueVars, Ran, Withdrawn
  <2>2. ASSUME NEW i \in Items, FollowUp(i)
        PROVE  FollowUps!Next \/ UNCHANGED FollowUps!queueVars
    BY <2>2, FollowUpAccepts DEF FollowUps!Next, FollowUps!queueVars, Ran, Withdrawn
  <2>3. ASSUME NEW i \in Items, RemoveFollowUp(i)
        PROVE  FollowUps!Next \/ UNCHANGED FollowUps!queueVars
    BY <2>3, RemoveWithdraws DEF FollowUps!Next, FollowUps!queueVars, Ran, Withdrawn
  <2>4. CASE ~Dispatch /\ \A i \in Items : ~FollowUp(i) /\ ~RemoveFollowUp(i)
    BY <2>4, OthersUnseen DEF FollowUps!queueVars, Ran, Withdrawn
  <2> QED BY <2>1, <2>2, <2>3, <2>4
<1> QED BY <1>1, <1>2, LegalAlways, PTL DEF Spec, QueueSpec, FollowUps!Spec
=============================================================================
