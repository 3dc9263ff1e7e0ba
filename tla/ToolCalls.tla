----------------------------- MODULE ToolCalls -----------------------------
(***************************************************************************)
(* The tool calls of one task's worker and checks: shell commands that may *)
(* need a person's approval (harness/tools/adk_adapter.py,                 *)
(* harness/verification/managed.py, harness/approvals/, app/agent/         *)
(* builders.py) and the file mutations guarded by receipts                 *)
(* (harness/state/receipts.py, harness/environment/local.py).              *)
(*                                                                         *)
(* Each call is a coroutine that waits for threads.  A cancelled run drops *)
(* its coroutines; the threads go on.  A stop of the process loses both    *)
(* and keeps the approval rows, the receipts and the file.  One path of    *)
(* the workspace stands for all: calls on different paths share nothing.   *)
(* The edited text is a sequence of tokens, and an edit looks for one.     *)
(***************************************************************************)
EXTENDS Integers, Sequences, FiniteSets

CONSTANTS Calls,       \* tool calls the models of this task make
          Allowed,     \* commands the policy lets run
          Asked,       \* commands that need an approval
          Refused,     \* destructive commands, never run
          Mutations,   \* edits and writes the model asks for
          MaxWaits,    \* 32: concurrent waits of one run
          MaxStarts,   \* bound: starts of the process
          Nothing      \* no command, no mutation

Commands == Allowed \cup Asked \cup Refused

ASSUME CommandsAssumption ==
    Allowed \cap Asked = {} /\ Allowed \cap Refused = {} /\ Asked \cap Refused = {}
ASSUME LimitsAssumption == MaxWaits \in Nat \ {0} /\ MaxStarts \in Nat \ {0}

(* A mutation replaces the token `old` by the text `new` in the file, or
   writes the whole text `new`; `expect` is the condition the model put on
   the old file: none, the hash it last read, or that there is no file. *)
ASSUME MutationsAssumption ==
    \A m \in Mutations :
        /\ {"tool", "new", "expect"} \subseteq DOMAIN m
        /\ m.tool \in {"edit", "write"} /\ m.expect \in {"any", "hash", "absent"}
        /\ m.tool = "edit" => "old" \in DOMAIN m /\ m.expect # "absent"

(* Who asks: the bash tool (also from a notebook cell) or a check of the
   verification.  A fingerprint covers the asker: each has its own row. *)
Askers == {"bash", "check"}
Rows == Askers \X Commands
RowStatus == {"none", "pending", "approved", "denied", "expired"}
Decisions == {"approved", "denied"}

Stage == {"idle",
          "consulting", "requesting", "cleared", "running",  \* threads
          "replied", "opening", "waiting", "lapsing", "closing",
          "beginning", "reading", "checking", "replacing", "finishing",
          "done"}
Threads == {"consulting", "requesting", "cleared", "running",
            "beginning", "reading", "checking", "replacing", "finishing"}
Outcome == {"none", "ran", "blocked", "refused wait", "ok", "replayed", "error", "lost"}

VARIABLES
    interactive,  \* a terminal that answers approvals started the run
    process,      \* "running", "cancelled" (the run was) or "down"
    starts,       \* starts of the process so far
    rows,         \* approvals.db: the status of each request
    waits,        \* ApprovalWaiter._pending
    deciding,     \* decisions the waiter accepted and has not stored yet
    calls,        \* the state of each call
    file,         \* the file, and whether it exists
    receipts,     \* managed-tools.db: the status of each receipt begun
    held          \* history: the mutations whose result the file has held

vars == <<interactive, process, starts, rows, waits, deciding, calls, file,
          receipts, held>>
approvals == <<rows, waits, deciding>>
mutated == <<file, receipts, held>>

(* A call: who asks for which row, or which mutation with the file the model
   has last read; whether a notebook cell makes it; whether its coroutine still awaits; whether it has waited
   for a decision; the status it read last; the text it read or will write. *)
NoCall == [row |-> Nothing, cell |-> FALSE, mutation |-> Nothing, basis |-> Nothing,
           stage |-> "idle", awaited |-> TRUE, asked |-> FALSE, seen |-> "none",
           before |-> Nothing, after |-> Nothing, again |-> FALSE, applies |-> FALSE, outcome |-> "none",
           launched |-> FALSE, lapsed |-> FALSE]

Init ==
    /\ interactive \in BOOLEAN
    /\ process = "running" /\ starts = 1
    /\ rows = [r \in Rows |-> "none"]
    /\ waits = {} /\ deciding = {}
    /\ calls = [c \in Calls |-> NoCall]
    /\ file \in {[here |-> FALSE, text |-> <<>>], [here |-> TRUE, text |-> <<"x">>]}
    /\ receipts = <<>> /\ held = {}

Move(c, stage) == calls' = [calls EXCEPT ![c].stage = stage]
End(c, outcome) == calls' = [calls EXCEPT ![c].stage = "done", ![c].outcome = outcome]

----------------------------------------------------------------------------
(* Commands.                                                               *)

Busy == {c \in Calls : calls[c].stage \notin {"idle", "done"}}
ChecksRun == \E c \in Busy : calls[c].row \in {"check"} \X Commands

(* The model calls the bash tool, or a notebook cell its broker's. *)
Ask(c) ==
    /\ process = "running" /\ calls[c].stage = "idle" /\ ~ChecksRun
    /\ \E command \in Commands, cell \in BOOLEAN :
          calls' = [calls EXCEPT ![c].row = <<"bash", command>>, ![c].cell = cell,
                                 ![c].stage = "consulting"]
    /\ UNCHANGED <<interactive, process, starts, approvals, mutated>>

(* When all its calls have ended the verification runs one check after the
   other. *)
Check(c) ==
    /\ process = "running" /\ calls[c].stage = "idle" /\ Busy = {}
    /\ \E command \in Commands :
          calls' = [calls EXCEPT ![c].row = <<"check", command>>, ![c].stage = "consulting"]
    /\ UNCHANGED <<interactive, process, starts, approvals, mutated>>

Row(c) == calls[c].row
InWait(c) == calls[c].stage \in {"waiting", "lapsing"}
Command(c) == Row(c)[2]

(* A blocked result that names an open question goes back to the coroutine,
   which waits for the answer once, and only in an interactive run. *)
Block(c, waits_for_it) ==
    IF waits_for_it /\ interactive /\ calls[c].awaited /\ ~calls[c].asked
    THEN Move(c, "replied") ELSE End(c, "blocked")

(* A mutant: an approval of the command for any asker counts. *)
ConsultAny(c) ==
    /\ calls[c].stage = "consulting" /\ Row(c)[1] = "bash"
    /\ CASE rows[Row(c)] \in {"denied", "expired"} -> End(c, "blocked")
         [] \/ \E a \in Askers : rows[<<a, Command(c)>>] = "approved"
            \/ Command(c) \in Allowed -> Move(c, "cleared")
         [] Command(c) \in Refused -> End(c, "blocked")
         [] OTHER -> Move(c, "requesting")
    /\ UNCHANGED <<interactive, process, starts, approvals, mutated>>

(* bash: the thread reads the row of the exact command, then the policy. *)
Consult(c) ==
    /\ calls[c].stage = "consulting" /\ Row(c)[1] = "bash"
    /\ CASE rows[Row(c)] \in {"denied", "expired"} -> End(c, "blocked")
         [] rows[Row(c)] = "approved" \/ Command(c) \in Allowed -> Move(c, "cleared")
         [] Command(c) \in Refused -> End(c, "blocked")
         [] OTHER -> Move(c, "requesting")
    /\ UNCHANGED <<interactive, process, starts, approvals, mutated>>

(* A check does the same, but its result names a closed request too and the
   verification asks the waiter about it again. *)
ConsultForCheck(c) ==
    /\ calls[c].stage = "consulting" /\ Row(c)[1] = "check"
    /\ CASE rows[Row(c)] \in {"denied", "expired"} -> Block(c, TRUE)
         [] rows[Row(c)] = "approved" \/ Command(c) \in Allowed -> Move(c, "cleared")
         [] Command(c) \in Refused -> End(c, "blocked")
         [] OTHER -> Move(c, "requesting")
    /\ UNCHANGED <<interactive, process, starts, approvals, mutated>>

(* INSERT OR IGNORE of the request; the answer is "blocked" whatever the
   row says by now. *)
Request(c) ==
    /\ calls[c].stage = "requesting"
    /\ rows' = [rows EXCEPT ![Row(c)] = IF @ = "none" THEN "pending" ELSE @]
    /\ Block(c, TRUE)
    /\ UNCHANGED <<interactive, process, starts, waits, deciding, mutated>>

Launch(c) ==
    /\ calls[c].stage = "cleared"
    /\ calls' = [calls EXCEPT ![c].stage = "running", ![c].launched = TRUE]
    /\ UNCHANGED <<interactive, process, starts, approvals, mutated>>

(* The command exits or, when its time is up, its shell is killed. *)
Exit(c) ==
    /\ calls[c].stage = "running"
    /\ End(c, "ran")
    /\ UNCHANGED <<interactive, process, starts, approvals, mutated>>

----------------------------------------------------------------------------
(* Waiting for a decision.                                                 *)

(* wait reads the request first and registers only for one still pending. *)
OpenWait(c) ==
    /\ calls[c].stage = "replied"
    /\ calls' = [calls EXCEPT ![c].stage = "opening", ![c].seen = rows[Row(c)]]
    /\ UNCHANGED <<interactive, process, starts, approvals, mutated>>

(* The wait ends with a status: approved asks again, all else is over. *)
Answered(c, status) ==
    [calls EXCEPT ![c].asked = TRUE, ![c].seen = status,
        ![c].stage = IF status = "approved" THEN "consulting" ELSE "done",
        ![c].outcome = IF status = "approved" THEN "none" ELSE "blocked"]

Register(c) ==
    /\ calls[c].stage = "opening"
    /\ \/ /\ calls[c].seen # "pending"
          /\ calls' = Answered(c, calls[c].seen)
          /\ UNCHANGED waits
       \/ /\ calls[c].seen = "pending"
          /\ Row(c) \in waits \/ Cardinality(waits) >= MaxWaits
          /\ End(c, "refused wait")
          /\ UNCHANGED waits
       \/ /\ calls[c].seen = "pending"
          /\ Row(c) \notin waits /\ Cardinality(waits) < MaxWaits
          /\ waits' = waits \cup {Row(c)}
          /\ Move(c, "waiting")
    /\ UNCHANGED <<interactive, process, starts, rows, deciding, mutated>>

(* Each second, or when a decision of the socket wakes it, the wait looks. *)
Poll(c) ==
    /\ calls[c].stage = "waiting"
    /\ rows[Row(c)] # "pending"
    /\ calls' = [calls EXCEPT ![c].stage = "closing", ![c].seen = rows[Row(c)]]
    /\ waits' = waits \ {Row(c)}
    /\ UNCHANGED <<interactive, process, starts, rows, deciding, mutated>>

(* A mutant: a wait has no time limit. *)
LapseNever(c) == FALSE /\ c \in Calls /\ UNCHANGED vars

Lapse(c) ==
    /\ calls[c].stage = "waiting"
    /\ calls' = [calls EXCEPT ![c].stage = "lapsing", ![c].lapsed = TRUE]
    /\ UNCHANGED <<interactive, process, starts, approvals, mutated>>

(* expire closes a request that is still pending and no other. *)
Expired(r) == [rows EXCEPT ![r] = IF @ = "pending" THEN "expired" ELSE @]

(* A mutant: the wait that timed out answers with the row. *)
ExpireLapsedRacing(c) ==
    /\ calls[c].stage = "lapsing"
    /\ rows' = Expired(Row(c))
    /\ calls' = [calls EXCEPT ![c].stage = "closing", ![c].seen = rows'[Row(c)]]
    /\ waits' = waits \ {Row(c)}
    /\ UNCHANGED <<interactive, process, starts, deciding, mutated>>

(* The wait that timed out answers "expired", whatever the row says. *)
ExpireLapsed(c) ==
    /\ calls[c].stage = "lapsing"
    /\ rows' = Expired(Row(c))
    /\ calls' = [calls EXCEPT ![c].stage = "closing", ![c].seen = "expired"]
    /\ waits' = waits \ {Row(c)}
    /\ UNCHANGED <<interactive, process, starts, deciding, mutated>>

(* The last expire of every wait, shielded from a cancellation. *)
CloseWait(c) ==
    /\ calls[c].stage = "closing"
    /\ rows' = Expired(Row(c))
    /\ IF calls[c].awaited THEN calls' = Answered(c, calls[c].seen) ELSE End(c, "lost")
    /\ UNCHANGED <<interactive, process, starts, waits, deciding, mutated>>

----------------------------------------------------------------------------
(* Decisions.                                                              *)

(* The run's approval control accepts a decision only for a request that a
   wait is registered for, then stores it in a thread. *)
Accept(r, d) ==
    /\ interactive /\ process = "running"
    /\ rows[r] = "pending" /\ r \in waits
    /\ deciding' = deciding \cup {<<r, d>>}
    /\ UNCHANGED <<interactive, process, starts, rows, waits, calls, mutated>>

(* submit_decision: the first decision of a pending request is stored; a
   later one and one for a closed request are refused. *)
Decided(r, d) == [rows EXCEPT ![r] = IF @ = "pending" THEN d ELSE @]

StoreDecision(r, d) ==
    /\ <<r, d>> \in deciding
    /\ deciding' = deciding \ {<<r, d>>}
    /\ rows' = Decided(r, d)
    /\ UNCHANGED <<interactive, process, starts, waits, calls, mutated>>

(* Another process on the host decides in the store itself. *)
DecideInStore(r, d) ==
    /\ rows[r] = "pending"
    /\ rows' = Decided(r, d)
    /\ UNCHANGED <<interactive, process, starts, waits, deciding, calls, mutated>>

----------------------------------------------------------------------------
(* Mutations of the file.                                                  *)

Hash(f) == IF f.here THEN f.text ELSE Nothing

(* How often, and where, a text has a token, and whether it has a text. *)
Positions(token, text) == {i \in DOMAIN text : text[i] = token}
Within(part, text) ==
    \E i \in 0 .. Len(text) - Len(part) : SubSeq(text, i + 1, i + Len(part)) = part
Substitute(text, token, new) ==
    LET i == CHOOSE i \in Positions(token, text) : TRUE
    IN  SubSeq(text, 1, i - 1) \o new \o SubSeq(text, i + 1, Len(text))

(* atomic_write: the condition on the old file is checked, a file that has
   the content already is left alone. *)
WriteVerdict(f, new, expect, basis) ==
    LET met == /\ expect = "absent" => ~f.here
               /\ expect = "hash" => Hash(f) = basis
    IN  IF f.text = new THEN "already" ELSE IF met THEN "write" ELSE "conflict"

(* replace_text: the hash first, then exactly one place to replace; without
   any, a file that has the new text counts as done. *)
EditVerdict(f, m, basis) ==
    LET places == Cardinality(Positions(m.old, f.text))
    IN  IF ~f.here \/ (m.expect = "hash" /\ Hash(f) # basis) THEN "conflict"
        ELSE IF places = 1 THEN "write"
        ELSE IF places = 0 /\ m.new # <<>> /\ Within(m.new, f.text) THEN "already"
        ELSE "conflict"

(* The receipt's key: the tool and its arguments, without the invocation. *)
Key(c) == [mutation |-> calls[c].mutation, basis |-> calls[c].basis]
Mutation(c) == calls[c].mutation

(* The model calls edit or write; a hash it gives is that of its last read. *)
Mutate(c) ==
    /\ process = "running" /\ calls[c].stage = "idle"
    /\ ~ChecksRun
    /\ \E m \in Mutations :
        /\ m.expect = "hash" => file.here
        /\ calls' = [calls EXCEPT ![c].mutation = m, ![c].stage = "beginning",
                        ![c].basis = IF m.expect = "hash" THEN file.text ELSE Nothing]
    /\ UNCHANGED <<interactive, process, starts, approvals, mutated>>

(* A mutant: any receipt counts as done. *)
BeginAny(c) ==
    /\ calls[c].stage = "beginning"
    /\ IF Key(c) \in DOMAIN receipts
       THEN /\ End(c, "replayed")
            /\ UNCHANGED receipts
       ELSE /\ Move(c, IF Mutation(c).tool = "edit" THEN "reading" ELSE "checking")
            /\ receipts' = [k \in DOMAIN receipts \cup {Key(c)} |->
                                IF k \in DOMAIN receipts THEN receipts[k] ELSE "started"]
    /\ UNCHANGED <<interactive, process, starts, approvals, file, held>>

(* begin inserts a started receipt or finds the one there is: a completed
   one answers the call, a started or failed one lets it run again. *)
Begin(c) ==
    /\ calls[c].stage = "beginning"
    /\ IF Key(c) \in DOMAIN receipts /\ receipts[Key(c)] = "completed"
       THEN /\ End(c, "replayed")
            /\ UNCHANGED receipts
       ELSE /\ calls' = [calls EXCEPT
                    ![c].stage = IF Mutation(c).tool = "edit" THEN "reading" ELSE "checking",
                    ![c].again = /\ Key(c) \in held
                                 /\ \A d \in Busy \ {c} : Key(d) # Key(c)]
            /\ receipts' = [k \in DOMAIN receipts \cup {Key(c)} |->
                                IF k \in DOMAIN receipts THEN receipts[k] ELSE "started"]
    /\ UNCHANGED <<interactive, process, starts, approvals, file, held>>

(* The tool's result: a conflict is an error, a file that was already so a
   success. *)
Result(verdict) ==
    CASE verdict = "already" -> "ok" [] verdict = "conflict" -> "error" [] OTHER -> "none"

(* The result is settled or a write is due. *)
Settle(c, verdict, after) ==
    /\ calls' = [calls EXCEPT
                    ![c].stage = CASE verdict # "write" -> "finishing"
                                   [] calls[c].stage = "reading" -> "checking"
                                   [] OTHER -> "replacing",
                    ![c].before = file,
                    ![c].after = after,
                    ![c].outcome = Result(verdict)]
    /\ held' = IF verdict = "already" THEN held \cup {Key(c)} ELSE held

ReadForEdit(c) ==
    /\ calls[c].stage = "reading"
    /\ LET m == Mutation(c)
           verdict == EditVerdict(file, m, calls[c].basis)
       IN  Settle(c, verdict,
                  IF verdict = "write" THEN Substitute(file.text, m.old, m.new) ELSE Nothing)
    /\ UNCHANGED <<interactive, process, starts, approvals, file, receipts>>

(* atomic_write reads the file again: an edit expects what it has read. *)
CheckFile(c) ==
    /\ calls[c].stage = "checking"
    /\ LET m == Mutation(c)
       IN  IF m.tool = "edit"
           THEN Settle(c, WriteVerdict(file, calls[c].after, "hash", calls[c].before.text),
                       calls[c].after)
           ELSE Settle(c, WriteVerdict(file, m.new, m.expect, calls[c].basis), m.new)
    /\ UNCHANGED <<interactive, process, starts, approvals, file, receipts>>

(* os.replace of the synced temporary file. *)
Replace(c) ==
    /\ calls[c].stage = "replacing"
    /\ file' = [here |-> TRUE, text |-> calls[c].after]
    /\ calls' = [calls EXCEPT ![c].stage = "finishing", ![c].outcome = "ok",
                              ![c].applies = TRUE]
    /\ held' = held \cup {Key(c)}
    /\ UNCHANGED <<interactive, process, starts, approvals, receipts>>

(* finish sets the receipt, whatever it says by now. *)
Finish(c) ==
    /\ calls[c].stage = "finishing"
    /\ receipts' = [receipts EXCEPT
                        ![Key(c)] = IF calls[c].outcome = "ok" THEN "completed" ELSE "failed"]
    /\ Move(c, "done")
    /\ UNCHANGED <<interactive, process, starts, approvals, file, held>>

----------------------------------------------------------------------------
(* The run and the process.                                                *)

(* The run's coroutines get a CancelledError: one that has not registered
   its wait is gone, one that has runs the last expire; threads go on, and
   so does the wait of a notebook cell, which a thread of the cell awaits. *)
Dropped(call) ==
    [call EXCEPT
        !.awaited = FALSE,
        !.lapsed = @ \/ call.stage \in {"replied", "opening", "waiting", "lapsing"},
        !.stage = CASE @ \in {"waiting", "lapsing"} -> "closing"
                    [] @ \in {"replied", "opening"} -> "done"
                    [] OTHER -> @,
        !.outcome = IF call.stage \in {"replied", "opening"} THEN "lost" ELSE @]

Cancel ==
    /\ process = "running"
    /\ process' = "cancelled"
    /\ calls' = [c \in Calls |-> IF c \notin Busy \/ calls[c].cell THEN calls[c]
                                 ELSE Dropped(calls[c])]
    /\ waits' = {calls[c].row : c \in {c \in Busy : calls[c].cell /\ InWait(c)}}
    /\ UNCHANGED <<interactive, starts, rows, deciding, mutated>>

(* The process stops: what its memory holds is gone. *)
Stop ==
    /\ process # "down"
    /\ process' = "down"
    /\ calls' = [c \in Calls |-> IF c \notin Busy THEN calls[c] 
                                 ELSE [calls[c] EXCEPT !.stage = "done", !.outcome = "lost"]]
    /\ waits' = {} /\ deciding' = {}
    /\ UNCHANGED <<interactive, starts, rows, mutated>>

(* A task of the command line is resumed with the same stores.  A server
   gives each run its own and never runs one again. *)
Start ==
    /\ process = "down" /\ ~interactive /\ starts < MaxStarts
    /\ process' = "running" /\ starts' = starts + 1
    /\ UNCHANGED <<interactive, approvals, calls, mutated>>

CommandStep(c) ==
    \/ Consult(c) \/ ConsultForCheck(c) \/ Request(c) \/ Launch(c) \/ Exit(c)
    \/ OpenWait(c) \/ Register(c) \/ Poll(c) \/ Lapse(c) \/ ExpireLapsed(c) \/ CloseWait(c)

MutationStep(c) == Begin(c) \/ ReadForEdit(c) \/ CheckFile(c) \/ Replace(c) \/ Finish(c)

CallStep(c) == CommandStep(c) \/ MutationStep(c)

Next ==
    \/ \E c \in Calls : Ask(c) \/ Check(c) \/ Mutate(c) \/ CallStep(c)
    \/ \E r \in Rows, d \in Decisions : Accept(r, d) \/ StoreDecision(r, d) \/ DecideInStore(r, d)
    \/ Cancel \/ Stop \/ Start

Spec == Init /\ [][Next]_vars

(* Threads and timers go on while the process runs; a command ends because
   its shell is killed when its time is up. *)
FairSpec == Spec /\ \A c \in Calls : WF_vars(CallStep(c))

----------------------------------------------------------------------------
(* Properties.                                                             *)

TypeOK ==
    /\ interactive \in BOOLEAN
    /\ process \in {"running", "cancelled", "down"} /\ starts \in 1 .. MaxStarts
    /\ rows \in [Rows -> RowStatus]
    /\ waits \subseteq Rows /\ deciding \subseteq Rows \X Decisions
    /\ DOMAIN calls = Calls
    /\ \A c \in Calls :
        /\ calls[c].row \in Rows \cup {Nothing}
        /\ calls[c].mutation \in Mutations \cup {Nothing}
        /\ calls[c].stage \in Stage /\ calls[c].outcome \in Outcome
        /\ calls[c].seen \in RowStatus
        /\ \A field \in {"cell", "awaited", "asked", "again", "applies", "launched", "lapsed"} :
              calls[c][field] \in BOOLEAN
    /\ file.here \in BOOLEAN
    /\ \A k \in DOMAIN receipts : receipts[k] \in {"started", "completed", "failed"}

(* A call whose wait timed out or was cancelled never launches its command,
   also when a decision raced with the end of the wait. *)
LapsedNeverRuns == \A c \in Calls : ~(calls[c].lapsed /\ calls[c].launched)

(* A command that needs an approval starts only under an approved row of its
   own asker, and no other row lets it. *)
RunsOnlyApproved ==
    [][\A c \in Calls : (calls'[c].launched /\ ~calls[c].launched) =>
          (Command(c) \in Allowed \/ rows[Row(c)] = "approved")]_calls

(* A mutation that answers with success, a replayed one too, has had its
   result in the file since its receipt began. *)
SuccessWasApplied ==
    /\ \A c \in Calls : calls[c].outcome \in {"ok", "replayed"} => Key(c) \in held
    /\ \A k \in DOMAIN receipts : receipts[k] = "completed" => k \in held

(* Every call ends, with its run cancelled too. *)
CallsEnd ==
    \A c \in Calls : calls[c].stage \notin {"idle", "done"} ~> calls[c].stage = "done"

(* docs/security.md:92 "Cancellation and expiry close pending requests
   without executing them": of a cancelled run at rest none is pending. *)
CancelledLeavesNonePending ==
    (interactive /\ process = "cancelled" /\ Busy = {})
        => \A r \in Rows : rows[r] # "pending"

(* docs/security.md:156 "An exact edit or write replay returns the prior
   success instead of applying the side effect again": a call that begins
   after an equal one has ended, having changed the file, changes nothing. *)
ReplayNeverApplies ==
    \A c \in Calls : ~(calls[c].again /\ calls[c].applies)
=============================================================================
