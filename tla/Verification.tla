---------------------------- MODULE Verification ----------------------------
(***************************************************************************)
(* The deterministic verification a task must pass before it may complete: *)
(* the validation plan discovered from the changed paths, its commands run *)
(* one by one by the managed executor (which may have to wait for a        *)
(* reviewer), and the report built from their results.                     *)
(*   workflow.py _verify_task, verification/*.py                           *)
(* A path has a kind; a command is its category and name; what a command   *)
(* line would do is the policy's verdict on it (Policy) and an outcome.    *)
(* The sandbox that runs a command and the people and processes that write *)
(* the workspace or decide approvals are external.                         *)
(***************************************************************************)
EXTENDS Naturals, Sequences, FiniteSets, SequencesExt

CONSTANTS Paths,          \* paths of the workspace that may change
          KindOf,         \* [Paths -> {"python", "script", "text"}]
          Adjacent,       \* [Paths -> BOOLEAN]: an adjacent Python test exists
          Tasks,          \* the tasks: their scope, level and requirements
          Manifests,      \* sets of commands the repository declares
          Policy,         \* [commands' names -> {"allow", "ask", "deny"}]
          MaxMoves, MaxLosses   \* bounds of the model

VARIABLES task, manifest, \* the request and the repository's commands
          changed,        \* the paths changed since the task's base revision
          moves, losses,
          rows,           \* the approval row of each command, by name
          at,             \* where _verify_task is
          plan,           \* the changed paths and commands it was planned for
          results,        \* the results so far
          report,         \* <<>> or the report
          moved           \* the workspace was written since the plan was made

vars == <<task, manifest, changed, moves, losses, rows, at, plan, results, report, moved>>

Names == DOMAIN Policy
NoRow == "none"
RowStates == {NoRow, "pending", "approved", "denied", "expired"}

(***************************************************************************)
(* The plan                                                                *)
(***************************************************************************)
\* _STRENGTH_ORDER, from none.
StrengthOrder == [none |-> 0, syntax |-> 1, static |-> 2, behavioral |-> 3]

Strength(category) == CASE category = "syntax" -> "syntax"
                         [] category \in {"test", "custom"} -> "behavioral"
                         [] OTHER -> "static"

Command(category, required, minimum) ==
    [category |-> category, required |-> required, minimum |-> minimum]

If(condition, seq) == IF condition THEN seq ELSE <<>>

\* discover_validation_plan and the task's own requirement, cheap to broad.
Commands(paths) ==
    LET adjacent == \E p \in paths : KindOf[p] = "python" /\ Adjacent[p] IN
    If(\E p \in paths : KindOf[p] = "python", <<Command("syntax", TRUE, 0)>>)
    \o If("lint" \in manifest, <<Command("lint", FALSE, 0)>>)
    \o If("typecheck" \in manifest, <<Command("typecheck", FALSE, 0)>>)
    \o If("test" \in manifest, <<Command("test", TRUE, 0)>>)
    \o If("test" \notin manifest /\ adjacent, <<Command("test", TRUE, 1)>>)
    \o <<Command("diff", TRUE, 0)>>
    \o If(task.custom, <<Command("custom", TRUE, 0)>>)

\* check_scope: the changed paths the task does not permit.
ScopeViolations(paths) ==
    {p \in paths : \/ p \in task.forbidden
                   \/ task.allowed # {} /\ p \notin task.allowed}

\* _required_strength.
RequiredStrength(paths) ==
    IF task.level # "auto" THEN task.level
    ELSE IF \E p \in paths : KindOf[p] \in {"python", "script"} THEN "behavioral"
    ELSE "static"

(***************************************************************************)
(* Results and the report                                                  *)
(***************************************************************************)
\* What running a command can return: its status, and the tests it says it ran.
Outcomes == {[status |-> "ok", tests |-> 1], [status |-> "ok", tests |-> 0],
             [status |-> "error", tests |-> 0], [status |-> "timeout", tests |-> 0]}
Blocked == [status |-> "blocked", tests |-> 0]

\* enforce_test_count: a test runner that ran too few tests has failed.
EnforceTestCount(command, outcome) ==
    IF outcome.status = "ok" /\ outcome.tests < command.minimum
    THEN "error" ELSE outcome.status

Result(command, outcome) ==
    [command |-> command, tests |-> outcome.tests,
     status |-> EnforceTestCount(command, outcome)]

Passed(result) == result.status = "ok"

Achieved(rs) ==
    {StrengthOrder[Strength(rs[i].command.category)] :
        i \in {j \in DOMAIN rs : Passed(rs[j])}} \cup {StrengthOrder["none"]}

\* build_report: every criterion is satisfied by the same two conditions.
BuildReport(rs, paths) ==
    LET enough == \E n \in Achieved(rs) : n >= StrengthOrder[RequiredStrength(paths)]
        required == \A i \in DOMAIN rs : rs[i].command.required => Passed(rs[i])
    IN [passed |-> required /\ enough /\ ScopeViolations(paths) = {},
        paths |-> paths]

\* After which result the plan is not continued.
StopsAtAny(result) == ~ Passed(result)
StopsAt(result) == result.command.required /\ ~ Passed(result)

(***************************************************************************)
(* _verify_task                                                            *)
(***************************************************************************)
NoPlan == [paths |-> {}, commands |-> <<>>]

Init == /\ task \in Tasks
        /\ manifest \in Manifests
        /\ changed = {}
        /\ moves = 0 /\ losses = 0
        /\ rows = [n \in Names |-> NoRow]
        /\ at = "idle"
        /\ plan = NoPlan
        /\ results = <<>>
        /\ report = <<>>
        /\ moved = FALSE

given == <<task, manifest, losses>>

Begin == /\ at = "idle"
         /\ at' = "call"
         /\ plan' = [paths |-> changed, commands |-> Commands(changed)]
         /\ results' = <<>>
         /\ report' = <<>>
         /\ moved' = FALSE
         /\ UNCHANGED <<given, changed, moves, rows>>

Current == plan.commands[Len(results) + 1]
RowOf(command) == rows[command.category]

\* The executor runs a command the policy allows, or one that is approved, and
\* none that was refused or has lapsed.
Runs(command) == \/ Policy[command.category] = "allow" /\ RowOf(command) \notin {"denied", "expired"}
                 \/ Policy[command.category] = "ask" /\ RowOf(command) = "approved"

\* A result is recorded: the plan goes on, or the report is built.
Record(result) ==
    LET rs == Append(results, result) IN
    /\ results' = rs
    /\ IF StopsAt(result) \/ Len(rs) = Len(plan.commands)
       THEN /\ at' = "done"
            /\ report' = <<BuildReport(rs, plan.paths)>>
       ELSE /\ at' = "call"
            /\ UNCHANGED report

Execute == /\ at \in {"call", "again"}
           /\ Runs(Current)
           /\ \E outcome \in Outcomes : Record(Result(Current, outcome))
           /\ UNCHANGED <<given, changed, moves, rows, plan, moved>>

\* The executor asks for an approval, or finds the row of an earlier refusal;
\* either way the workflow waits for that row.
Ask == /\ at = "call"
       /\ ~ Runs(Current)
       /\ Policy[Current.category] # "deny" \/ RowOf(Current) \in {"denied", "expired"}
       /\ rows' = IF RowOf(Current) = NoRow
                  THEN [rows EXCEPT ![Current.category] = "pending"] ELSE rows
       /\ at' = "wait"
       /\ UNCHANGED <<given, changed, moves, plan, results, report, moved>>

\* A command the policy denies has no request to wait for.
Refuse == /\ at = "call"
          /\ ~ Runs(Current)
          /\ Policy[Current.category] = "deny"
          /\ RowOf(Current) \notin {"denied", "expired"}
          /\ Record(Result(Current, Blocked))
          /\ UNCHANGED <<given, changed, moves, rows, plan, moved>>

\* wait returns: an approved command is tried once more, another one is blocked.
Answered == /\ at = "wait"
            /\ RowOf(Current) = "approved"
            /\ at' = "again"
            /\ UNCHANGED <<given, changed, moves, rows, plan, results, report, moved>>

Turned == /\ at = "wait"
          /\ RowOf(Current) \in {"denied", "expired"}
          /\ Record(Result(Current, Blocked))
          /\ UNCHANGED <<given, changed, moves, rows, plan, moved>>

\* A reviewer decides, or the request lapses.
Decide(n) == /\ rows[n] = "pending"
             /\ \E decision \in {"approved", "denied", "expired"} :
                   rows' = [rows EXCEPT ![n] = decision]
             /\ UNCHANGED <<given, changed, moves, at, plan, results, report, moved>>

\* The workspace is written: by the agent between verifications, by a command
\* of the plan or by anybody else during one.
Write(p) == /\ moves < MaxMoves
            /\ moves' = moves + 1
            /\ changed' = IF p \in changed THEN changed \ {p} ELSE changed \cup {p}
            /\ moved' = (at # "idle")
            /\ UNCHANGED <<given, rows, at, plan, results, report>>

\* The verification is over, or its process is lost: the approval rows stay.
Leave == /\ at = "done"
         /\ at' = "idle" /\ plan' = NoPlan /\ results' = <<>> /\ report' = <<>>
         /\ moved' = FALSE
         /\ UNCHANGED <<given, changed, moves, rows>>

Crash == /\ at \in {"call", "wait", "again"}
         /\ losses < MaxLosses
         /\ losses' = losses + 1
         /\ at' = "idle" /\ plan' = NoPlan /\ results' = <<>> /\ report' = <<>>
         /\ moved' = FALSE
         /\ UNCHANGED <<task, manifest, changed, moves, rows>>

Next == \/ Begin \/ Execute \/ Ask \/ Refuse \/ Answered \/ Turned \/ Leave \/ Crash
        \/ \E n \in Names : Decide(n)
        \/ \E p \in Paths : Write(p)

Spec == Init /\ [][Next]_vars

(***************************************************************************)
(* Properties                                                              *)
(***************************************************************************)
TypeOK == /\ task \in Tasks /\ manifest \in Manifests
          /\ changed \subseteq Paths
          /\ rows \in [Names -> RowStates]
          /\ at \in {"idle", "call", "wait", "again", "done"}
          /\ Len(results) <= Len(plan.commands)
          /\ report # <<>> => at = "done"

\* A report that passes stands for the whole plan: each required command of the
\* plan (not only those that were reached) ran and passed with the tests it had
\* to run, some passed command is as strong as the changes call for, and unless
\* the workspace was written since the plan was made, what is changed now is what
\* was checked and within the task's scope.
PassedMeansVerified ==
    (report # <<>> /\ report[1].passed) =>
       /\ \A i \in DOMAIN plan.commands :
             plan.commands[i].required =>
                /\ i \in DOMAIN results
                /\ results[i].command = plan.commands[i]
                /\ results[i].status = "ok"
                /\ results[i].tests >= plan.commands[i].minimum
       /\ \E i \in DOMAIN results :
             /\ results[i].status = "ok"
             /\ (task.level = "auto" /\ \E p \in plan.paths : KindOf[p] # "text") =>
                   results[i].command.category \in {"test", "custom"}
       /\ ~ moved => /\ changed \cap task.forbidden = {}
                     /\ task.allowed # {} => changed \subseteq task.allowed

=============================================================================
