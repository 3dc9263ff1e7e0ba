------------------------------- MODULE Trials -------------------------------
(***************************************************************************)
(* The evaluation ledger: the trial matrix of an experiment, the command   *)
(* that prints its next assignment, the command that imports one result    *)
(* of the benchmark runner into an append-only file, and the paired        *)
(* analysis of the complete file.                                          *)
(*   evals/experiments.py; cli.py `eval plan|next|import|analyze`          *)
(* Every command is a process of its own that loads the file, and an       *)
(* import appends to it without a lock. The benchmark runner and the people*)
(* who start the commands are external. Hash orders are the given orders.  *)
(***************************************************************************)
EXTENDS Naturals, Sequences, FiniteSets, SequencesExt

CONSTANTS Benchmarks,     \* BENCHMARKS
          TaskOrder,      \* the manifest's tasks by the rank of their block
          BenchmarkOf,    \* [tasks -> Benchmarks]
          Attempts,       \* 1 or 2
          CandidateOrder, \* the candidates, in their order within a block
          Results,        \* results of the runner: [reward, sign]
          Importers,      \* import commands that may run at the same time
          MaxRepeats, MaxKills   \* bounds of the model

Torn == <<>>              \* a line that does not parse; others hold a record
None == 2                 \* no official reward

VARIABLES lines,          \* the lines of the result file
          importer,       \* what each import command is at
          overlapped,     \* two imports of one trial were under way at once
          repeats,        \* imports of a trial that another import had before
          kills,
          analysis        \* <<>> or the last analysis

vars == <<lines, importer, overlapped, repeats, kills, analysis>>

(***************************************************************************)
(* The matrix                                                              *)
(***************************************************************************)
\* build_matrix: a block per attempt and task, a trial per candidate in it; the
\* trial key identifies all of it.
Matrix ==
    LET blocks == [n \in 1 .. Attempts * Len(TaskOrder) |->
                      <<TaskOrder[((n - 1) % Len(TaskOrder)) + 1],
                        ((n - 1) \div Len(TaskOrder)) + 1>>]
        c == Len(CandidateOrder)
    IN [n \in 1 .. Len(blocks) * c |->
           LET block == blocks[((n - 1) \div c) + 1] IN
           [task |-> block[1], attempt |-> block[2],
            candidate |-> CandidateOrder[((n - 1) % c) + 1]]]

Assigned == Range(Matrix)
Candidates == Range(CandidateOrder)

(***************************************************************************)
(* Records                                                                 *)
(***************************************************************************)
\* trial_record_from_harbor_result: what the runner's result and the signs in
\* its diagnostic make of the trial, the first that applies.
Status(result) ==
    CASE result.sign = "quota" -> "subscription_interruption"
      [] result.sign = "violation" -> "safety_failure"
      [] result.sign = "timeout" -> "agent_timeout"
      [] result.sign = "exception" -> "infrastructure_error"
      [] result.sign = "none" /\ result.reward = None -> "verifier_error"
      [] OTHER -> IF result.reward = 1 THEN "pass" ELSE "task_failure"

\* An interruption is not held against the candidate, a failure of its own is.
Infrastructure == {"subscription_interruption", "verifier_error", "infrastructure_error"}
Reward(result) ==
    IF Status(result) \in Infrastructure THEN None
    ELSE IF Status(result) = "pass" THEN 1 ELSE 0

Record(trial, result) ==
    [trial |-> trial, status |-> Status(result), reward |-> Reward(result)]

\* load_trial_records: one line that does not parse fails the whole load.
Loads == Torn \notin Range(lines)
Recorded == {lines[n][1] : n \in {m \in DOMAIN lines : lines[m] # Torn}}
Keys == {r.trial : r \in Recorded}

\* next_assignment, of the lines that were loaded.
NextAssignment ==
    LET open == {n \in DOMAIN Matrix : Matrix[n] \notin Keys}
    IN IF open = {} THEN <<>>
       ELSE <<Matrix[CHOOSE n \in open : \A m \in open : n <= m]>>

(***************************************************************************)
(* Commands                                                                *)
(***************************************************************************)
Resting == [at |-> "idle"]

Init == /\ lines = <<>>
        /\ importer = [i \in Importers |-> Resting]
        /\ overlapped = {}
        /\ repeats = 0 /\ kills = 0
        /\ analysis = <<>>

\* The next assignment was run, or an earlier trial once more: its result is
\* imported. The file is loaded first.
Import(i) ==
    /\ importer[i].at = "idle"
    /\ Loads
    /\ \E trial \in Range(NextAssignment) \cup Keys, result \in Results :
          LET others == {j \in Importers \ {i} :
                            importer[j].at # "idle" /\ importer[j].record.trial = trial}
          IN /\ importer' = [importer EXCEPT ![i] =
                    [at |-> "load", record |-> Record(trial, result)]]
             /\ overlapped' = overlapped \cup {trial : j \in others}
             /\ repeats' = repeats + (IF trial \in Keys \/ others # {} THEN 1 ELSE 0)
             /\ repeats' <= MaxRepeats
    /\ UNCHANGED <<lines, kills, analysis>>

\* The trial has a result already, the same or another: nothing is appended.
\* A file that has become unreadable fails the command.
SettledAlike(record) == record \in Recorded
Settled(record) == record.trial \in Keys

Checked(i) ==
    /\ importer[i].at = "load"
    /\ importer' = [importer EXCEPT ![i] =
           IF ~ Loads THEN Resting
           ELSE IF Settled(importer[i].record) THEN Resting
           ELSE [@ EXCEPT !.at = "append"]]
    /\ UNCHANGED <<lines, overlapped, repeats, kills, analysis>>

\* A line is written and synced; after a torn line it continues that line.
Appended(line) == IF lines # <<>> /\ lines[Len(lines)] = Torn
                  THEN lines ELSE Append(lines, line)

AppendTrial(i) ==
    /\ importer[i].at = "append"
    /\ lines' = Appended(<<importer[i].record>>)
    /\ importer' = [importer EXCEPT ![i] = Resting]
    /\ UNCHANGED <<overlapped, repeats, kills, analysis>>

\* The process is killed, before its line, in the middle of it or after it.
Crash(i) ==
    /\ importer[i].at # "idle"
    /\ kills < MaxKills
    /\ kills' = kills + 1
    /\ importer' = [importer EXCEPT ![i] = Resting]
    /\ lines' \in IF importer[i].at = "append"
                  THEN {lines, Appended(Torn), Appended(<<importer[i].record>>)} ELSE {lines}
    /\ UNCHANGED <<overlapped, repeats, analysis>>

(***************************************************************************)
(* The analysis                                                            *)
(***************************************************************************)
\* Means of rewards 0 and 1 over at most two attempts, doubled to stay whole.
RewardsOf(records, c, t) == {r \in records : r.trial.candidate = c /\ r.trial.task = t}
TaskMean(rs) ==
    (2 * Cardinality({r \in rs : r.reward = 1})) \div Cardinality(rs)

\* _scores, of one candidate in one benchmark: the sum and the number of the
\* task means that the score is the quotient of.
ScoredTasks(records, c, b) ==
    {t \in Range(TaskOrder) : BenchmarkOf[t] = b /\ RewardsOf(records, c, t) # {}}
Score(records, c, b) ==
    LET tasks == ScoredTasks(records, c, b)
    IN [sum |-> MapThenSumSet(LAMBDA t : TaskMean(RewardsOf(records, c, t)), tasks),
        tasks |-> Cardinality(tasks)]

\* Two readings of a file: capability leaves an interrupted trial out, intent
\* to run counts it as a failure.
Capability(records) == {r \in records : r.reward # None}
Intent(records) == {[r EXCEPT !.reward = IF @ = None THEN 0 ELSE @] : r \in records}

\* _paired_task_values: the attempts both candidates have a reward for.
PairedAttempts(records, x, y, t) ==
    {n \in 1 .. Attempts :
        \A c \in {x, y} : \E r \in records :
            r.trial = [task |-> t, attempt |-> n, candidate |-> c] /\ r.reward # None}
\* The candidate's passes among those attempts.
PassesIn(records, c, t, attempts) ==
    Cardinality({r \in records : /\ r.trial.candidate = c /\ r.trial.task = t
                                 /\ r.trial.attempt \in attempts /\ r.reward = 1})

Paired(records, x, y) == {t \in Range(TaskOrder) : PairedAttempts(records, x, y, t) # {}}
Wins(records, x, y) ==
    {t \in Paired(records, x, y) :
        LET attempts == PairedAttempts(records, x, y, t)
        IN PassesIn(records, x, t, attempts) > PassesIn(records, y, t, attempts)}

\* analyze_trials refuses duplicates, unknown or missing trials, and a candidate
\* or pair without a scored task in some benchmark.
Complete == /\ Loads
            /\ Cardinality(Keys) = Len(lines)
            /\ Keys = Assigned

Analyzable(records) ==
    \A b \in Benchmarks :
       /\ \A c \in Candidates : ScoredTasks(Capability(records), c, b) # {}
       /\ \A x, y \in Candidates :
             \E t \in Paired(records, x, y) : BenchmarkOf[t] = b

Analyze ==
    /\ Complete
    /\ LET records == Recorded IN
       /\ Analyzable(records)
       /\ analysis' =
             <<[capability |-> [c \in Candidates |-> [b \in Benchmarks |->
                    Score(Capability(records), c, b)]],
                intent |-> [c \in Candidates |-> [b \in Benchmarks |->
                    Score(Intent(records), c, b)]],
                wins |-> [x \in Candidates |-> [y \in Candidates |->
                    Cardinality(Wins(records, x, y))]]]>>
    /\ UNCHANGED <<lines, importer, overlapped, repeats, kills>>

Next == \/ \E i \in Importers : Import(i) \/ Checked(i) \/ AppendTrial(i) \/ Crash(i)
        \/ Analyze

Spec == Init /\ [][Next]_vars

(***************************************************************************)
(* Properties                                                              *)
(***************************************************************************)
TypeOK == /\ \A n \in DOMAIN lines : lines[n] # Torn => lines[n][1].reward \in 0 .. None
          /\ \A i \in Importers : importer[i].at \in {"idle", "load", "append"}
          /\ overlapped \subseteq Assigned
          /\ repeats \in 0 .. MaxRepeats /\ kills \in 0 .. MaxKills

\* Whatever commands are repeated, killed and started again, a trial is recorded
\* once and by its first result, so that the finished file can be analysed; only
\* imports of the same trial that overlap can break this, as nothing locks the
\* file.
RecordedOnce ==
    \A m, n \in DOMAIN lines :
       (m # n /\ Torn \notin {lines[m], lines[n]}) =>
          (lines[m][1].trial = lines[n][1].trial => lines[m][1].trial \in overlapped)

=============================================================================
