----------------------------- MODULE Workbench -----------------------------
(***************************************************************************)
(* Six parts around a task that share no state with each other: model      *)
(* selection, repository search, verification, the evaluation ledger, the  *)
(* worktree of a task and its skills. Their steps interleave.              *)
(***************************************************************************)
EXTENDS ModelSelection

CONSTANTS
    Searchers, FileOrder, Hits(_, _), Scopes, Sizes, PerFile, MaxPerFile, MaxMatches,
    MaxBatches, Retained, MaxFileEdits, MaxSearches,            \* search
    Paths, KindOf, Adjacent, ToCheck, Manifests, Policy, MaxMoves, MaxLosses, \* verification
    Benchmarks, TaskOrder, BenchmarkOf, Attempts, CandidateOrder, Results, Importers,
    MaxRepeats, MaxImportKills,                                 \* evaluation
    Processes, MaxRevisions, MaxTreeKills,                      \* worktree
    Entries, HasReference, BodySize(_, _), LineSize, ReferenceSize, NameSize, Budgets,
    MaxSelected, Goals, MaxSkillEdits, MaxSkillKills            \* skills

VARIABLES tree, edits, finder, stored, cursors, searcher, searches, raced,
          task, manifest, changed, moves, losses, rows, at, plan, results, report, moved,
          lines, importer, overlapped, repeats, kills, analysis,
          head, worktree, record, temporary, holder, process, ends, unsure,
          budget, disk, linked, skillEdits, skillKills, state, run, selections, failed, given

Search == INSTANCE SearchPages WITH MaxEdits <- MaxFileEdits
Checks == INSTANCE Verification WITH Tasks <- ToCheck
Evaluation == INSTANCE Trials WITH MaxKills <- MaxImportKills
Worktrees == INSTANCE Workspaces WITH MaxKills <- MaxTreeKills
Skills == INSTANCE SkillContext WITH
    Tasks <- Goals, MaxEdits <- MaxSkillEdits, MaxKills <- MaxSkillKills,
    edits <- skillEdits, kills <- skillKills

(* The store keeps at least one snapshot, and a path has a kind.             *)
ASSUME WorkbenchAssumption ==
    /\ Retained \in Nat \ {0}
    /\ KindOf \in [Paths -> {"python", "script", "text"}]

(* A goal mentions a list of names and scores every skill; all sizes are     *)
(* numbers.                                                                  *)
ASSUME SkillsAssumption ==
    /\ Entries \in Seq({Entries[e] : e \in DOMAIN Entries})
    /\ \A e \in DOMAIN Entries, v \in 0 .. MaxSkillEdits + 2 : BodySize(e, v) \in Nat
    /\ LineSize \in Nat \ {0} /\ ReferenceSize \in Nat /\ NameSize \in Nat
    /\ Budgets \subseteq Nat /\ MaxSelected \in Nat /\ MaxSkillEdits \in Nat
    /\ \A t \in DOMAIN Goals :
          /\ LET said == Goals[t].explicit IN said \in Seq({said[i] : i \in DOMAIN said})
          /\ \A e \in DOMAIN Entries : Goals[t].score[Entries[e]] \in Nat

searchVars == <<tree, edits, finder, stored, cursors, searcher, searches, raced>>
checkVars == <<task, manifest, changed, moves, losses, rows, at, plan, results, report,
               moved>>
trialVars == <<lines, importer, overlapped, repeats, kills, analysis>>
treeVars == <<head, worktree, record, temporary, holder, process, ends, unsure>>
skillVars == <<budget, disk, linked, skillEdits, skillKills, state, run, selections, failed,
               given>>
allVars == <<vars, searchVars, checkVars, trialVars, treeVars, skillVars>>

InitAll == /\ Init /\ Search!Init /\ Checks!Init /\ Evaluation!Init
           /\ Worktrees!Init /\ Skills!Init

SelectionStep == /\ Next
                 /\ UNCHANGED <<searchVars, checkVars, trialVars, treeVars, skillVars>>
SearchStep == /\ Search!Next
              /\ UNCHANGED <<vars, checkVars, trialVars, treeVars, skillVars>>
CheckStep == /\ Checks!Next
             /\ UNCHANGED <<vars, searchVars, trialVars, treeVars, skillVars>>
TrialStep == /\ Evaluation!Next
             /\ UNCHANGED <<vars, searchVars, checkVars, treeVars, skillVars>>
TreeStep == /\ Worktrees!Next
            /\ UNCHANGED <<vars, searchVars, checkVars, trialVars, skillVars>>
SkillStep == /\ Skills!Next
             /\ UNCHANGED <<vars, searchVars, checkVars, trialVars, treeVars>>

NextAll == \/ SelectionStep \/ SearchStep \/ CheckStep
           \/ TrialStep \/ TreeStep \/ SkillStep
SpecAll == InitAll /\ [][NextAll]_allVars

(* The pages of a search show each of its matches once. *)
PagesPartition == Search!PagesPartition
(* A page shows as matches only lines that match. *)
PagesShowMatches == Search!PagesShowMatches
(* A cursor resolves when it is given out. *)
CursorsResolve == Search!CursorsResolve
(* A report that passes stands for its whole plan. *)
PassedMeansVerified == Checks!PassedMeansVerified
(* A trial is recorded once. *)
RecordedOnce == Evaluation!RecordedOnce
(* The record of a task parses and has the base its worktree was added at. *)
RecordReliable == Worktrees!RecordReliable
(* The packets of a task have the skills that were pinned and recorded. *)
SkillsPinned == Skills!SkillsPinned
(* The skills' context never exceeds its budget. *)
ContextFits == Skills!ContextFits
=============================================================================
