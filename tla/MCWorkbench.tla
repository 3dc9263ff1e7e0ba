---------------------------- MODULE MCWorkbench ----------------------------
(***************************************************************************)
(* One instance of Workbench for TLC. The parts share no state, so that    *)
(* their interleavings show nothing: the initial state chooses the part    *)
(* that runs, and the variables of the others keep their first values.     *)
(***************************************************************************)
EXTENDS Workbench, TLC

CONSTANTS q1, q2, q3, x, y,   \* model selection
          f1, f2, s1, s2,     \* repository search
          h1, h2,             \* evaluation ledger
          w1, w2              \* worktree

VARIABLE part

(* Selection: q1 and q2 also ask for the shared default, q3 chooses the      *)
(* configured model.                                                         *)
TheRequests == {q1, q2, q3}
ThePersisting == {q1, q2}
TheUnlisted == {q3}
TheAccounts == {x, y}

(* Search: the first versions fill two pages, with a file cut by each cap.   *)
TheSearchers == {s1, s2}
TheFiles == <<f1, f2>>
TheScopes == {f2}
TheSizes == [grep |-> {3}, find |-> {1}]
HitLines(f, v) == CASE v = MaxFileEdits + 1 -> 0
                    [] v = 0 -> IF f = f1 THEN 3 ELSE 2
                    [] OTHER -> 1

(* Verification: a task that forbids a path, one that permits two and has a  *)
(* requirement of its own; a repository with commands and one without.       *)
ThePaths == {"py", "sh", "md"}
TheKinds == [py |-> "python", sh |-> "script", md |-> "text"]
TheTests == [py |-> TRUE, sh |-> FALSE, md |-> FALSE]
TheTasks == {[level |-> "auto", allowed |-> {}, forbidden |-> {"sh"}, custom |-> FALSE],
             [level |-> "static", allowed |-> {"py", "md"}, forbidden |-> {},
              custom |-> TRUE]}
TheManifests == {{}, {"lint", "typecheck", "test"}}
ThePolicy == [syntax |-> "allow", lint |-> "allow", typecheck |-> "deny",
              test |-> "ask", diff |-> "allow", custom |-> "ask"]

(* Evaluation: two tasks, two candidates; a pass, a pass that a usage limit  *)
(* interrupted, and a timeout.                                               *)
TheBenchmarks == {"b"}
TheTrialTasks == <<"t1", "t2">>
TheBenchmarkOf == [t1 |-> "b", t2 |-> "b"]
TheCandidates == <<"a", "c">>
TheResults == {[reward |-> 1, sign |-> "none"], [reward |-> 1, sign |-> "quota"],
               [reward |-> 2, sign |-> "timeout"]}
TheImporters == {h1, h2}

(* Worktree: two processes of any kind, one of which may be killed.          *)
TheProcesses == {w1, w2}

(* Skills: a mentioned one with a reference, one that shares words with the  *)
(* goal, a second directory that defines the first's name, a name nobody     *)
(* defines. The budgets end inside every section of the context.             *)
TheEntries == <<"a", "b", "a">>
TheReferences == {2}
RenderedLength(e, version) == IF version = 1 THEN 40 + 20 * e ELSE 150
TheBudgets == {0, 3, 30, 120, 300, 500}
TheGoals == <<[explicit |-> <<"b", "z">>, score |-> [a |-> 2, b |-> 0]],
              [explicit |-> <<>>, score |-> [a |-> 1, b |-> 3]]>>

Parts == {"selection", "search", "checks", "trials", "workspaces", "skills"}

InitOne == /\ part \in Parts
           /\ InitAll
           /\ part # "skills" => budget = 0
           /\ part # "checks" => task.custom /\ manifest = {}

NextOne == /\ \/ part = "selection" /\ SelectionStep
              \/ part = "search" /\ SearchStep
              \/ part = "checks" /\ CheckStep
              \/ part = "trials" /\ TrialStep
              \/ part = "workspaces" /\ TreeStep
              \/ part = "skills" /\ SkillStep
           /\ UNCHANGED part

SpecOne == InitOne /\ [][NextOne]_<<allVars, part>>

(* Two processes of each part are interchangeable, and so are the accounts:  *)
(* one permutation swaps all the processes, another the accounts.            *)
Swapped(a, b) == (a :> b) @@ (b :> a)
Kept(a, b) == (a :> a) @@ (b :> b)
Same == Kept(s1, s2) @@ Kept(q1, q2) @@ Kept(h1, h2) @@ Kept(w1, w2)
Swap == Swapped(s1, s2) @@ Swapped(q1, q2) @@ Swapped(h1, h2) @@ Swapped(w1, w2)
Interchangeable == {processes @@ accounts : processes \in {Same, Swap},
                                            accounts \in Permutations(TheAccounts)}
=============================================================================
