---------------------------- MODULE SkillContext ----------------------------
(***************************************************************************)
(* The skills a task is given: discovered in the trusted roots when the    *)
(* first invocation of a session begins, chosen for the goal under a byte  *)
(* budget, pinned in the session's state, and put in every work packet.    *)
(*   skills/registry.py, app/agent/skills.py, workflow.py _initialize_run  *)
(* A manifest or reference is a version of a file; what makes a manifest   *)
(* invalid is left out, only that one invalid manifest fails the loading.  *)
(* Texts are their lengths in bytes. All roots are enabled, as the         *)
(* settings make them. People edit the files; they are external.           *)
(***************************************************************************)
EXTENDS Integers, Sequences, FiniteSets, SequencesExt, Listing

CONSTANTS Entries,        \* directories of the roots, by precedence and name: their names
          HasReference,   \* entries whose manifest links a local file
          BodySize(_, _), \* length of an entry's rendered body in a version
          LineSize, ReferenceSize, NameSize,   \* of a catalogue line, a reference, a name
          Budgets,        \* values of skill_context_bytes
          MaxSelected,    \* skill_max_selected
          Tasks,          \* goals: the names they mention and each name's score
          MaxEdits, MaxKills   \* bounds of the model

VARIABLES budget,  \* skill_context_bytes
          disk,    \* the version of each entry's manifest
          linked,  \* the version of each entry's reference file
          edits, kills,
          state,   \* the session's stored state: its task and pinned skills
          run,     \* the invocation under way
          selections, \* recorded selections: task, names and hashes
          failed,  \* tasks with a recorded failure to load skills
          given    \* history: skills in the packets since the state was reset

vars == <<budget, disk, linked, edits, kills, state, run, selections, failed, given>>

Absent == 0
Broken == MaxEdits + 2
CatalogHeading == 25
SelectedHeading == 29
UnmatchedHeading == 35
MaxCatalog == 4096

Places == DOMAIN Entries
Least(S) == CHOOSE n \in S : \A m \in S : n <= m
\* Python's max(n - m, 0).
Minus(n, m) == IF n > m THEN n - m ELSE 0
Tokens(bytes) == (bytes + 3) \div 4
\* The token budget that goes with a byte budget.
TokenRoom(room) == IF room < 4 THEN 1 ELSE room \div 4

(***************************************************************************)
(* Discovery and choice                                                    *)
(***************************************************************************)
Definition(e, version) == [entry |-> e, name |-> Entries[e], version |-> version]

\* _discover raises for an invalid manifest, a link to a missing file, or a
\* name that two roots define.
Discoverable == /\ \A e \in Places : disk[e] # Broken
                /\ \A e \in Places \cap HasReference : disk[e] # Absent => linked[e] # Absent
                /\ \A d, e \in Places : d # e /\ Entries[d] = Entries[e] =>
                                           Absent \in {disk[d], disk[e]}

Discovered == {Definition(e, disk[e]) : e \in {d \in Places : disk[d] # Absent}}

NamesOf(defs) == {d.name : d \in defs}

\* The sort key of select: mentioned skills in the order of their mention, then
\* the others that share a word with the goal, the best score first.
Mentions(task, d) == {i \in DOMAIN task.explicit : task.explicit[i] = d.name}
Precedes(task, c, d) ==
    LET first == Mentions(task, c)
        other == Mentions(task, d)
        better == task.score[c.name] - task.score[d.name]
    IN IF first # {} /\ other # {}
       THEN \/ Least(first) < Least(other)
            \/ Least(first) = Least(other) /\ c.entry < d.entry
       ELSE \/ first # {}
            \/ other = {} /\ (better > 0 \/ (better = 0 /\ c.entry < d.entry))

Ranked(defs, task) ==
    InOrder({d \in defs : Mentions(task, d) # {} \/ task.score[d.name] > 0},
            LAMBDA c, d : Precedes(task, c, d))

Unmatched(defs, task) == ToSet(task.explicit) \ NamesOf(defs)

(***************************************************************************)
(* Budgets                                                                 *)
(***************************************************************************)
\* What a section with a heading may still take after `used` bytes.
RemainingUnseparated(used, heading) == Minus(budget, used + heading)
Remaining(used, heading) ==
    Minus(budget, used + (IF used > 0 THEN 2 ELSE 0) + heading)

\* The catalogue: whole lines while they fit; the last newline is stripped.
CatalogBytes(defs) ==
    LET room == Least({MaxCatalog, Remaining(0, CatalogHeading)})
        lines == Least({Cardinality(defs), Least({room, 4 * TokenRoom(room)}) \div LineSize})
    IN IF lines = 0 THEN 0 ELSE CatalogHeading + lines * LineSize - 1

\* select: a skill's text is cut to what bytes and tokens leave; nothing
\* follows one that was cut. A mentioned skill brings its reference.
Referred(d, task) == d.entry \in HasReference /\ d.name \in Range(task.explicit)
RenderedSize(d, task) ==
    BodySize(d.entry, d.version) + (IF Referred(d, task) THEN ReferenceSize ELSE 0)

SelectionRoom(defs) ==
    IF MaxSelected > 0 THEN Remaining(CatalogBytes(defs), SelectedHeading) ELSE 0

Candidates(defs, task) ==
    LET ranked == Ranked(defs, task)
    IN IF SelectionRoom(defs) = 0 THEN <<>>
       ELSE SubSeq(ranked, 1, Least({Len(ranked), MaxSelected}))

\* One skill of select's loop; `read` counts those whose files were read before
\* the text was full.
Added(acc, d, task, room) ==
    LET used == acc.bytes + (IF acc.shown = <<>> THEN 0 ELSE 1)
        limit == Least({Minus(room, used), 4 * Minus(TokenRoom(room), Tokens(used))})
        kept == Least({RenderedSize(d, task), limit})
    IN IF acc.full THEN acc
       ELSE IF kept = 0 THEN [acc EXCEPT !.full = TRUE, !.read = @ + 1]
       ELSE [bytes |-> used + kept, full |-> kept < RenderedSize(d, task),
             read |-> acc.read + 1,
             shown |-> Append(acc.shown, [name |-> d.name, version |-> d.version,
                                          linked |-> linked[d.entry], bytes |-> kept])]

NoneAdded == [bytes |-> 0, full |-> FALSE, read |-> 0, shown |-> <<>>]

Chosen(defs, task) ==
    FoldLeft(LAMBDA acc, d : Added(acc, d, task, SelectionRoom(defs)), NoneAdded,
             Candidates(defs, task))

\* build_skill_context: the catalogue, the chosen skills, the names nobody
\* defines. Its result is what the session pins.
NoSkills == [shown |-> <<>>, bytes |-> 0]

Context(defs, task) ==
    LET catalog == CatalogBytes(defs)
        chosen == Chosen(defs, task)
        selected == IF chosen.bytes = 0 THEN catalog
                    ELSE catalog + (IF catalog > 0 THEN 2 ELSE 0) + SelectedHeading + chosen.bytes
        missing == Cardinality(Unmatched(defs, task))
        \* "$name" for each, with a comma between two
        named == UnmatchedHeading + missing * (NameSize + 1) + 2 * Minus(missing, 1)
        tail == IF missing = 0 \/ SelectionRoom(defs) = 0 THEN 0
                ELSE Least({named, Remaining(selected, 0)})
    IN [shown |-> chosen.shown,
        bytes |-> IF tail = 0 THEN selected
                  ELSE selected + (IF selected > 0 THEN 2 ELSE 0) + tail]

(***************************************************************************)
(* An invocation                                                           *)
(***************************************************************************)
NoRun == [at |-> "none"]
files == <<budget, disk, linked, edits>>

Init == /\ budget \in Budgets
        /\ disk = [e \in Places |-> IF \E d \in Places : d < e /\ Entries[d] = Entries[e]
                                    THEN Absent ELSE 1]
        /\ linked = [e \in Places |-> 1]
        /\ edits = 0 /\ kills = 0
        /\ state = [task |-> 0, pin |-> <<>>]
        /\ run = NoRun
        /\ selections = {}
        /\ failed = {}
        /\ given = {}

\* Another task of the session resets its state; pinned skills are kept.
Begin(t) ==
    /\ run = NoRun
    /\ LET mine == IF state.task = t THEN state ELSE [task |-> t, pin |-> <<>>]
       IN run' = [at |-> IF mine.pin = <<>> THEN "discover" ELSE "record",
                  state |-> mine, defs |-> {}, stored |-> mine = state]
    /\ UNCHANGED <<files, kills, state, selections, failed, given>>

Pinned(skills) == [run EXCEPT !.at = "record", !.state.pin = <<skills>>, !.stored = FALSE]

\* A failure of any kind is recorded and leaves the session without skills,
\* which is pinned too.
LoadingFails == /\ failed' = failed \cup {run.state.task}
                /\ run' = Pinned(NoSkills)

Discover ==
    /\ run.at = "discover"
    /\ IF budget = 0 THEN run' = Pinned(NoSkills) /\ UNCHANGED failed
       ELSE IF ~ Discoverable THEN LoadingFails
       ELSE /\ run' = [run EXCEPT !.at = "select", !.defs = Discovered]
            /\ UNCHANGED failed
    /\ UNCHANGED <<files, kills, state, selections, given>>

\* The references of the mentioned skills are read again.
Select ==
    /\ run.at = "select"
    /\ LET task == Tasks[run.state.task]
           first == Candidates(run.defs, task)
           readable == \A i \in 1 .. Chosen(run.defs, task).read :
               Referred(first[i], task) => linked[first[i].entry] # Absent
       IN IF readable THEN run' = Pinned(Context(run.defs, task)) /\ UNCHANGED failed
          ELSE LoadingFails
    /\ UNCHANGED <<files, kills, state, selections, given>>

\* skills_selected, once for the same names and hashes of a task.
Selection(task, skills) ==
    [task |-> task,
     hashes |-> [i \in DOMAIN skills.shown |-> <<skills.shown[i].name, skills.shown[i].version>>]]

RecordSelection ==
    /\ run.at = "record"
    /\ selections' = selections \cup {Selection(run.state.task, run.state.pin[1])}
    /\ run' = [run EXCEPT !.at = IF run.stored THEN "work" ELSE "yield"]
    /\ UNCHANGED <<files, kills, state, failed, given>>

\* An event is yielded before the first packet: it stores the state.
YieldUnpinned ==
    /\ run.at = "yield"
    /\ given' = IF state.task # run.state.task THEN {} ELSE given
    /\ state' = [run.state EXCEPT !.pin = <<>>]
    /\ run' = [run EXCEPT !.at = "work", !.stored = TRUE]
    /\ UNCHANGED <<files, kills, selections, failed>>

Yield ==
    /\ run.at = "yield"
    /\ given' = IF state.task # run.state.task THEN {} ELSE given
    /\ state' = run.state
    /\ run' = [run EXCEPT !.at = "work", !.stored = TRUE]
    /\ UNCHANGED <<files, kills, selections, failed>>

\* A work batch: its packet has the skills of the invocation.
Packet == /\ run.at = "work"
          /\ given' = given \cup {run.state.pin[1]}
          /\ UNCHANGED <<files, kills, state, run, selections, failed>>

Return == /\ run.at = "work"
          /\ run' = NoRun
          /\ UNCHANGED <<files, kills, state, selections, failed, given>>

Crash == /\ run # NoRun
         /\ kills < MaxKills
         /\ kills' = kills + 1
         /\ run' = NoRun
         /\ UNCHANGED <<files, state, selections, failed, given>>

\* Somebody writes, spoils or deletes a file of a root.
Edit(e) == /\ edits < MaxEdits
           /\ edits' = edits + 1
           /\ \/ /\ \E v \in {edits + 2, Absent, Broken} : disk' = [disk EXCEPT ![e] = v]
                 /\ UNCHANGED linked
              \/ /\ e \in HasReference
                 /\ \E v \in {edits + 2, Absent} : linked' = [linked EXCEPT ![e] = v]
                 /\ UNCHANGED disk
           /\ UNCHANGED <<budget, kills, state, run, selections, failed, given>>

Next == \/ \E t \in DOMAIN Tasks : Begin(t)
        \/ Discover \/ Select \/ RecordSelection \/ Yield \/ Packet \/ Return \/ Crash
        \/ \E e \in Places : Edit(e)

Spec == Init /\ [][Next]_vars

(***************************************************************************)
(* Properties                                                              *)
(***************************************************************************)
TypeOK == /\ disk \in [Places -> 0 .. Broken] /\ linked \in [Places -> 0 .. Broken]
          /\ state.task \in 0 .. Len(Tasks) /\ Len(state.pin) <= 1
          /\ run.at \in {"none", "discover", "select", "record", "yield", "work"}

\* The packets of a task in a session all have the same skills, although their
\* files change under it and invocations are lost and resumed; and what the
\* packets had is on record in the task's ledger.
SkillsPinned == /\ Cardinality(given) <= 1
                /\ \A skills \in given :
                      \E t \in DOMAIN Tasks : Selection(t, skills) \in selections

\* The context never exceeds its budget, whatever the files hold: the assertion
\* at the end of build_skill_context does not fail.
ContextFits ==
    run.at = "record" /\ run.state.pin # <<>> => run.state.pin[1].bytes <= budget
=============================================================================
