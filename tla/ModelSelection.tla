--------------------------- MODULE ModelSelection ---------------------------
(***************************************************************************)
(* Which model the next turn of a conversation uses                        *)
(* (src/harness/server/models.py, ai/selection.py, and the catalogue of    *)
(* harness/codex.py).                                                      *)
(*                                                                         *)
(* A select request answers from its receipt when it has one; otherwise it *)
(* replaces the shared default file when asked to and commits the          *)
(* conversation's row together with the receipt.  The file is not part of  *)
(* the transaction, and the server may be killed between the two, or       *)
(* before the answer is out: the terminal then sends the request again.    *)
(* The catalogue is discovered by a background task with whatever          *)
(* credential is stored when the task reads it, while logins and logouts   *)
(* go on.                                                                  *)
(***************************************************************************)
EXTENDS Naturals, Sequences

CONSTANTS
    Requests,   \* select requests, by request_id
    Persisting, \* those that also ask for the shared default
    Unlisted,   \* those that choose a configured model, offered to any account
    Accounts,   \* accounts the operator may sign in with
    Nothing,    \* no request, no account
    MaxKeys,    \* bound: changes of the credential file
    MaxStops    \* bound: kills of the server

ASSUME ModelSelectionAssumption ==
    /\ Persisting \subseteq Requests /\ Unlisted \subseteq Requests
    /\ Nothing \notin Requests \cup Accounts
    /\ MaxKeys \in Nat /\ MaxStops \in Nat

VARIABLES
    saved,     \* the request whose choice the default file holds
    selected,  \* the request whose choice the conversation's row holds
    writing,   \* the request between the file and its commit
    receipts,  \* requests with a receipt
    answering, \* requests whose answer is on its way
    told,      \* requests in the order their first answer arrived
    file,      \* the credential file: its modification key and its account
    models,    \* the account whose models the catalogue holds
    authKey,   \* the file's key when the running or last discovery began
    discovery, \* "none" before the first, "begun", "loaded" or "done"
    loaded,    \* the account the discovery thread read
    aged,      \* the catalogue is older than its 30 seconds
    stops      \* kills of the server so far

choices == <<saved, selected, writing, receipts, answering, told>>
catalogue == <<models, authKey, discovery, loaded, aged>>
vars == <<choices, file, catalogue, stops>>

NoKey == 0  \* there is no credential file

TypeOK ==
    /\ {saved, selected, writing} \subseteq Requests \cup {Nothing}
    /\ receipts \subseteq Requests /\ answering \subseteq receipts
    /\ told \in Seq(Requests)
    /\ file \in [key : 0..MaxKeys, account : Accounts \cup {Nothing}, last : 0..MaxKeys]
    /\ {models, loaded} \subseteq Accounts \cup {Nothing}
    /\ authKey \in 0..MaxKeys
    /\ discovery \in {"none", "begun", "loaded", "done"}
    /\ aged \in BOOLEAN /\ stops \in 0..MaxStops

Init ==
    /\ saved = Nothing /\ selected = Nothing /\ writing = Nothing
    /\ receipts = {} /\ answering = {} /\ told = <<>>
    /\ file = [key |-> NoKey, account |-> Nothing, last |-> 0]
    /\ models = Nothing /\ authKey = NoKey
    /\ discovery = "none" /\ loaded = Nothing /\ aged = TRUE
    /\ stops = 0

-----------------------------------------------------------------------------
(* Selections.                                                             *)

\* The choice is a model of the catalogue held, the configured model, the
\* saved default or the conversation's present model.
Offered(q) == \/ models # Nothing
              \/ q \in Unlisted
              \/ q \in {saved, selected}

\* Mutant: a select that does not look for its receipt.
SelectAgain(q) ==
    /\ writing = Nothing
    /\ Offered(q)
    /\ IF q \in Persisting
       THEN /\ saved' = q /\ writing' = q
            /\ UNCHANGED <<selected, receipts, answering>>
       ELSE /\ selected' = q
            /\ receipts' = receipts \cup {q} /\ answering' = answering \cup {q}
            /\ UNCHANGED <<saved, writing>>
    /\ UNCHANGED <<told, file, catalogue, stops>>

\* The select operation: it runs on the event loop without yielding, so
\* requests do not overlap; the default file is replaced before the commit.
Select(q) ==
    /\ writing = Nothing
    /\ IF q \in receipts
       THEN answering' = answering \cup {q} /\ UNCHANGED <<saved, selected, writing, receipts>>
       ELSE /\ Offered(q)
            /\ IF q \in Persisting
               THEN /\ saved' = q /\ writing' = q
                    /\ UNCHANGED <<selected, receipts, answering>>
               ELSE /\ selected' = q
                    /\ receipts' = receipts \cup {q} /\ answering' = answering \cup {q}
                    /\ UNCHANGED <<saved, writing>>
    /\ UNCHANGED <<told, file, catalogue, stops>>

\* The row and the receipt are committed, or the transaction is rolled back
\* and the request fails with the new default already in the file.
Commit ==
    /\ writing # Nothing
    /\ \/ /\ selected' = writing
          /\ receipts' = receipts \cup {writing}
          /\ answering' = answering \cup {writing}
       \/ UNCHANGED <<selected, receipts, answering>>
    /\ writing' = Nothing
    /\ UNCHANGED <<saved, told, file, catalogue, stops>>

\* The answer reaches the terminal, or its connection is gone.
Answer(q) ==
    /\ q \in answering
    /\ answering' = answering \ {q}
    /\ \/ /\ \A i \in DOMAIN told : told[i] # q
          /\ told' = Append(told, q)
       \/ UNCHANGED told
    /\ UNCHANGED <<saved, selected, writing, receipts, file, catalogue, stops>>

-----------------------------------------------------------------------------
(* The catalogue.                                                          *)

\* The catalog operation: models discovered under another key of the file are
\* dropped, and a discovery begins unless one is running or recent enough.
ShowCatalog ==
    /\ writing = Nothing
    /\ LET changed == file.key # authKey
           begin == \/ discovery = "none"
                    \/ discovery = "done" /\ (changed \/ aged) IN
       /\ models' = IF changed THEN Nothing ELSE models
       /\ aged' = (aged \/ changed)
       /\ IF begin THEN /\ authKey' = file.key
                        /\ discovery' = "begun" /\ loaded' = Nothing
          ELSE UNCHANGED <<authKey, discovery, loaded>>
    /\ UNCHANGED <<choices, file, stops>>

\* The discovery thread reads the credential that is stored by now; resolving
\* it may rotate it, which rewrites the file.
LoadAccount ==
    /\ discovery = "begun"
    /\ discovery' = "loaded"
    /\ loaded' = file.account
    /\ \/ UNCHANGED file
       \/ /\ file.account # Nothing /\ file.last < MaxKeys
          /\ file' = [file EXCEPT !.key = file.last + 1, !.last = @ + 1]
    /\ UNCHANGED <<choices, models, authKey, aged, stops>>

\* _refresh_catalog puts what it found in place, or nothing when it failed.
EndDiscovery ==
    /\ discovery = "loaded" /\ writing = Nothing
    /\ models' \in {loaded, Nothing}
    /\ discovery' = "done" /\ loaded' = Nothing
    /\ aged' = FALSE
    /\ UNCHANGED <<choices, file, authKey, stops>>

\* Thirty seconds pass.
Age ==
    /\ discovery = "done" /\ ~aged
    /\ aged' = TRUE
    /\ UNCHANGED <<choices, file, models, authKey, discovery, loaded, stops>>

-----------------------------------------------------------------------------
\* The credential file changes hands: see module SignIn.
Enter(account) ==
    /\ file.last < MaxKeys
    /\ file' = [key |-> file.last + 1, account |-> account, last |-> file.last + 1]
    /\ UNCHANGED <<choices, catalogue, stops>>

Leave ==
    /\ file.account # Nothing
    /\ file' = [file EXCEPT !.key = NoKey, !.account = Nothing]
    /\ UNCHANGED <<choices, catalogue, stops>>

\* The server is killed and started again: files, rows and receipts remain.
Stop ==
    /\ stops < MaxStops
    /\ stops' = stops + 1
    /\ writing' = Nothing /\ answering' = {}
    /\ models' = Nothing /\ authKey' = NoKey
    /\ discovery' = "none" /\ loaded' = Nothing /\ aged' = TRUE
    /\ UNCHANGED <<saved, selected, receipts, told, file>>

Next ==
    \/ \E q \in Requests : Select(q) \/ Answer(q)
    \/ Commit
    \/ ShowCatalog \/ LoadAccount \/ EndDiscovery \/ Age
    \/ (\E account \in Accounts : Enter(account)) \/ Leave
    \/ Stop

Spec == Init /\ [][Next]_vars

-----------------------------------------------------------------------------
\* The terminal heard of q's choice before it heard of r's.
ToldBefore(q, r) == \E i, j \in DOMAIN told : i < j /\ told[i] = q /\ told[j] = r

\* A request that is sent again, however late and whatever crashes lie
\* between, never takes the conversation or the shared default back from a
\* choice that was acknowledged after its own.
NewerChoiceStands ==
    [][\A q, r \in Requests : ToldBefore(q, r)
          => /\ ~(selected = r /\ selected' = q)
             /\ ~(saved = r /\ saved' = q)]_vars

=============================================================================
