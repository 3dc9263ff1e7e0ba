------------------------------- MODULE SignIn -------------------------------
(***************************************************************************)
(* The stored credential of the subscription provider and everybody who    *)
(* reads or replaces it (src/harness/ai/codex_auth.py, ai/controls.py, the *)
(* retry loop of ai/codex_responses.py and the `skein codex` commands of   *)
(* cli.py).                                                                *)
(*                                                                         *)
(* A model call resolves a credential under the file lock, refreshes it    *)
(* when it is about to expire or when the provider answered 401, and saves *)
(* the rotated one.  A login of the server polls the provider from a       *)
(* worker thread and saves what it got unless it was cancelled; a logout   *)
(* cancels every login and then removes the file; a second process may     *)
(* sign in or out at any moment; the server may be killed anywhere.        *)
(*                                                                         *)
(* A credential is the number of its refresh token, 0 for no file.         *)
(***************************************************************************)
EXTENDS Naturals

CONSTANTS
    Calls,      \* the server's model calls
    Logins,     \* login attempts of the server's provider controls
    Nobody,     \* nobody holds the lock of the credential file
    Attempts,   \* requests one model call may send (retry_attempts)
    MaxIssued,  \* bound: credentials the provider issues
    MaxStops    \* bound: kills of the server

ASSUME SignInAssumption ==
    /\ Nobody \notin Calls \cup Logins
    /\ Calls \cap Logins = {}
    /\ Attempts \in Nat \ {0}
    /\ MaxIssued \in Nat \ {0}
    /\ MaxStops \in Nat

VARIABLES
    stored,   \* refresh token of the credential file, 0 when there is none
    fresh,    \* the stored access token is not about to expire
    issued,   \* refresh tokens the provider has issued
    holder,   \* the thread inside store.locked()
    litter,   \* a killed process left the temporary file of the server's pid
    call,     \* model calls: where they are, their token, force_refresh, tries
    login,    \* login attempts
    logout,   \* a logout has cancelled the logins and waits for the lock
    voided,   \* logins begun before the last logout or shutdown
    closed,   \* the provider controls are shutting down
    shell,    \* the token a `skein codex login` elsewhere is about to save
    stops     \* kills of the server so far

vars == <<stored, fresh, issued, holder, litter, call, login, logout, voided,
          closed, shell, stops>>

IdleCall == [at |-> "idle", token |-> 0, force |-> FALSE, tries |-> 0]
Over == [IdleCall EXCEPT !.at = "over"]  \* answered or raised
NoLogin == [at |-> "none", status |-> "starting", cancelled |-> FALSE, token |-> 0]

TypeOK ==
    /\ issued \in 0..MaxIssued /\ stored \in 0..issued /\ fresh \in BOOLEAN
    /\ holder \in Calls \cup Logins \cup {Nobody}
    /\ litter \in BOOLEAN /\ logout \in BOOLEAN /\ closed \in BOOLEAN
    /\ call \in [Calls -> [at : {"idle", "resolve", "refresh", "rotated",
                                 "saving", "send", "over"},
                           token : 0..issued, force : BOOLEAN, tries : 0..Attempts]]
    /\ login \in [Logins -> [at : {"none", "opening", "polling", "exchanged",
                                   "saving", "closing", "ended"},
                             status : {"starting", "waiting", "authenticated",
                                       "cancelled", "failed"},
                             cancelled : BOOLEAN, token : 0..issued]]
    /\ voided \in SUBSET Logins
    /\ shell \in 0..issued
    /\ stops \in 0..MaxStops

Init ==
    /\ issued \in {0, 1}
    /\ stored = issued
    /\ fresh \in BOOLEAN
    /\ holder = Nobody
    /\ litter = FALSE
    /\ call = [c \in Calls |-> IdleCall]
    /\ login = [a \in Logins |-> NoLogin]
    /\ logout = FALSE
    /\ voided = {}
    /\ closed = FALSE
    /\ shell = 0
    /\ stops = 0

-----------------------------------------------------------------------------
(* Model calls.                                                            *)

\* generate_content_async: the request loop starts its first attempt.
BeginCall(c) ==
    /\ call[c].at = "idle"
    /\ call' = [call EXCEPT ![c].at = "resolve", ![c].tries = 1]
    /\ UNCHANGED <<stored, fresh, issued, holder, litter, login, logout, voided,
                   closed, shell, stops>>

\* Mutant: the lock is released before the refresh.
ResolveUnlocked(c) ==
    /\ call[c].at = "resolve"
    /\ holder = Nobody
    /\ LET due == call[c].force \/ ~fresh IN
       call' = [call EXCEPT ![c] = IF stored = 0 THEN Over
                                   ELSE IF due THEN [@ EXCEPT !.at = "refresh",
                                                              !.token = stored,
                                                              !.force = FALSE]
                                   ELSE [@ EXCEPT !.at = "send"]]
    /\ UNCHANGED <<stored, fresh, issued, holder, litter, login, logout, voided,
                   closed, shell, stops>>

\* CodexCredentialManager.resolve takes the lock, reads the file, and either
\* fails, hands the credential out, or keeps the lock to refresh it.
Resolve(c) ==
    /\ call[c].at = "resolve"
    /\ holder = Nobody
    /\ LET due == call[c].force \/ ~fresh IN
       /\ call' = [call EXCEPT ![c] = IF stored = 0 THEN Over
                                      ELSE IF due THEN [@ EXCEPT !.at = "refresh",
                                                                 !.token = stored,
                                                                 !.force = FALSE]
                                      ELSE [@ EXCEPT !.at = "send"]]
       /\ holder' = IF stored # 0 /\ due THEN c ELSE Nobody
    /\ UNCHANGED <<stored, fresh, issued, litter, login, logout, voided, closed,
                   shell, stops>>

\* CodexOAuthClient.refresh: the provider rotates the refresh token it is
\* shown, or the request fails and resolve raises out of the lock.
Refresh(c) ==
    /\ call[c].at = "refresh"
    /\ \/ /\ issued < MaxIssued
          /\ issued' = issued + 1
          /\ call' = [call EXCEPT ![c].at = "rotated", ![c].token = issued + 1]
          /\ UNCHANGED holder
       \/ /\ call' = [call EXCEPT ![c] = Over]
          /\ holder' = Nobody
          /\ UNCHANGED issued
    /\ UNCHANGED <<stored, fresh, litter, login, logout, voided, closed, shell, stops>>

\* CodexCredentialStore.save creates the temporary file exclusively: what a
\* killed process with this pid left behind makes the save raise.
OpenSave(c) ==
    /\ call[c].at = "rotated"
    /\ call' = [call EXCEPT ![c] = IF litter THEN Over ELSE [@ EXCEPT !.at = "saving"]]
    /\ holder' = IF litter THEN Nobody ELSE holder
    /\ UNCHANGED <<stored, fresh, issued, litter, login, logout, voided, closed,
                   shell, stops>>

\* The temporary file replaces the credential, or writing it failed and the
\* temporary file is removed again; the lock is released either way.
Save(c) ==
    /\ call[c].at = "saving"
    /\ \/ /\ stored' = call[c].token
          /\ fresh' = TRUE
          /\ call' = [call EXCEPT ![c].at = "send", ![c].token = 0]
       \/ /\ call' = [call EXCEPT ![c] = Over]
          /\ UNCHANGED <<stored, fresh>>
    /\ holder' = Nobody
    /\ UNCHANGED <<issued, litter, login, logout, voided, closed, shell, stops>>

\* _stream_events sends the request: it is answered or refused for good, tried
\* again, or tried again with a forced refresh after a 401.
Send(c) ==
    /\ call[c].at = "send"
    /\ \/ call' = [call EXCEPT ![c] = Over]
       \/ /\ call[c].tries < Attempts
          /\ \E unauthorized \in BOOLEAN :
                call' = [call EXCEPT ![c].at = "resolve", ![c].tries = @ + 1,
                                     ![c].force = unauthorized]
    /\ UNCHANGED <<stored, fresh, issued, holder, litter, login, logout, voided,
                   closed, shell, stops>>

-----------------------------------------------------------------------------
(* Logins and logouts of the server's provider controls.                   *)

Running(a) == login[a].at \notin {"none", "ended"}

\* The login operation: one attempt at a time, none while a cancelled one is
\* still stopping.  The mutation lock keeps it out of a logout.
BeginLogin(a) ==
    /\ ~closed /\ ~logout
    /\ login[a].at = "none"
    /\ \A b \in Logins : ~Running(b)
    /\ login' = [login EXCEPT ![a].at = "opening"]
    /\ UNCHANGED <<stored, fresh, issued, holder, litter, call, logout, voided,
                   closed, shell, stops>>

\* How an exception of the login task shows: not over a cancellation.
Failed(l) == [l EXCEPT !.at = "closing",
                       !.status = IF l.cancelled THEN @ ELSE "failed"]

\* start_device_authorization: the user code is shown unless the attempt was
\* cancelled meanwhile, or the request fails.
OpenLogin(a) ==
    /\ login[a].at = "opening"
    /\ \/ login' = [login EXCEPT ![a] = Failed(@)]
       \/ login' = [login EXCEPT ![a] = IF @.cancelled THEN [@ EXCEPT !.at = "closing"]
                                        ELSE [@ EXCEPT !.at = "polling", !.status = "waiting"]]
    /\ UNCHANGED <<stored, fresh, issued, holder, litter, call, logout, voided,
                   closed, shell, stops>>

\* complete_device_authorization: the operator approves and the code is
\* exchanged, the wait fails or times out, or it notices the cancellation.
PollLogin(a) ==
    /\ login[a].at = "polling"
    /\ \/ /\ ~login[a].cancelled
          /\ issued < MaxIssued
          /\ issued' = issued + 1
          /\ login' = [login EXCEPT ![a].at = "exchanged", ![a].token = issued + 1]
       \/ /\ login' = [login EXCEPT ![a] = Failed(@)]
          /\ UNCHANGED issued
    /\ UNCHANGED <<stored, fresh, holder, litter, call, logout, voided, closed,
                   shell, stops>>

\* Mutant: the worker does not ask again whether the attempt was cancelled.
CommitLoginBlindly(a) ==
    /\ login[a].at = "exchanged"
    /\ holder = Nobody
    /\ login' = [login EXCEPT ![a].at = "saving"]
    /\ holder' = a
    /\ UNCHANGED <<stored, fresh, issued, litter, call, logout, voided, closed,
                   shell, stops>>

\* save(): the worker takes the file lock and then the attempt's commit lock
\* and asks once more whether the attempt was cancelled.
CommitLogin(a) ==
    /\ login[a].at = "exchanged"
    /\ holder = Nobody
    /\ IF login[a].cancelled \/ litter
       THEN /\ login' = [login EXCEPT ![a] = Failed(@)]
            /\ UNCHANGED holder
       ELSE /\ login' = [login EXCEPT ![a].at = "saving"]
            /\ holder' = a
    /\ UNCHANGED <<stored, fresh, issued, litter, call, logout, voided, closed,
                   shell, stops>>

\* The credential is stored and the attempt says so, or writing it failed.
SaveLogin(a) ==
    /\ login[a].at = "saving"
    /\ \/ /\ stored' = login[a].token
          /\ fresh' = TRUE
          /\ login' = [login EXCEPT ![a].at = "closing", ![a].status = "authenticated"]
       \/ /\ login' = [login EXCEPT ![a] = Failed(@)]
          /\ UNCHANGED <<stored, fresh>>
    /\ holder' = Nobody
    /\ UNCHANGED <<issued, litter, call, logout, voided, closed, shell, stops>>

\* The login task closes its client and ends.
EndLogin(a) ==
    /\ login[a].at = "closing"
    /\ login' = [login EXCEPT ![a].at = "ended"]
    /\ UNCHANGED <<stored, fresh, issued, holder, litter, call, logout, voided,
                   closed, shell, stops>>

\* _Login.cancel, under the commit lock.
Cancelled(l) ==
    IF l.at = "none" THEN l
    ELSE [l EXCEPT !.cancelled = TRUE,
                   !.status = IF @ \in {"starting", "waiting"} THEN "cancelled" ELSE @]

\* The commit lock of the attempt is free: no worker is inside save().
CommitFree(a) == login[a].at # "saving"

\* The cancel_login operation.
CancelLogin(a) ==
    /\ ~closed /\ ~logout
    /\ login[a].at # "none" /\ ~login[a].cancelled
    /\ CommitFree(a)
    /\ login' = [login EXCEPT ![a] = Cancelled(@)]
    /\ UNCHANGED <<stored, fresh, issued, holder, litter, call, logout, voided,
                   closed, shell, stops>>

\* The logout operation cancels every attempt before it waits for the lock.
BeginLogout ==
    /\ ~closed /\ ~logout
    /\ \A a \in Logins : CommitFree(a)
    /\ login' = [a \in Logins |-> Cancelled(login[a])]
    /\ logout' = TRUE
    /\ UNCHANGED <<stored, fresh, issued, holder, litter, call, voided, closed,
                   shell, stops>>

\* remove(): the file is deleted under the lock and the logout is answered.
EndLogout ==
    /\ logout
    /\ holder = Nobody
    /\ stored' = 0
    /\ logout' = FALSE
    /\ voided' = {a \in Logins : login[a].at # "none"}
    /\ UNCHANGED <<fresh, issued, holder, litter, call, login, closed, shell, stops>>

\* aclose: no more operations, every attempt is cancelled.
CloseControls ==
    /\ ~closed
    /\ \A a \in Logins : CommitFree(a)
    /\ closed' = TRUE
    /\ login' = [a \in Logins |-> Cancelled(login[a])]
    /\ UNCHANGED <<stored, fresh, issued, holder, litter, call, logout, voided,
                   shell, stops>>

-----------------------------------------------------------------------------
(* Time, the command line in another process, and kills.                   *)

\* The access token of the file comes within the refresh margin.
Expire ==
    /\ stored # 0 /\ fresh
    /\ fresh' = FALSE
    /\ UNCHANGED <<stored, issued, holder, litter, call, login, logout, voided,
                   closed, shell, stops>>

\* `skein codex login` completes the device flow ...
ShellExchange ==
    /\ shell = 0 /\ issued < MaxIssued
    /\ issued' = issued + 1
    /\ shell' = issued + 1
    /\ UNCHANGED <<stored, fresh, holder, litter, call, login, logout, voided,
                   closed, stops>>

\* ... and saves under the same lock.
ShellSave ==
    /\ shell # 0 /\ holder = Nobody
    /\ stored' = shell
    /\ fresh' = TRUE
    /\ shell' = 0
    /\ UNCHANGED <<issued, holder, litter, call, login, logout, voided, closed, stops>>

\* `skein codex logout`.
ShellLogout ==
    /\ stored # 0 /\ holder = Nobody
    /\ stored' = 0
    /\ UNCHANGED <<fresh, issued, holder, litter, call, login, logout, voided,
                   closed, shell, stops>>

\* The server is killed and started again: its threads are gone and with
\* them the lock; a save that had begun leaves its temporary file.
Stop ==
    /\ stops < MaxStops
    /\ stops' = stops + 1
    /\ litter' = (litter \/ \E c \in Calls : call[c].at = "saving"
                         \/ \E a \in Logins : login[a].at = "saving")
    /\ holder' = Nobody
    /\ call' = [c \in Calls |-> IdleCall]
    /\ login' = [a \in Logins |-> NoLogin]
    /\ logout' = FALSE
    /\ voided' = {}
    /\ closed' = FALSE
    /\ UNCHANGED <<stored, fresh, issued, shell>>

\* Everything has been used up: calls and logins ended, no credential left.
Rest ==
    /\ \A c \in Calls : call[c].at = "over"
    /\ \A a \in Logins : login[a].at \in {"none", "ended"}
    /\ UNCHANGED vars

Next ==
    \/ \E c \in Calls : \/ BeginCall(c) \/ Resolve(c) \/ Refresh(c)
                        \/ OpenSave(c) \/ Save(c) \/ Send(c)
    \/ \E a \in Logins : \/ BeginLogin(a) \/ OpenLogin(a) \/ PollLogin(a)
                         \/ CommitLogin(a) \/ SaveLogin(a) \/ EndLogin(a)
                         \/ CancelLogin(a)
    \/ BeginLogout \/ EndLogout \/ CloseControls
    \/ Expire \/ ShellExchange \/ ShellSave \/ ShellLogout \/ Stop \/ Rest

Spec == Init /\ [][Next]_vars

-----------------------------------------------------------------------------
\* A refresh shows the provider the credential that is in the file at that
\* moment: never one that another refresh has rotated, that a login has
\* replaced or that a logout has removed meanwhile (a rotated refresh token
\* shown twice costs the operator the session).
NoStaleRefresh ==
    [][\A c \in Calls : call[c].at = "refresh" /\ call'[c].at = "rotated"
                        => call[c].token = stored]_vars

\* After a logout only a login can bring a credential back, and none that had
\* begun in this server when the logout was answered: neither a refresh that
\* was under way nor the worker thread of a login that outlives it.
LogoutIsFinal ==
    [][(stored = 0 /\ stored' # 0)
       => \/ stored' = shell
          \/ \E a \in Logins \ voided : stored' = login[a].token]_vars

\* An attempt the operator was told is cancelled stays cancelled, and what its
\* worker thread fetched is never stored.
CancelledStaysOut ==
    [][\A a \in Logins : login[a].status = "cancelled" /\ stops' = stops
          => /\ login'[a].status = "cancelled"
             /\ stored' \in {0, stored} \/ stored' # login[a].token]_vars

\* What the operator was told is gone stays gone, whatever thread is still on
\* its way to the file.
WithdrawnStaysOut == LogoutIsFinal /\ CancelledStaysOut
=============================================================================
