---------------------------- MODULE ProviderProofs ----------------------------
(* Theorems about the provider side: SignIn, for any calls, logins and       *)
(* bounds, and ModelTurn, for any calls, results, words and bounds.          *)
EXTENDS SignIn, ModelTurn, SequenceTheorems, FiniteSetTheorems, WellFoundedInduction, TLAPS

-----------------------------------------------------------------------------
(* SignIn.  Types.                                                         *)

CallState(n) ==
    [at : {"idle", "resolve", "refresh", "rotated", "saving", "send", "over"},
     token : 0..n, force : BOOLEAN, tries : 0..Attempts]
LoginState(n) ==
    [at : {"none", "opening", "polling", "exchanged", "saving", "closing", "ended"},
     status : {"starting", "waiting", "authenticated", "cancelled", "failed"},
     cancelled : BOOLEAN, token : 0..n]

(* The calls and logins keep their types when more is issued. *)
LEMMA Grown ==
  ASSUME NEW n \in Nat
  PROVE  /\ 0..n \subseteq 0..(n+1)
         /\ CallState(n) \subseteq CallState(n+1)
         /\ LoginState(n) \subseteq LoginState(n+1)
<1>1. 0..n \subseteq 0..(n+1)
  OBVIOUS
<1> QED BY <1>1 DEF CallState, LoginState

(* A step of one call, in terms of that call's state alone. *)
LEMMA CallMoves ==
  ASSUME TypeOK, NEW c \in Calls, NEW n \in Nat, call \in [Calls -> CallState(n)],
         NEW x \in CallState(n), call' = [call EXCEPT ![c] = x]
  PROVE  call' \in [Calls -> CallState(n)]
OBVIOUS

(* And of one login. *)
LEMMA LoginMoves ==
  ASSUME NEW a \in Logins, NEW n \in Nat, login \in [Logins -> LoginState(n)],
         NEW x \in LoginState(n), login' = [login EXCEPT ![a] = x]
  PROVE  login' \in [Logins -> LoginState(n)]
OBVIOUS

(* TypeOK in terms of these sets, for the steps that issue nothing. *)
LEMMA Bounds ==
  ASSUME TypeOK
  PROVE  /\ issued \in Nat /\ MaxIssued \in Nat /\ Attempts \in Nat /\ 1 \in 0..Attempts
         /\ call \in [Calls -> CallState(issued)]
         /\ login \in [Logins -> LoginState(issued)]
         /\ IdleCall \in CallState(issued) /\ Over \in CallState(issued)
         /\ NoLogin \in LoginState(issued)
<1>1. issued \in Nat /\ MaxIssued \in Nat /\ Attempts \in Nat /\ 1 \in 0..Attempts
  BY SignInAssumption DEF TypeOK
<1>2. call \in [Calls -> CallState(issued)] /\ login \in [Logins -> LoginState(issued)]
  BY DEF TypeOK, CallState, LoginState
<1>3. IdleCall \in CallState(issued) /\ NoLogin \in LoginState(issued)
  BY <1>1 DEF IdleCall, NoLogin, CallState, LoginState
<1>4. Over \in CallState(issued)
  BY <1>3 DEF Over, CallState
<1> QED BY <1>1, <1>2, <1>3, <1>4

(* What TypeOK says, with the state of calls and logins by name. *)
LEMMA TypeAgain ==
  ASSUME issued' \in 0..MaxIssued, stored' \in 0..issued', fresh' \in BOOLEAN,
         holder' \in Calls \cup Logins \cup {Nobody},
         litter' \in BOOLEAN, logout' \in BOOLEAN, closed' \in BOOLEAN,
         call' \in [Calls -> CallState(issued')],
         login' \in [Logins -> LoginState(issued')],
         voided' \in SUBSET Logins, shell' \in 0..issued', stops' \in 0..MaxStops
  PROVE  TypeOK'
BY DEF TypeOK, CallState, LoginState

(* A call's own step keeps the types. *)
LEMMA CallType ==
  ASSUME TypeOK, NEW c \in Calls,
         BeginCall(c) \/ Resolve(c) \/ Refresh(c) \/ OpenSave(c) \/ Save(c) \/ Send(c)
  PROVE  TypeOK'
<1> USE Bounds, SignInAssumption
<1> DEFINE me == call[c]
<1>0. me \in CallState(issued) /\ c \in Calls \cup Logins \cup {Nobody}
  OBVIOUS
<1>1. CASE BeginCall(c)
  <2>1. call' = [call EXCEPT ![c] = [me EXCEPT !.at = "resolve", !.tries = 1]]
    BY <1>1 DEF BeginCall
  <2>2. [me EXCEPT !.at = "resolve", !.tries = 1] \in CallState(issued)
    BY <1>0 DEF CallState
  <2>3. call' \in [Calls -> CallState(issued)]
    BY <2>1, <2>2, CallMoves
  <2> QED BY <1>1, <2>3, TypeAgain DEF BeginCall, TypeOK
<1>2. CASE Resolve(c)
  <2>1. PICK x \in CallState(issued) : call' = [call EXCEPT ![c] = x]
    <3>1. [me EXCEPT !.at = "refresh", !.token = stored, !.force = FALSE] \in CallState(issued)
      BY <1>0 DEF CallState, TypeOK
    <3>2. [me EXCEPT !.at = "send"] \in CallState(issued)
      BY <1>0 DEF CallState
    <3> QED BY <1>2, <3>1, <3>2 DEF Resolve
  <2>2. call' \in [Calls -> CallState(issued)]
    BY <2>1, CallMoves
  <2>3. holder' \in Calls \cup Logins \cup {Nobody}
    BY <1>2 DEF Resolve
  <2> QED BY <1>2, <2>2, <2>3, TypeAgain DEF Resolve, TypeOK
<1>3. CASE Refresh(c)
  <2>1. CASE issued < MaxIssued /\ issued' = issued + 1 /\ UNCHANGED holder
             /\ call' = [call EXCEPT ![c].at = "rotated", ![c].token = issued + 1]
    <3>1. call' = [call EXCEPT ![c] = [me EXCEPT !.at = "rotated", !.token = issued + 1]]
      BY <2>1
    <3>2. me \in CallState(issued + 1) /\ call \in [Calls -> CallState(issued + 1)]
          /\ login \in [Logins -> LoginState(issued + 1)]
      BY <1>0, Grown
    <3>3. [me EXCEPT !.at = "rotated", !.token = issued + 1] \in CallState(issued + 1)
      <4>1. issued + 1 \in 0..(issued + 1)
        OBVIOUS
      <4> HIDE DEF me
      <4> QED BY ONLY <3>2, <4>1 DEF CallState
    <3>4. call' \in [Calls -> CallState(issued')]
      BY <2>1, <3>1, <3>2, <3>3, CallMoves
    <3>5. issued' \in 0..MaxIssued /\ stored \in 0..issued' /\ shell \in 0..issued'
      BY ONLY <2>1, TypeOK, issued \in Nat, MaxIssued \in Nat DEF TypeOK
    <3> QED BY <1>3, <2>1, <3>2, <3>4, <3>5, TypeAgain DEF Refresh, TypeOK
  <2>2. CASE call' = [call EXCEPT ![c] = Over] /\ holder' = Nobody /\ UNCHANGED issued
    <3>1. call' \in [Calls -> CallState(issued)]
      BY <2>2, CallMoves
    <3> QED BY <1>3, <2>2, <3>1, TypeAgain DEF Refresh, TypeOK
  <2> QED BY <1>3, <2>1, <2>2 DEF Refresh
<1>4. CASE OpenSave(c)
  <2>1. PICK x \in CallState(issued) : call' = [call EXCEPT ![c] = x]
    <3>1. [me EXCEPT !.at = "saving"] \in CallState(issued)
      BY <1>0 DEF CallState
    <3> QED BY <1>4, <3>1 DEF OpenSave
  <2>2. call' \in [Calls -> CallState(issued)]
    BY <2>1, CallMoves
  <2> QED BY <1>4, <2>2, TypeAgain DEF OpenSave, TypeOK
<1>5. CASE Save(c)
  <2>1. PICK x \in CallState(issued) : call' = [call EXCEPT ![c] = x]
    <3>1. [me EXCEPT !.at = "send", !.token = 0] \in CallState(issued)
      <4>1. 0 \in 0..issued
        OBVIOUS
      <4> HIDE DEF me
      <4> QED BY ONLY <1>0, <4>1 DEF CallState
    <3>2. \/ call' = [call EXCEPT ![c] = Over]
          \/ call' = [call EXCEPT ![c] = [me EXCEPT !.at = "send", !.token = 0]]
      BY <1>5 DEF Save
    <3> QED BY <3>1, <3>2
  <2>2. call' \in [Calls -> CallState(issued)]
    BY <2>1, CallMoves
  <2>3. stored' \in 0..issued /\ fresh' \in BOOLEAN
    BY <1>0, <1>5 DEF Save, TypeOK, CallState
  <2> QED BY <1>5, <2>2, <2>3, TypeAgain DEF Save, TypeOK
<1>6. CASE Send(c)
  <2>1. PICK x \in CallState(issued) : call' = [call EXCEPT ![c] = x]
    <3>1. ASSUME me.tries < Attempts, NEW u \in BOOLEAN
          PROVE  [me EXCEPT !.at = "resolve", !.tries = @ + 1, !.force = u]
                    \in CallState(issued)
      <4>1. me.tries + 1 \in 0..Attempts
        BY <1>0, <3>1 DEF CallState
      <4> HIDE DEF me
      <4> QED BY ONLY <1>0, <3>1, <4>1 DEF CallState
    <3>2. \/ call' = [call EXCEPT ![c] = Over]
          \/ /\ me.tries < Attempts
             /\ \E u \in BOOLEAN :
                   call' = [call EXCEPT ![c] = [me EXCEPT !.at = "resolve", !.tries = @ + 1,
                                                          !.force = u]]
      BY <1>6 DEF Send
    <3> QED BY <3>1, <3>2
  <2>2. call' \in [Calls -> CallState(issued)]
    BY <2>1, CallMoves
  <2> QED BY <1>6, <2>2, TypeAgain DEF Send, TypeOK
<1> QED BY <1>1, <1>2, <1>3, <1>4, <1>5, <1>6

(* What a login becomes by an exception or a cancellation is a login. *)
LEMMA LoginEnds ==
  ASSUME NEW n \in Nat, NEW l \in LoginState(n)
  PROVE  /\ Failed(l) \in LoginState(n) /\ Cancelled(l) \in LoginState(n)
         /\ \A now \in {"opening", "closing", "saving", "ended"} :
               [l EXCEPT !.at = now] \in LoginState(n)
         /\ [l EXCEPT !.at = "polling", !.status = "waiting"] \in LoginState(n)
         /\ [l EXCEPT !.at = "closing", !.status = "authenticated"] \in LoginState(n)
BY DEF LoginState, Failed, Cancelled

(* A login's own step keeps the types. *)
LEMMA LoginType ==
  ASSUME TypeOK, NEW a \in Logins,
         \/ BeginLogin(a) \/ OpenLogin(a) \/ PollLogin(a) \/ CommitLogin(a)
         \/ SaveLogin(a) \/ EndLogin(a) \/ CancelLogin(a)
  PROVE  TypeOK'
<1> USE Bounds, SignInAssumption
<1> DEFINE me == login[a]
<1>0. me \in LoginState(issued) /\ a \in Calls \cup Logins \cup {Nobody}
  OBVIOUS
<1>1. CASE BeginLogin(a)
  <2>1. login' = [login EXCEPT ![a] = [me EXCEPT !.at = "opening"]]
    BY <1>1 DEF BeginLogin
  <2>2. login' \in [Logins -> LoginState(issued)]
    BY <1>0, <2>1, LoginEnds, LoginMoves
  <2> QED BY <1>1, <2>2, TypeAgain DEF BeginLogin, TypeOK
<1>2. CASE OpenLogin(a)
  <2>1. PICK x \in LoginState(issued) : login' = [login EXCEPT ![a] = x]
    BY <1>0, <1>2, LoginEnds DEF OpenLogin
  <2>2. login' \in [Logins -> LoginState(issued)]
    BY <2>1, LoginMoves
  <2> QED BY <1>2, <2>2, TypeAgain DEF OpenLogin, TypeOK
<1>3. CASE PollLogin(a)
  <2>1. CASE issued < MaxIssued /\ issued' = issued + 1
             /\ login' = [login EXCEPT ![a].at = "exchanged", ![a].token = issued + 1]
    <3>1. login' = [login EXCEPT ![a] = [me EXCEPT !.at = "exchanged", !.token = issued + 1]]
      BY <2>1
    <3>2. me \in LoginState(issued + 1) /\ login \in [Logins -> LoginState(issued + 1)]
          /\ call \in [Calls -> CallState(issued + 1)]
      BY <1>0, Grown
    <3>3. [me EXCEPT !.at = "exchanged", !.token = issued + 1] \in LoginState(issued + 1)
      <4>1. issued + 1 \in 0..(issued + 1)
        OBVIOUS
      <4> HIDE DEF me
      <4> QED BY ONLY <3>2, <4>1 DEF LoginState
    <3>4. login' \in [Logins -> LoginState(issued')]
      BY <2>1, <3>1, <3>2, <3>3, LoginMoves
    <3>5. issued' \in 0..MaxIssued /\ stored \in 0..issued' /\ shell \in 0..issued'
      BY ONLY <2>1, TypeOK, issued \in Nat, MaxIssued \in Nat DEF TypeOK
    <3> QED BY <1>3, <2>1, <3>2, <3>4, <3>5, TypeAgain DEF PollLogin, TypeOK
  <2>2. CASE login' = [login EXCEPT ![a] = Failed(@)] /\ UNCHANGED issued
    <3>1. login' \in [Logins -> LoginState(issued)]
      BY <1>0, <2>2, LoginEnds, LoginMoves
    <3> QED BY <1>3, <2>2, <3>1, TypeAgain DEF PollLogin, TypeOK
  <2> QED BY <1>3, <2>1, <2>2 DEF PollLogin
<1>4. CASE CommitLogin(a)
  <2>1. PICK x \in LoginState(issued) : login' = [login EXCEPT ![a] = x]
    BY <1>0, <1>4, LoginEnds DEF CommitLogin
  <2>2. login' \in [Logins -> LoginState(issued)]
    BY <2>1, LoginMoves
  <2>3. holder' \in Calls \cup Logins \cup {Nobody}
    BY <1>0, <1>4 DEF CommitLogin, TypeOK
  <2> QED BY <1>4, <2>2, <2>3, TypeAgain DEF CommitLogin, TypeOK
<1>5. CASE SaveLogin(a)
  <2>1. PICK x \in LoginState(issued) : login' = [login EXCEPT ![a] = x]
    BY <1>0, <1>5, LoginEnds DEF SaveLogin
  <2>2. login' \in [Logins -> LoginState(issued)]
    BY <2>1, LoginMoves
  <2>3. stored' \in 0..issued /\ fresh' \in BOOLEAN
    BY <1>0, <1>5 DEF SaveLogin, TypeOK, LoginState
  <2> QED BY <1>5, <2>2, <2>3, TypeAgain DEF SaveLogin, TypeOK
<1>6. CASE EndLogin(a)
  <2>1. login' = [login EXCEPT ![a] = [me EXCEPT !.at = "ended"]]
    BY <1>6 DEF EndLogin
  <2>2. login' \in [Logins -> LoginState(issued)]
    BY <1>0, <2>1, LoginEnds, LoginMoves
  <2> QED BY <1>6, <2>2, TypeAgain DEF EndLogin, TypeOK
<1>7. CASE CancelLogin(a)
  <2>1. login' \in [Logins -> LoginState(issued)]
    BY <1>0, <1>7, LoginEnds, LoginMoves DEF CancelLogin
  <2> QED BY <1>7, <2>1, TypeAgain DEF CancelLogin, TypeOK
<1> QED BY <1>1, <1>2, <1>3, <1>4, <1>5, <1>6, <1>7

(* What happens to all logins at once, elsewhere or to the server. *)
Around == \/ BeginLogout \/ EndLogout \/ CloseControls
          \/ Expire \/ ShellExchange \/ ShellSave \/ ShellLogout \/ Stop

(* They keep the types too. *)
LEMMA AroundType == TypeOK /\ Around => TypeOK'
<1> SUFFICES ASSUME TypeOK, Around PROVE TypeOK'
  OBVIOUS
<1> USE Bounds, SignInAssumption
<1>0. 0 \in 0..issued
  BY ONLY issued \in Nat
<1>1. CASE BeginLogout \/ CloseControls
  <2>1. login' = [a \in Logins |-> Cancelled(login[a])]
    BY <1>1 DEF BeginLogout, CloseControls
  <2>2. login' \in [Logins -> LoginState(issued)]
    BY <2>1, LoginEnds
  <2> QED BY <1>1, <2>2, TypeAgain DEF BeginLogout, CloseControls, TypeOK
<1>2. CASE EndLogout
  <2>1. stored' \in 0..issued /\ voided' \in SUBSET Logins /\ logout' \in BOOLEAN
    BY ONLY <1>2, <1>0 DEF EndLogout
  <2> QED BY <1>2, <2>1, TypeAgain DEF EndLogout, TypeOK
<1>3. CASE Expire \/ ShellSave \/ ShellLogout
  <2>1. stored' \in 0..issued /\ fresh' \in BOOLEAN /\ shell' \in 0..issued
    BY ONLY <1>0, <1>3, TypeOK DEF Expire, ShellSave, ShellLogout, TypeOK
  <2>2. UNCHANGED <<issued, holder, litter, call, login, logout, voided, closed, stops>>
    BY <1>3 DEF Expire, ShellSave, ShellLogout
  <2> QED BY <2>1, <2>2, TypeAgain DEF TypeOK
<1>4. CASE ShellExchange
  <2>1. /\ call \in [Calls -> CallState(issued + 1)]
        /\ login \in [Logins -> LoginState(issued + 1)]
    BY Grown
  <2>2. issued' = issued + 1 /\ shell' = issued + 1 /\ issued < MaxIssued
    BY <1>4 DEF ShellExchange
  <2>3. issued' \in 0..MaxIssued /\ stored \in 0..issued' /\ shell' \in 0..issued'
    BY ONLY <2>2, TypeOK, issued \in Nat, MaxIssued \in Nat DEF TypeOK
  <2> QED BY <1>4, <2>1, <2>2, <2>3, TypeAgain DEF ShellExchange, TypeOK
<1>5. CASE Stop
  <2>1. /\ call' \in [Calls -> CallState(issued)]
        /\ login' \in [Logins -> LoginState(issued)]
    BY <1>5 DEF Stop
  <2>2. litter' \in BOOLEAN
    BY <1>5 DEF Stop, TypeOK
  <2>3. stops' \in 0..MaxStops
    BY <1>5 DEF Stop, TypeOK
  <2> QED BY <1>5, <2>1, <2>2, <2>3, TypeAgain DEF Stop, TypeOK
<1> QED BY <1>1, <1>2, <1>3, <1>4, <1>5 DEF Around

(* The types hold at the start ... *)
LEMMA TypesStart == Init => TypeOK
<1> SUFFICES ASSUME Init PROVE TypeOK
  OBVIOUS
<1>1. issued \in 0..MaxIssued /\ stored \in 0..issued /\ 0 \in 0..issued
  BY SignInAssumption DEF Init
<1>2. IdleCall \in CallState(issued) /\ NoLogin \in LoginState(issued)
  BY <1>1, SignInAssumption DEF IdleCall, NoLogin, CallState, LoginState
<1>3. /\ call \in [Calls -> CallState(issued)]
      /\ login \in [Logins -> LoginState(issued)]
  BY <1>2 DEF Init
<1>4. 0 \in 0..MaxStops
  BY SignInAssumption
<1>5. /\ fresh \in BOOLEAN /\ holder = Nobody /\ litter = FALSE /\ logout = FALSE
      /\ voided = {} /\ closed = FALSE /\ shell = 0 /\ stops = 0
  BY DEF Init
<1> QED BY ONLY <1>1, <1>3, <1>4, <1>5 DEF TypeOK, CallState, LoginState

(* ... and after every step. *)
LEMMA TypesStep == TypeOK /\ [Next]_vars => TypeOK'
<1> SUFFICES ASSUME TypeOK, [Next]_vars PROVE TypeOK'
  OBVIOUS
<1>1. CASE UNCHANGED vars \/ Rest
  BY <1>1 DEF vars, TypeOK, Rest
<1>2. CASE Next
  BY <1>1, <1>2, CallType, LoginType, AroundType DEF Next, Around
<1> QED BY <1>1, <1>2

(* Every variable has its type in every reachable state. *)
THEOREM TypesCorrect == Spec => []TypeOK
BY TypesStart, TypesStep, PTL DEF Spec
-----------------------------------------------------------------------------
(***************************************************************************)
(* The two safety results about the stored credential, for any calls,      *)
(* logins and bounds. Neither is inductive. A call that is past the file   *)
(* holds the lock, and nobody else writes under it (Locked); whoever is    *)
(* about to save has not been cancelled, and whatever a logout voided has  *)
(* been (Withdrawn); no token that a login was given is anybody else's to  *)
(* save (Apart).                                                           *)
(***************************************************************************)

Locked ==
    /\ \A c \in Calls : call[c].at \in {"refresh", "rotated", "saving"}
                           => holder = c /\ stored # 0
    /\ \A c \in Calls : call[c].at = "refresh" => call[c].token = stored
    /\ \A a \in Logins : login[a].at = "saving" => holder = a

Withdrawn ==
    \A a \in Logins :
        /\ login[a].at = "saving" => ~login[a].cancelled
        /\ login[a].status = "cancelled" => login[a].cancelled
        /\ logout /\ login[a].at # "none" => login[a].cancelled
        /\ a \in voided => login[a].at # "none" /\ login[a].cancelled

Apart ==
    \A a \in Logins : login[a].token # 0 =>
        /\ \A b \in Logins \ {a} : login[b].token # login[a].token
        /\ \A c \in Calls : call[c].at \in {"rotated", "saving"}
                               => call[c].token # login[a].token
        /\ shell # login[a].token

Credentials == TypeOK /\ Locked /\ Withdrawn /\ Apart

-----------------------------------------------------------------------------
(* What an exception and a cancellation leave of a login. *)
LEMMA Endings ==
  ASSUME NEW n \in Nat, NEW l \in LoginState(n)
  PROVE  /\ Failed(l).at = "closing" /\ Failed(l).cancelled = l.cancelled
         /\ Failed(l).token = l.token
         /\ Failed(l).status = IF l.cancelled THEN l.status ELSE "failed"
         /\ Cancelled(l).at = l.at /\ Cancelled(l).token = l.token
         /\ l.at = "none" => Cancelled(l) = l
         /\ l.at # "none" => Cancelled(l).cancelled
         /\ l.status = "cancelled" => Cancelled(l).status = "cancelled"
BY DEF LoginState, Failed, Cancelled

(* What a login's own step may do to it, to the lock and to the file. *)
LEMMA LoginEffect ==
  ASSUME TypeOK, NEW a \in Logins,
         \/ BeginLogin(a) \/ OpenLogin(a) \/ PollLogin(a) \/ CommitLogin(a)
         \/ SaveLogin(a) \/ EndLogin(a) \/ CancelLogin(a)
  PROVE  /\ \A b \in Logins \ {a} : login'[b] = login[b]
         /\ login'[a].at # "none" /\ (login[a].at = "none" => ~logout)
         /\ login'[a].at = "saving" => /\ holder = Nobody /\ holder' = a /\ stored' = stored
                                      /\ ~login'[a].cancelled
         /\ login[a].cancelled => login'[a].cancelled
         /\ login'[a].status = "cancelled" =>
               login'[a].cancelled \/ login[a].status = "cancelled"
         /\ login[a].status = "cancelled" /\ login[a].cancelled /\ login[a].at # "saving"
               => login'[a].status = "cancelled"
         /\ \/ login'[a].token = login[a].token
            \/ login'[a].token = issued + 1
         /\ \/ holder' = holder
            \/ holder = Nobody /\ holder' = a
            \/ login[a].at = "saving" /\ holder' = Nobody
         /\ \/ stored' = stored
            \/ login[a].at = "saving" /\ stored' = login[a].token
                 /\ login'[a].token = login[a].token
         /\ UNCHANGED <<call, logout, voided, shell>>
<1> DEFINE l == login[a]
<1>0. l \in LoginState(issued) /\ issued \in Nat /\ login \in [Logins -> LoginState(issued)]
  BY Bounds
<1>1. CASE BeginLogin(a)
  BY <1>0, <1>1 DEF BeginLogin, LoginState
<1>2. CASE OpenLogin(a)
  <2>1. CASE login' = [login EXCEPT ![a] = Failed(l)]
    BY <1>0, <1>2, <2>1, Endings DEF OpenLogin
  <2>2. CASE login' = [login EXCEPT ![a] = [l EXCEPT !.at = "closing"]]
    BY <1>0, <1>2, <2>2 DEF OpenLogin, LoginState
  <2>3. CASE /\ ~l.cancelled
             /\ login' = [login EXCEPT ![a] = [l EXCEPT !.at = "polling", !.status = "waiting"]]
    BY <1>0, <1>2, <2>3 DEF OpenLogin, LoginState
  <2> QED BY <1>2, <2>1, <2>2, <2>3 DEF OpenLogin
<1>3. CASE PollLogin(a)
  <2>1. CASE login' = [login EXCEPT ![a] = Failed(l)]
    BY <1>0, <1>3, <2>1, Endings DEF PollLogin
  <2>2. CASE login' = [login EXCEPT ![a].at = "exchanged", ![a].token = issued + 1]
    BY <1>0, <1>3, <2>2 DEF PollLogin, LoginState
  <2> QED BY <1>3, <2>1, <2>2 DEF PollLogin
<1>4. CASE CommitLogin(a)
  <2>1. CASE login' = [login EXCEPT ![a] = Failed(l)] /\ UNCHANGED holder
    BY <1>0, <1>4, <2>1, Endings DEF CommitLogin
  <2>2. CASE /\ ~l.cancelled /\ login' = [login EXCEPT ![a].at = "saving"] /\ holder' = a
    BY <1>0, <1>4, <2>2 DEF CommitLogin, LoginState
  <2> QED BY <1>4, <2>1, <2>2 DEF CommitLogin
<1>5. CASE SaveLogin(a)
  <2>1. CASE login' = [login EXCEPT ![a] = Failed(l)] /\ UNCHANGED stored
    BY <1>0, <1>5, <2>1, Endings DEF SaveLogin
  <2>2. CASE /\ stored' = l.token
             /\ login' = [login EXCEPT ![a].at = "closing", ![a].status = "authenticated"]
    BY <1>0, <1>5, <2>2 DEF SaveLogin, LoginState
  <2> QED BY <1>5, <2>1, <2>2 DEF SaveLogin
<1>6. CASE EndLogin(a)
  BY <1>0, <1>6 DEF EndLogin, LoginState
<1>7. CASE CancelLogin(a)
  BY <1>0, <1>7, Endings DEF CancelLogin, CommitFree
<1> QED BY <1>1, <1>2, <1>3, <1>4, <1>5, <1>6, <1>7

(* A logout or a shutdown cancels every login that was begun. *)
LEMMA AllCancelled ==
  ASSUME TypeOK, BeginLogout \/ CloseControls
  PROVE  /\ \A a \in Logins :
               /\ login[a].at # "saving"
               /\ login'[a].at = login[a].at /\ login'[a].token = login[a].token
               /\ login[a].at = "none" => login'[a] = login[a]
               /\ login[a].at # "none" => login'[a].cancelled
               /\ login[a].status = "cancelled" => login'[a].status = "cancelled"
         /\ UNCHANGED <<call, holder, stored, voided, shell, issued>>
<1>1. issued \in Nat /\ login \in [Logins -> LoginState(issued)]
  BY Bounds
<1>2. \A a \in Logins : login'[a] = Cancelled(login[a])
  BY DEF BeginLogout, CloseControls
<1> QED BY <1>1, <1>2, Endings DEF BeginLogout, CloseControls, CommitFree

(* Only the holder of the lock moves past the file, and only it lets go. *)
LEMMA LockedKept == Credentials /\ Next => Locked'
<1> SUFFICES ASSUME TypeOK, Locked, Next PROVE Locked'
  BY DEF Credentials
<1> USE SignInAssumption
<1>0. /\ DOMAIN call = Calls /\ DOMAIN login = Logins
      /\ \A c \in Calls : DOMAIN call[c] = {"at", "token", "force", "tries"}
      /\ \A a \in Logins : DOMAIN login[a] = {"at", "status", "cancelled", "token"}
  BY DEF TypeOK
<1>1. ASSUME NEW c \in Calls, BeginCall(c) \/ Send(c)
      PROVE  Locked'
  BY <1>0, <1>1 DEF BeginCall, Send, Over, IdleCall, Locked
<1>2. ASSUME NEW c \in Calls, Resolve(c)
      PROVE  Locked'
  BY <1>0, <1>2 DEF Resolve, Over, IdleCall, Locked
<1>3. ASSUME NEW c \in Calls, Refresh(c)
      PROVE  Locked'
  BY <1>0, <1>3 DEF Refresh, Over, IdleCall, Locked
<1>4. ASSUME NEW c \in Calls, OpenSave(c)
      PROVE  Locked'
  BY <1>0, <1>4 DEF OpenSave, Over, IdleCall, Locked
<1>5. ASSUME NEW c \in Calls, Save(c)
      PROVE  Locked'
  BY <1>0, <1>5 DEF Save, Over, IdleCall, Locked
<1>6. ASSUME NEW a \in Logins,
             \/ BeginLogin(a) \/ OpenLogin(a) \/ PollLogin(a) \/ CommitLogin(a)
             \/ SaveLogin(a) \/ EndLogin(a) \/ CancelLogin(a)
      PROVE  Locked'
  BY <1>6, LoginEffect DEF Locked
<1>9. CASE BeginLogout \/ CloseControls
  BY <1>9, AllCancelled DEF Locked
<1>10. CASE EndLogout \/ Expire \/ ShellExchange \/ ShellSave \/ ShellLogout
  BY <1>0, <1>10 DEF EndLogout, Expire, ShellExchange, ShellSave, ShellLogout, Locked
<1>11. CASE Stop
  BY <1>11 DEF Stop, IdleCall, NoLogin, Locked
<1>12. CASE Rest
  BY <1>12 DEF Rest, vars, Locked
<1> QED BY <1>1, <1>2, <1>3, <1>4, <1>5, <1>6, <1>9, <1>10, <1>11, <1>12
        DEF Next

(* The check of the attempt under both locks is what keeps a cancelled one out. *)
LEMMA WithdrawnKept == Credentials /\ Next => Withdrawn'
<1> SUFFICES ASSUME TypeOK, Withdrawn, Next PROVE Withdrawn'
  BY DEF Credentials
<1> USE SignInAssumption
<1>0. /\ DOMAIN login = Logins
      /\ \A a \in Logins : DOMAIN login[a] = {"at", "status", "cancelled", "token"}
      /\ \A a \in Logins : login[a].cancelled \in BOOLEAN
      /\ voided \in SUBSET Logins /\ logout \in BOOLEAN
  BY DEF TypeOK
<1>1. ASSUME NEW c \in Calls,
             \/ BeginCall(c) \/ Resolve(c) \/ Refresh(c) \/ OpenSave(c) \/ Save(c) \/ Send(c)
      PROVE  Withdrawn'
  BY <1>1 DEF BeginCall, Resolve, Refresh, OpenSave, Save, Send, Withdrawn
<1>2. ASSUME NEW a \in Logins,
             \/ BeginLogin(a) \/ OpenLogin(a) \/ PollLogin(a) \/ CommitLogin(a)
             \/ SaveLogin(a) \/ EndLogin(a) \/ CancelLogin(a)
      PROVE  Withdrawn'
  BY <1>2, LoginEffect DEF Withdrawn
<1>9. CASE BeginLogout \/ CloseControls
  BY <1>0, <1>9, AllCancelled DEF Withdrawn
<1>10. CASE EndLogout
  BY <1>0, <1>10 DEF EndLogout, Withdrawn
<1>11. CASE Expire \/ ShellExchange \/ ShellSave \/ ShellLogout
  BY <1>11 DEF Expire, ShellExchange, ShellSave, ShellLogout, Withdrawn
<1>12. CASE Stop
  BY <1>12 DEF Stop, NoLogin, Withdrawn
<1>13. CASE Rest
  BY <1>13 DEF Rest, vars, Withdrawn
<1> QED BY <1>1, <1>2, <1>9, <1>10, <1>11, <1>12, <1>13
        DEF Next

(* Tokens are numbered as they are issued, so a new one is nobody's yet. *)
LEMMA TokensIssued ==
  ASSUME TypeOK
  PROVE  /\ \A a \in Logins : login[a].token \in Nat /\ login[a].token < issued + 1
         /\ \A c \in Calls : call[c].token \in Nat /\ call[c].token < issued + 1
         /\ shell \in Nat /\ shell < issued + 1 /\ issued \in Nat
BY Bounds DEF TypeOK

(* Whoever gets a token gets a new one. *)
LEMMA ApartKept == Credentials /\ Next => Apart'
<1> SUFFICES ASSUME TypeOK, Apart, Next PROVE Apart'
  BY DEF Credentials
<1>0. /\ DOMAIN call = Calls
      /\ \A c \in Calls : DOMAIN call[c] = {"at", "token", "force", "tries"}
  BY DEF TypeOK
<1>1. ASSUME NEW c \in Calls, BeginCall(c) \/ Resolve(c) \/ OpenSave(c) \/ Save(c) \/ Send(c)
      PROVE  Apart'
  <2>1. \A d \in Calls : call'[d].at \in {"rotated", "saving"} =>
           call[d].at \in {"rotated", "saving"} /\ call'[d].token = call[d].token
    <3>1. CASE BeginCall(c)
      BY <1>0, <3>1 DEF BeginCall
    <3>2. CASE Resolve(c)
      BY <1>0, <3>2 DEF Resolve, Over, IdleCall
    <3>3. CASE OpenSave(c)
      BY <1>0, <3>3 DEF OpenSave, Over, IdleCall
    <3>4. CASE Save(c)
      BY <1>0, <3>4 DEF Save, Over, IdleCall
    <3>5. CASE Send(c)
      BY <1>0, <3>5 DEF Send, Over, IdleCall
    <3> QED BY <1>1, <3>1, <3>2, <3>3, <3>4, <3>5
  <2>2. UNCHANGED <<login, shell>>
    BY <1>1 DEF BeginCall, Resolve, OpenSave, Save, Send
  <2> QED BY <2>1, <2>2 DEF Apart
<1>2. ASSUME NEW c \in Calls, Refresh(c)
      PROVE  Apart'
  <2>1. \A d \in Calls : call'[d].at \in {"rotated", "saving"} =>
           \/ call[d].at \in {"rotated", "saving"} /\ call'[d].token = call[d].token
           \/ call'[d].token = issued + 1
    BY <1>0, <1>2 DEF Refresh, Over, IdleCall
  <2>2. UNCHANGED <<login, shell>>
    BY <1>2 DEF Refresh
  <2> QED BY <2>1, <2>2, TokensIssued DEF Apart
<1>3. ASSUME NEW a \in Logins,
             \/ BeginLogin(a) \/ OpenLogin(a) \/ PollLogin(a) \/ CommitLogin(a)
             \/ SaveLogin(a) \/ EndLogin(a) \/ CancelLogin(a)
      PROVE  Apart'
  <2>1. /\ \A b \in Logins \ {a} : login'[b] = login[b]
        /\ login'[a].token = login[a].token \/ login'[a].token = issued + 1
        /\ UNCHANGED <<call, shell>>
    BY <1>3, LoginEffect
  <2> QED BY <2>1, TokensIssued DEF Apart
<1>4. CASE BeginLogout \/ CloseControls
  BY <1>4, AllCancelled DEF Apart
<1>5. CASE EndLogout \/ Expire \/ ShellLogout \/ Rest
  BY <1>5 DEF EndLogout, Expire, ShellLogout, Rest, vars, Apart
<1>6. CASE ShellExchange \/ ShellSave
  <2>1. UNCHANGED <<call, login>> /\ (shell' = 0 \/ shell' = issued + 1)
    BY <1>6 DEF ShellExchange, ShellSave
  <2> QED BY <2>1, TokensIssued DEF Apart
<1>7. CASE Stop
  BY <1>7 DEF Stop, NoLogin, Apart
<1> QED BY <1>1, <1>2, <1>3, <1>4, <1>5, <1>6, <1>7 DEF Next

(* Whoever is past the credential file holds its lock, whoever may still save
   was not cancelled, and no two save the same token. *)
THEOREM CredentialsKept == Spec => []Credentials
<1>1. Init => Credentials
  <2> SUFFICES ASSUME Init PROVE Locked /\ Withdrawn /\ Apart
    BY TypesStart DEF Credentials
  <2>1. /\ \A c \in Calls : call[c].at = "idle"
        /\ \A a \in Logins : /\ login[a].at = "none" /\ login[a].status = "starting"
                              /\ login[a].token = 0
        /\ voided = {} /\ logout = FALSE
    BY DEF Init, IdleCall, NoLogin
  <2> QED BY <2>1 DEF Locked, Withdrawn, Apart
<1>2. Credentials /\ [Next]_vars => Credentials'
  <2>1. CASE UNCHANGED vars
    BY <2>1 DEF vars, Credentials, TypeOK, Locked, Withdrawn, Apart
  <2>2. CASE Next
    BY <2>2, TypesStep, LockedKept, WithdrawnKept, ApartKept DEF Credentials
  <2> QED BY <2>1, <2>2
<1> QED BY <1>1, <1>2, PTL DEF Spec

(* A refresh shows the provider the credential that is in the file. *)
THEOREM RefreshesCurrent == Spec => NoStaleRefresh
<1>1. Credentials =>
        \A c \in Calls : call[c].at = "refresh" /\ call'[c].at = "rotated"
                          => call[c].token = stored
  BY DEF Credentials, Locked
<1> QED BY <1>1, CredentialsKept, PTL DEF NoStaleRefresh

(* After a logout only a login begun since, or one elsewhere, brings a
   credential back. *)
LEMMA LogoutsFinal ==
  ASSUME Credentials, Next, stored = 0, stored' # 0
  PROVE  stored' = shell \/ \E a \in Logins \ voided : stored' = login[a].token
<1>1. ASSUME NEW c \in Calls,
             \/ BeginCall(c) \/ Resolve(c) \/ Refresh(c) \/ OpenSave(c) \/ Save(c) \/ Send(c)
      PROVE  FALSE
  BY <1>1 DEF BeginCall, Resolve, Refresh, OpenSave, Save, Send, Credentials, Locked
<1>2. ASSUME NEW a \in Logins,
             \/ BeginLogin(a) \/ OpenLogin(a) \/ PollLogin(a) \/ CommitLogin(a)
             \/ SaveLogin(a) \/ EndLogin(a) \/ CancelLogin(a)
      PROVE  a \notin voided /\ stored' = login[a].token
  <2>1. login[a].at = "saving" /\ stored' = login[a].token
    BY <1>2, LoginEffect DEF Credentials
  <2> QED BY <2>1 DEF Credentials, Withdrawn
<1>3. CASE Around \/ Rest
  BY <1>3 DEF Around, Rest, vars, BeginLogout, EndLogout, CloseControls, Expire,
              ShellExchange, ShellSave, ShellLogout, Stop
<1> QED BY <1>1, <1>2, <1>3 DEF Next, Around

(* A cancelled attempt stays cancelled, and what it fetched is not saved. *)
LEMMA CancellationsFinal ==
  ASSUME Credentials, Next, NEW a \in Logins, login[a].status = "cancelled", stops' = stops
  PROVE  /\ login'[a].status = "cancelled"
         /\ stored' \in {0, stored} \/ stored' # login[a].token
<1> USE DEF Credentials
<1>0. /\ login[a].cancelled /\ login[a].at # "saving"
      /\ stops \in Nat /\ login[a].token \in Nat
  BY SignInAssumption, TokensIssued DEF Withdrawn, TypeOK
<1>1. ASSUME NEW c \in Calls,
             \/ BeginCall(c) \/ Resolve(c) \/ Refresh(c) \/ OpenSave(c) \/ Save(c) \/ Send(c)
      PROVE  /\ login' = login
             /\ stored' # stored => call[c].at = "saving" /\ stored' = call[c].token
  <2>1. login' = login
    BY <1>1 DEF BeginCall, Resolve, Refresh, OpenSave, Save, Send
  <2>2. CASE Save(c)
    BY <2>1, <2>2 DEF Save
  <2>3. CASE ~Save(c)
    BY <1>1, <2>1, <2>3 DEF BeginCall, Resolve, Refresh, OpenSave, Send
  <2> QED BY <2>2, <2>3
<1>2. ASSUME NEW b \in Logins,
             \/ BeginLogin(b) \/ OpenLogin(b) \/ PollLogin(b) \/ CommitLogin(b)
             \/ SaveLogin(b) \/ EndLogin(b) \/ CancelLogin(b)
      PROVE  /\ login'[a].status = "cancelled"
             /\ stored' # stored => b # a /\ stored' = login[b].token
  <2>0. TypeOK
    OBVIOUS
  <2>1. CASE b = a
    <3>1. login'[a].status = "cancelled" /\ stored' = stored
      BY ONLY <1>0, <1>2, <2>0, <2>1, LoginEffect, login[a].status = "cancelled"
    <3> QED BY <3>1
  <2>2. CASE b # a
    <3>1. login'[a] = login[a]
      BY ONLY <1>2, <2>0, <2>2, LoginEffect, a \in Logins
    <3>2. stored' = stored \/ stored' = login[b].token
      BY ONLY <1>2, <2>0, LoginEffect
    <3> QED BY <2>2, <3>1, <3>2
  <2> QED BY <2>1, <2>2
<1>3. CASE Around \/ Rest
  <2>1. CASE BeginLogout \/ CloseControls
    BY <2>1, AllCancelled
  <2>2. CASE EndLogout \/ Expire \/ ShellExchange \/ ShellLogout \/ Rest
    BY <2>2 DEF EndLogout, Expire, ShellExchange, ShellLogout, Rest, vars
  <2>3. CASE ShellSave
    BY <2>3 DEF ShellSave, Apart
  <2>4. CASE Stop
    BY <1>0, <2>4 DEF Stop
  <2> QED BY <1>3, <2>1, <2>2, <2>3, <2>4 DEF Around
<1>4. ASSUME NEW c \in Calls, call[c].at = "saving", stored' = call[c].token
      PROVE  stored' = 0 \/ stored' # login[a].token
  BY <1>4 DEF Apart
<1>5. ASSUME NEW b \in Logins, b # a, stored' = login[b].token
      PROVE  stored' = 0 \/ stored' # login[a].token
  BY <1>5 DEF Apart
<1> QED BY <1>1, <1>2, <1>3, <1>4, <1>5 DEF Next, Around

(* What the operator was told is gone stays gone. *)
THEOREM WithdrawalsFinal == Spec => WithdrawnStaysOut
<1>1. Credentials /\ [Next]_vars =>
        [(stored = 0 /\ stored' # 0)
         => \/ stored' = shell
            \/ \E a \in Logins \ voided : stored' = login[a].token]_vars
  BY LogoutsFinal
<1>2. Credentials /\ [Next]_vars =>
        [\A a \in Logins : login[a].status = "cancelled" /\ stops' = stops
            => /\ login'[a].status = "cancelled"
               /\ stored' \in {0, stored} \/ stored' # login[a].token]_vars
  BY CancellationsFinal
<1>3. Spec => LogoutIsFinal
  BY <1>1, CredentialsKept, PTL DEF Spec, LogoutIsFinal
<1>4. Spec => CancelledStaysOut
  BY <1>2, CredentialsKept, PTL DEF Spec, CancelledStaysOut
<1> QED BY <1>3, <1>4 DEF WithdrawnStaysOut

-----------------------------------------------------------------------------
(***************************************************************************)
(* ModelTurn.                                                              *)
(***************************************************************************)
TurnCalls == [raw : RawIds, args : Args]
StreamItems == [text : Seq(Nat), calls : Seq(TurnCalls)]
TurnTools == [raw : RawIds, args : Args, state : {"waiting", "running", "done"},
              result : Results \cup {"none"}]
PublicResults == [raw : RawIds, content : Results \cup {"none"}, args : Args, turn : Nat]
PublicCalls == [raw : RawIds, args : Args, turn : Nat, answer : Seq(PublicResults)]
Streams == [open : BOOLEAN, shown : Seq(Seq(Nat)), calls : Seq(PublicCalls),
            pending : [RawIds -> Nat], last : [RawIds -> Nat]]
TraceKeys == RawIds \cup {"model"}

DistinctCalls(seq) == \A i, j \in DOMAIN seq : seq[i].raw = seq[j].raw => i = j

(* Who is where, and what each part of the state is made of.                *)
TurnTyped ==
  /\ at \in {"idle", "before", "streaming", "tools", "worker", "over", "ended", "failed"}
  /\ batch \in Nat /\ turn \in Nat /\ begun \in BOOLEAN /\ cut \in BOOLEAN
  /\ coming \in Seq(StreamItems)
  /\ acc \in [text : Seq(Nat), calls : Seq(TurnCalls)] /\ DistinctCalls(acc.calls)
  /\ reply \in [started : BOOLEAN, raw : Seq(Nat), public : Seq(Nat),
                allowed : {"unasked", "yes", "no"}, disabled : BOOLEAN]
  /\ tools \in Seq(TurnTools) /\ DistinctCalls(tools)
  /\ stream \in Streams /\ (stream.open => stream.shown # <<>>)
  /\ replies \in Seq(Seq(Nat))

Busy(k) == \E i \in DOMAIN tools : tools[i].raw = k /\ tools[i].state = "running"

(* A list of open starts is empty or has one span, the start of call c.       *)
OpenFor(k, c) ==
  \/ trace.active[k] = <<>>
  \/ \E id \in DOMAIN trace.spans : trace.active[k] = <<id>> /\ trace.spans[id].owner = c

(* No start of k is worth waiting for: it is new, or its key is closed.       *)
Settled(k) == \/ k \in trace.closed
              \/ \A i \in DOMAIN trace.spans : trace.spans[i].key # k

Traces(S) == [spans : Seq(S), active : [TraceKeys -> Seq(Nat)],
              closed : SUBSET TraceKeys, missed : Nat]
TraceTyped == \E S : trace \in Traces(S)
ParentsOwn ==
  \A i \in DOMAIN trace.spans :
     trace.spans[i].parent # NoParent =>
        /\ trace.spans[i].parent \in DOMAIN trace.spans
        /\ trace.spans[trace.spans[i].parent].owner = trace.spans[i].owner
ModelSpans ==
  /\ \A i \in DOMAIN trace.spans :
        trace.spans[i].key = "model" => \E j \in 0 .. turn : trace.spans[i].content = <<j>>
  /\ OpenFor("model", <<turn, "model">>)
  /\ at # "streaming" => trace.active["model"] = <<>>
ToolSpans ==
  /\ \A k \in RawIds : Busy(k) => at = "tools" /\ OpenFor(k, <<turn, k>>)
  /\ \A k \in RawIds : ~Busy(k) => trace.active[k] = <<>> /\ Settled(k)
(* While no observation has failed.                                          *)
Traced == TraceTyped /\ (trace.missed = 0 => /\ ParentsOwn
                                             /\ at # "failed" => ModelSpans /\ ToolSpans)

(* The calls of the response at hand.                                        *)
Awaited == IF at \in {"streaming", "tools", "worker"} THEN acc.calls ELSE <<>>
WellAnswered(called) ==
  called.answer # Unanswered => /\ Head(called.answer).turn = called.turn
                              /\ Head(called.answer).args = called.args
Answered ==
  /\ \A i \in DOMAIN stream.calls : WellAnswered(stream.calls[i])
  /\ at # "failed" =>
     /\ at = "worker" => acc.calls = <<>>
     /\ \A r \in RawIds : stream.pending[r] # NoCall =>
           \E c \in DOMAIN Awaited : Awaited[c].raw = r
     /\ \A c \in DOMAIN Awaited :
           LET p == stream.pending[Awaited[c].raw] IN
           /\ p \in DOMAIN stream.calls
           /\ stream.calls[p].raw = Awaited[c].raw /\ stream.calls[p].args = Awaited[c].args
           /\ stream.calls[p].turn = turn
     /\ \A i \in DOMAIN stream.calls :
           stream.calls[i].answer = Unanswered => stream.pending[stream.calls[i].raw] = i
     /\ at = "tools" => /\ DOMAIN tools = DOMAIN acc.calls
                        /\ \A i \in DOMAIN tools : /\ tools[i].raw = acc.calls[i].raw
                                                   /\ tools[i].args = acc.calls[i].args

(* The reply of a batch with its control header.                              *)
Reply == <<Header>> \o Message(batch)
Textless(items) == \A i \in DOMAIN items : items[i].text = <<>>
(* What has come of a response, and what has still to come.                   *)
CallsOnly == acc.text = <<>> /\ Textless(coming)
Headed ==
  \E k \in 0 .. Words + 1 :
     /\ acc.text = SubSeq(Reply, 1, k)
     /\ Len(coming) >= Words + 1 - k
     /\ \A i \in DOMAIN coming :
          IF i <= Words + 1 - k THEN coming[i].text = <<Reply[k + i]>> /\ coming[i].calls = <<>>
                                ELSE coming[i].text = <<>>
     /\ k < Words + 1 => acc.calls = <<>>
Unheaded ==
  \/ acc.text = <<>> /\ Len(coming) = 1 /\ coming[1] = [text |-> Json(batch), calls |-> <<>>]
  \/ acc.text = Json(batch) /\ coming = <<>>
(* What the gate has published is what is shown of the message.               *)
Shown ==
  /\ IsPrefix(reply.public, Message(batch))
  /\ reply.started = (reply.public # <<>>)
  /\ IF reply.started THEN stream.open /\ stream.shown = Append(replies, reply.public)
                      ELSE ~stream.open /\ stream.shown = replies
Gated ==
  /\ CallsOnly \/ Headed \/ Unheaded
  /\ ~reply.disabled => reply.raw = acc.text /\ acc.calls = <<>>
  /\ reply.disabled => ~reply.started /\ Textless(coming)
  /\ reply.started => reply.allowed = "yes"
  /\ ~begun => acc = NoAnswer /\ ~reply.disabled /\ ~reply.started
  /\ CallsOnly => ~reply.started
  /\ CallsOnly => acc.calls # <<>> \/ coming # <<>>
Streamed ==
  ~cut =>
    /\ ShownOnce
    /\ at \in {"idle", "before", "tools", "over", "ended"} =>
          ~stream.open /\ stream.shown = replies
    /\ at = "streaming" => Shown /\ Gated
    /\ at = "worker" => Shown /\ (acc.text = Reply \/ acc.text = Json(batch))

-----------------------------------------------------------------------------
(* Types.                                                                  *)

LEMMA HeadTyped ==
  ASSUME NEW S, NEW s \in Seq(S), s # <<>>
  PROVE  /\ Head(s) \in S /\ Tail(s) \in Seq(S) /\ Head(s) = s[1] /\ 1 \in DOMAIN s
         /\ Len(s) \in Nat \ {0} /\ DOMAIN s = 1..Len(s)
         /\ Len(Tail(s)) = Len(s) - 1 /\ DOMAIN Tail(s) = 1..(Len(s) - 1)
         /\ \A i \in 1..(Len(s) - 1) : Tail(s)[i] = s[i + 1]
BY HeadTailProperties, LenProperties, EmptySeq

LEMMA MessageTyped ==
  ASSUME NEW b \in Nat
  PROVE  /\ Message(b) \in Seq(Nat) /\ Len(Message(b)) = Words /\ DOMAIN Message(b) = 1..Words
         /\ \A k \in 1..Words : Message(b)[k] = 10 * b + k
         /\ Message(b) # <<>>
<1>1. Words \in Nat \ {0}
  BY ModelTurnAssumption
<1>2. DOMAIN Message(b) = 1..Words /\ \A k \in 1..Words : Message(b)[k] = 10 * b + k
  BY DEF Message
<1>3. Message(b) \in [1..Words -> Nat]
  BY <1>1, <1>2 DEF Message
<1>4. Message(b) \in Seq(Nat)
  BY <1>1, <1>3
<1>5. Len(Message(b)) = Words
  BY <1>1, <1>2, <1>4, LenProperties
<1> QED BY <1>1, <1>2, <1>4, <1>5, EmptySeq

LEMMA DeltasTyped ==
  ASSUME NEW text \in Seq(Nat)
  PROVE  /\ Deltas(text) \in Seq(StreamItems) /\ Len(Deltas(text)) = Len(text)
         /\ \A k \in 1..Len(text) : Deltas(text)[k] = [text |-> <<text[k]>>, calls |-> <<>>]
<1>1. Len(text) \in Nat /\ DOMAIN text = 1..Len(text) /\ \A k \in 1..Len(text) : text[k] \in Nat
  BY LenProperties, ElementOfSeq
<1>2. DOMAIN Deltas(text) = 1..Len(text)
      /\ \A k \in 1..Len(text) : Deltas(text)[k] = [text |-> <<text[k]>>, calls |-> <<>>]
  BY <1>1 DEF Deltas
<1>3. \A k \in 1..Len(text) : [text |-> <<text[k]>>, calls |-> <<>>] \in StreamItems
  <2> SUFFICES ASSUME NEW k \in 1..Len(text)
               PROVE  [text |-> <<text[k]>>, calls |-> <<>>] \in StreamItems
    OBVIOUS
  <2>1. <<text[k]>> \in Seq(Nat) /\ <<>> \in Seq(TurnCalls)
    BY <1>1
  <2> QED BY <2>1 DEF StreamItems
<1>4. Deltas(text) \in [1..Len(text) -> StreamItems]
  BY <1>1, <1>2, <1>3 DEF Deltas
<1>5. Deltas(text) \in Seq(StreamItems)
  BY <1>1, <1>4
<1> QED BY <1>1, <1>2, <1>5, LenProperties

LEMMA CallItemsTyped ==
  ASSUME NEW calls \in Seq(TurnCalls)
  PROVE  /\ CallItems(calls) \in Seq(StreamItems) /\ Len(CallItems(calls)) = Len(calls)
         /\ \A k \in 1..Len(calls) : CallItems(calls)[k] = [text |-> <<>>, calls |-> <<calls[k]>>]
<1>1. Len(calls) \in Nat /\ DOMAIN calls = 1..Len(calls)
      /\ \A k \in 1..Len(calls) : calls[k] \in TurnCalls
  BY LenProperties, ElementOfSeq
<1>2. DOMAIN CallItems(calls) = 1..Len(calls)
      /\ \A k \in 1..Len(calls) : CallItems(calls)[k] = [text |-> <<>>, calls |-> <<calls[k]>>]
  BY <1>1 DEF CallItems
<1>3. \A k \in 1..Len(calls) : [text |-> <<>>, calls |-> <<calls[k]>>] \in StreamItems
  <2> SUFFICES ASSUME NEW k \in 1..Len(calls)
               PROVE  [text |-> <<>>, calls |-> <<calls[k]>>] \in StreamItems
    OBVIOUS
  <2>1. <<calls[k]>> \in Seq(TurnCalls) /\ <<>> \in Seq(Nat)
    BY <1>1
  <2> QED BY <2>1 DEF StreamItems
<1>4. CallItems(calls) \in [1..Len(calls) -> StreamItems]
  BY <1>1, <1>2, <1>3 DEF CallItems
<1>5. CallItems(calls) \in Seq(StreamItems)
  BY <1>1, <1>4
<1> QED BY <1>1, <1>2, <1>5, LenProperties

LEMMA CallListsTyped ==
  \A c \in CallLists : c \in Seq(TurnCalls) /\ Len(c) \in Nat \ {0}
BY ModelTurnAssumption, EmptySeq DEF TurnCalls

LEMMA ReplyTyped ==
  ASSUME NEW b \in Nat
  PROVE  /\ <<Header>> \o Message(b) \in Seq(Nat) /\ Len(<<Header>> \o Message(b)) = Words + 1
         /\ (<<Header>> \o Message(b))[1] = Header
         /\ \A k \in 1..Words : (<<Header>> \o Message(b))[k + 1] = Message(b)[k]
<1>1. PICK h : h = <<Header>>
  OBVIOUS
<1>2. h \in Seq(Nat) /\ Len(h) = 1 /\ h[1] = Header
  BY <1>1 DEF Header
<1>3. PICK m : m = Message(b)
  OBVIOUS
<1>4. m \in Seq(Nat) /\ Len(m) = Words /\ Words \in Nat \ {0}
  BY <1>3, MessageTyped, ModelTurnAssumption
<1>5. /\ h \o m \in Seq(Nat) /\ Len(h \o m) = 1 + Words
      /\ \A i \in 1..(1 + Words) : (h \o m)[i] = IF i <= 1 THEN h[i] ELSE m[i - 1]
  <2>1. /\ h \o m \in Seq(Nat) /\ Len(h \o m) = Len(h) + Len(m)
        /\ \A i \in 1..Len(h) + Len(m) :
              (h \o m)[i] = IF i <= Len(h) THEN h[i] ELSE m[i - Len(h)]
    BY <1>2, <1>4, ConcatProperties, Zenon
  <2>2. Len(h) = 1 /\ Len(m) = Words
    BY <1>2, <1>4
  <2> QED BY <2>1, <2>2
<1>6. \A k \in 1..Words : (k + 1) \in 1..(1 + Words) /\ ~(k + 1 <= 1) /\ (k + 1) - 1 = k
  BY <1>4
<1>7. \A k \in 1..Words : (h \o m)[k + 1] = m[k]
  BY <1>5, <1>6
<1>8. (h \o m)[1] = Header /\ Len(h \o m) = Words + 1
  BY <1>2, <1>4, <1>5
<1> QED BY <1>1, <1>3, <1>5, <1>7, <1>8

LEMMA PlansTyped ==
  ASSUME NEW b \in Nat
  PROVE  Plans(b) \subseteq Seq(StreamItems)
<1>1. PICK h : h = <<Header>> \o Message(b)
  OBVIOUS
<1>2. h \in Seq(Nat)
  BY <1>1, ReplyTyped
<1>3. \A c \in CallLists : CallItems(c) \in Seq(StreamItems)
  BY CallListsTyped, CallItemsTyped
<1>4. Deltas(h) \in Seq(StreamItems)
  BY <1>2, DeltasTyped
<1>5. \A c \in CallLists : Deltas(h) \o CallItems(c) \in Seq(StreamItems)
  BY <1>3, <1>4, ConcatProperties
<1>6. <<[text |-> Json(b), calls |-> <<>>]>> \in Seq(StreamItems)
  <2>1. [text |-> Json(b), calls |-> <<>>] \in StreamItems
    BY MessageTyped DEF Json, StreamItems
  <2> QED BY <2>1
<1> QED BY <1>1, <1>3, <1>4, <1>5, <1>6 DEF Plans

LEMMA BodyTyped ==
  ASSUME NEW text \in Seq(Nat)
  PROVE  Body(text) \in Seq(Nat)
BY HeadTyped DEF Body, Parsed

LEMMA PrefixTyped ==
  ASSUME NEW S, NEW s \in Seq(S), NEW m \in Nat \ {0}, NEW n \in Nat, n <= Len(s)
  PROVE  /\ SubSeq(s, m, n) \in Seq(S)
         /\ Len(SubSeq(s, m, n)) = IF m <= n THEN n - m + 1 ELSE 0
         /\ \A i \in 1..(n - m + 1) : SubSeq(s, m, n)[i] = s[m + i - 1]
<1>1. Len(s) \in Nat /\ \A i \in 1..Len(s) : s[i] \in S
  BY LenProperties, ElementOfSeq
<1>2. m \in Int /\ n \in Int /\ \A i \in m..n : s[i] \in S
  BY <1>1
<1>3. /\ SubSeq(s, m, n) \in Seq(S)
      /\ Len(SubSeq(s, m, n)) = IF m <= n THEN n - m + 1 ELSE 0
      /\ \A i \in 1..n - m + 1 : SubSeq(s, m, n)[i] = s[m + i - 1]
  BY <1>2, SubSeqProperties
<1> QED BY <1>3

Gates == [started : BOOLEAN, raw : Seq(Nat), public : Seq(Nat),
          allowed : {"unasked", "yes", "no"}, disabled : BOOLEAN]

LEMMA PublishableTyped ==
  ASSUME NEW r \in Gates, NEW raw \in Seq(Nat), NEW partial \in BOOLEAN, NEW ok \in BOOLEAN,
         NEW held \in Nat, held <= Len(Body(raw))
  PROVE  Publishable(r, raw, partial, ok, held) \in Gates
<1>1. PICK body : body = Body(raw)
  OBVIOUS
<1>2. body \in Seq(Nat)
  BY <1>1, BodyTyped
<1>3. PICK public : public = IF partial THEN SubSeq(body, 1, held) ELSE body
  OBVIOUS
<1>4. public \in Seq(Nat)
  BY <1>1, <1>2, <1>3, PrefixTyped
<1>5. PICK allowed : allowed = IF r.allowed = "unasked" THEN (IF ok THEN "yes" ELSE "no")
                               ELSE r.allowed
  OBVIOUS
<1>6. Publishable(r, raw, partial, ok, held) =
        IF ~Parsed(raw) \/ body = <<>> THEN [r EXCEPT !.raw = raw]
        ELSE IF allowed = "no" THEN [r EXCEPT !.raw = raw, !.allowed = "no"]
        ELSE [r EXCEPT !.raw = raw, !.allowed = "yes", !.public = public,
                       !.started = @ \/ public # r.public]
  BY <1>1, <1>3, <1>5 DEF Publishable
<1>7. [r EXCEPT !.raw = raw] \in Gates
  BY DEF Gates
<1>8. [r EXCEPT !.raw = raw, !.allowed = "no"] \in Gates
  BY DEF Gates
<1>9. [r EXCEPT !.raw = raw, !.allowed = "yes", !.public = public,
                !.started = @ \/ public # r.public] \in Gates
  BY <1>4 DEF Gates
<1> QED BY <1>6, <1>7, <1>8, <1>9

LEMMA DeltaTyped ==
  ASSUME NEW old \in Gates, NEW new \in Gates
  PROVE  Delta(old, new) \in Seq(Nat)
<1>1. PICK s : s = new.public
  OBVIOUS
<1>2. s \in Seq(Nat) /\ Len(s) \in Nat /\ Len(old.public) \in Nat
  BY <1>1, LenProperties DEF Gates
<1>3. SubSeq(s, Len(old.public) + 1, Len(s)) \in Seq(Nat)
  BY <1>2, PrefixTyped
<1> QED BY <1>1, <1>3 DEF Delta

LEMMA FrontAndLast ==
  ASSUME NEW S, NEW s \in Seq(S), NEW e \in S
  PROVE  Front(Append(s, e)) = s /\ Last(Append(s, e)) = e
<1>1. PICK t : t = Append(s, e)
  OBVIOUS
<1>2. /\ t \in Seq(S) /\ Len(t) = Len(s) + 1 /\ t[Len(s) + 1] = e
      /\ \A i \in 1..Len(s) : t[i] = s[i] /\ Len(s) \in Nat
  BY <1>1, AppendProperties, LenProperties
<1>3. Front(t) = SubSeq(t, 1, Len(s))
  BY <1>2 DEF Front
<1>4. /\ SubSeq(t, 1, Len(s)) \in Seq(S)
      /\ Len(SubSeq(t, 1, Len(s))) = Len(s)
      /\ \A i \in 1..Len(s) : SubSeq(t, 1, Len(s))[i] = t[i]
  <2>1. Len(s) \in Nat /\ Len(s) <= Len(t)
    BY <1>2, LenProperties
  <2> QED BY <1>2, <2>1, PrefixTyped
<1>5. SubSeq(t, 1, Len(s)) = s
  BY <1>2, <1>4, SeqEqual
<1>6. Last(t) = e
  BY <1>2 DEF Last
<1> QED BY <1>1, <1>3, <1>5, <1>6

LEMMA FrontTyped ==
  ASSUME NEW S, NEW s \in Seq(S), s # <<>>
  PROVE  Front(s) \in Seq(S) /\ Last(s) \in S
<1>1. Len(s) \in Nat \ {0}
  BY EmptySeq
<1>2. SubSeq(s, 1, Len(s) - 1) \in Seq(S)
  BY <1>1, PrefixTyped
<1> QED BY <1>1, <1>2, ElementOfSeq DEF Front, Last

(* What a text adds to the public events.                                    *)
LEMMA TextPushed ==
  ASSUME NEW s \in Streams, s.open => s.shown # <<>>, NEW text \in Seq(Nat),
         NEW partial \in BOOLEAN
  PROVE  LET next == PushText(s, text, partial) IN
         /\ next \in Streams /\ (next.open => next.shown # <<>>)
         /\ next.calls = s.calls /\ next.pending = s.pending /\ next.last = s.last
         /\ text = <<>> => next = s
         /\ text # <<>> =>
               /\ next.open = partial
               /\ next.shown = Append(IF s.open THEN Front(s.shown) ELSE s.shown,
                                      ActiveText(s) \o NewPart(s, text, partial))
<1>1. PICK new : new = NewPart(s, text, partial)
  OBVIOUS
<1>2. s.shown \in Seq(Seq(Nat)) /\ s.open \in BOOLEAN
  BY DEF Streams
<1>3. PICK a : a = ActiveText(s)
  OBVIOUS
<1>4. a \in Seq(Nat)
  BY <1>2, <1>3, FrontTyped DEF ActiveText
<1>5. new \in Seq(Nat)
  <2>1. Len(a) \in Nat /\ Len(text) \in Nat
    BY <1>4, LenProperties
  <2>2. SubSeq(text, Len(a) + 1, Len(text)) \in Seq(Nat)
    BY <2>1, PrefixTyped
  <2> QED BY <1>1, <1>3, <2>2 DEF NewPart
<1>6. PICK before : before = IF s.open THEN Front(s.shown) ELSE s.shown
  OBVIOUS
<1>7. before \in Seq(Seq(Nat))
  BY <1>2, <1>6, FrontTyped
<1>8. a \o new \in Seq(Nat)
  BY <1>4, <1>5, ConcatProperties
<1>9. Append(before, a \o new) \in Seq(Seq(Nat)) /\ Append(before, a \o new) # <<>>
  BY <1>7, <1>8, AppendProperties
<1>10. text # <<>> => PushText(s, text, partial) =
                        [s EXCEPT !.open = partial, !.shown = Append(before, a \o new)]
  BY <1>1, <1>3, <1>6 DEF PushText
<1>11. text = <<>> => PushText(s, text, partial) = s
  BY DEF PushText
<1>12. CASE text = <<>>
  BY <1>11, <1>12
<1>13. CASE text # <<>>
  <2>1. PICK next : next = [s EXCEPT !.open = partial, !.shown = Append(before, a \o new)]
    OBVIOUS
  <2>2. next \in Streams
    BY <1>9, <2>1 DEF Streams
  <2>3. next.open = partial /\ next.shown = Append(before, a \o new) /\ next.calls = s.calls
        /\ next.pending = s.pending /\ next.last = s.last
    BY <2>1 DEF Streams
  <2> QED BY <1>1, <1>3, <1>6, <1>9, <1>10, <1>13, <2>1, <2>2, <2>3
<1> QED BY <1>12, <1>13

LEMMA MessageClosed ==
  ASSUME NEW s \in Streams
  PROVE  /\ CloseMessage(s) \in Streams /\ CloseMessage(s).open = FALSE
         /\ CloseMessage(s).shown = s.shown /\ CloseMessage(s).calls = s.calls
         /\ CloseMessage(s).pending = s.pending /\ CloseMessage(s).last = s.last
BY DEF CloseMessage, Streams

LEMMA CallPushed ==
  ASSUME NEW s \in Streams, NEW called \in [raw : RawIds, args : Args, turn : Nat]
  PROVE  LET next == PushCall(s, called) IN
         /\ next \in Streams /\ ~next.open /\ next.shown = s.shown
         /\ s.pending[called.raw] # NoCall => next.calls = s.calls /\ next.pending = s.pending
         /\ s.pending[called.raw] = NoCall =>
              /\ next.calls = Append(s.calls, [raw |-> called.raw, args |-> called.args,
                                               turn |-> called.turn, answer |-> Unanswered])
              /\ next.pending = [s.pending EXCEPT ![called.raw] = Len(s.calls) + 1]
<1>1. CASE s.pending[called.raw] # NoCall
  BY <1>1, MessageClosed DEF PushCall
<1>2. CASE s.pending[called.raw] = NoCall
  <2>1. PICK new : new = [raw |-> called.raw, args |-> called.args, turn |-> called.turn,
                          answer |-> Unanswered]
    OBVIOUS
  <2>2. new \in PublicCalls
    <3>1. Unanswered \in Seq(PublicResults)
      BY DEF Unanswered
    <3> QED BY <2>1, <3>1 DEF PublicCalls
  <2>3. s.calls \in Seq(PublicCalls) /\ Append(s.calls, new) \in Seq(PublicCalls)
        /\ Len(s.calls) \in Nat
    BY <2>2, LenProperties, AppendProperties DEF Streams
  <2>4. PICK c : c = CloseMessage(s)
    OBVIOUS
  <2>5. c \in Streams /\ c.open = FALSE /\ c.shown = s.shown /\ c.calls = s.calls
        /\ c.pending = s.pending /\ c.last = s.last
    BY <2>4, MessageClosed
  <2>6. PushCall(s, called) = [c EXCEPT !.calls = Append(s.calls, new),
                                      !.pending = [s.pending EXCEPT ![called.raw] = Len(s.calls) + 1],
                                      !.last = [s.last EXCEPT ![called.raw] = NoCall]]
    BY <1>2, <2>1, <2>4, <2>5 DEF PushCall
  <2>7. [s.pending EXCEPT ![called.raw] = Len(s.calls) + 1] \in [RawIds -> Nat]
        /\ [s.last EXCEPT ![called.raw] = NoCall] \in [RawIds -> Nat]
    BY <2>3 DEF Streams, NoCall
  <2> QED BY <1>2, <2>1, <2>3, <2>5, <2>6, <2>7 DEF Streams
<1> QED BY <1>1, <1>2

LEMMA LeastExists ==
  ASSUME NEW T \in SUBSET Nat, T # {}
  PROVE  \E n \in T : \A m \in T : n <= m
<1>1. IsWellFoundedOn(OpToRel(<, Nat), Nat)
  BY NatLessThanWellFounded
<1>2. PICK R : R = OpToRel(<, Nat)
  OBVIOUS
<1>3. \E x \in T : \A y \in T : ~ (<<y, x>> \in R)
  BY <1>1, <1>2, WFMin
<1>4. \A x, y \in T : <<y, x>> \in R <=> y < x
  BY <1>2 DEF OpToRel
<1>5. PICK x \in T : \A y \in T : ~ (y < x)
  BY <1>3, <1>4
<1>6. \A y \in T : y \in Nat /\ x \in Nat
  OBVIOUS
<1> QED BY <1>5, <1>6

LEMMA InductionOnSet ==
  ASSUME NEW T \in SUBSET Nat, 0 \in T, \A n \in T : n + 1 \in T
  PROVE  T = Nat
<1> SUFFICES ASSUME T # Nat PROVE FALSE
  OBVIOUS
<1>1. PICK n \in Nat \ T : \A m \in Nat \ T : n <= m
  BY LeastExists
<1>2. n - 1 \in T
  BY <1>1
<1>3. n \in T
  BY <1>1, <1>2
<1> QED BY <1>1, <1>3

LEMMA MaxIs ==
  ASSUME NEW S \in SUBSET Int, NEW m \in S, \A y \in S : m >= y
  PROVE  Max(S) = m
<1>1. \A x \in S : (\A y \in S : x >= y) => x = m
  OBVIOUS
<1> QED BY <1>1 DEF Max

-----------------------------------------------------------------------------
(* The results of a turn, one after the other.                             *)

LEMMA ResultPushed ==
  ASSUME NEW s \in Streams, NEW result \in PublicResults
  PROVE  LET next == PushResult(s, result)
             p == s.pending[result.raw] IN
         /\ next \in Streams /\ ~next.open /\ next.shown = s.shown
         /\ DOMAIN next.calls = DOMAIN s.calls
         /\ \A i \in DOMAIN s.calls :
              /\ next.calls[i].raw = s.calls[i].raw /\ next.calls[i].args = s.calls[i].args
              /\ next.calls[i].turn = s.calls[i].turn
              /\ next.calls[i].answer = IF p # NoCall /\ i = p THEN <<result>>
                                        ELSE s.calls[i].answer
         /\ next.pending = [s.pending EXCEPT ![result.raw] = NoCall]
<1>1. PICK c : c = CloseMessage(s)
  OBVIOUS
<1>2. c \in Streams /\ c.open = FALSE /\ c.shown = s.shown /\ c.calls = s.calls
      /\ c.pending = s.pending /\ c.last = s.last
  BY <1>1, MessageClosed
<1>3. PICK p : p = s.pending[result.raw]
  OBVIOUS
<1>4. result.raw \in RawIds /\ p \in Nat
  BY <1>3 DEF Streams, PublicResults
<1>5. CASE p # NoCall
  <2>1. PICK more : more = [s.calls EXCEPT ![p].answer = <<result>>]
    OBVIOUS
  <2>2. <<result>> \in Seq(PublicResults)
    OBVIOUS
  <2>3. s.calls \in Seq(PublicCalls) /\ Len(s.calls) \in Nat /\ DOMAIN s.calls = 1..Len(s.calls)
        /\ \A i \in DOMAIN s.calls : s.calls[i] \in PublicCalls
    BY LenProperties, ElementOfSeq DEF Streams
  <2>4. DOMAIN more = DOMAIN s.calls
        /\ \A i \in DOMAIN s.calls :
             more[i] = IF i = p THEN [s.calls[i] EXCEPT !.answer = <<result>>] ELSE s.calls[i]
    BY <2>1, <2>3
  <2>5. \A i \in DOMAIN s.calls : [s.calls[i] EXCEPT !.answer = <<result>>] \in PublicCalls
    BY <2>2, <2>3 DEF PublicCalls
  <2>6. more \in [1..Len(s.calls) -> PublicCalls]
    BY <2>1, <2>3, <2>4, <2>5
  <2>7. more \in Seq(PublicCalls)
    BY <2>3, <2>6
  <2>8. PICK next : next = [c EXCEPT !.calls = more,
                                     !.last = [s.last EXCEPT ![result.raw] = p],
                                     !.pending = [s.pending EXCEPT ![result.raw] = NoCall]]
    OBVIOUS
  <2>9. PushResult(s, result) = next
    BY <1>1, <1>2, <1>3, <1>5, <2>1, <2>8 DEF PushResult
  <2>10. [s.pending EXCEPT ![result.raw] = NoCall] \in [RawIds -> Nat]
         /\ [s.last EXCEPT ![result.raw] = p] \in [RawIds -> Nat]
    BY <1>4 DEF Streams, NoCall
  <2>11. next \in Streams
    BY <1>2, <2>7, <2>8, <2>10 DEF Streams
  <2>12. ~next.open /\ next.shown = s.shown /\ next.calls = more
         /\ next.pending = [s.pending EXCEPT ![result.raw] = NoCall]
    BY <1>2, <2>8 DEF Streams
  <2>13. \A i \in DOMAIN s.calls :
              /\ more[i].raw = s.calls[i].raw /\ more[i].args = s.calls[i].args
              /\ more[i].turn = s.calls[i].turn
              /\ more[i].answer = IF i = p THEN <<result>> ELSE s.calls[i].answer
    BY <2>3, <2>4 DEF PublicCalls
  <2> QED BY <1>3, <1>5, <2>4, <2>9, <2>11, <2>12, <2>13
<1>6. CASE p = NoCall
  <2>1. PushResult(s, result) = c
    BY <1>1, <1>3, <1>6 DEF PushResult
  <2>2. [s.pending EXCEPT ![result.raw] = NoCall] = s.pending
    BY <1>3, <1>4, <1>6 DEF Streams
  <2> QED BY <1>2, <1>3, <1>6, <2>1, <2>2
<1> QED BY <1>5, <1>6

(* The steps of the fold in YieldResults.                                    *)
LEMMA ResultsFolded ==
  ASSUME tools \in Seq(TurnTools)
  PROVE  \E s : /\ s[0] = stream
                /\ \A n \in 1..Len(tools) : s[n] = PushResult(s[n - 1], ResultOf(tools[n]))
                /\ FoldLeft(LAMBDA a, tool : PushResult(a, ResultOf(tool)), stream, tools)
                     = s[Len(tools)]
<1> DEFINE Folds(g, n) ==
      g = [S \in SUBSET (1..n) |-> IF S = {} THEN stream
                                   ELSE PushResult(g[S \ {Max(S)}], ResultOf(tools[Max(S)]))]
<1> DEFINE T == {n \in Nat : \E g : Folds(g, n)}
<1>1. 0 \in T
  <2>1. PICK g : g = [S \in SUBSET (1..0) |-> stream]
    OBVIOUS
  <2>2. \A S \in SUBSET (1..0) : S = {}
    OBVIOUS
  <2>3. Folds(g, 0)
    BY <2>1, <2>2
  <2> QED BY <2>3
<1>2. ASSUME NEW n \in T PROVE n + 1 \in T
  <2>1. n \in Nat /\ \E g : Folds(g, n)
    BY <1>2
  <2>2. PICK g : Folds(g, n)
    BY <2>1
  <2>3. \A S \in SUBSET (1..n) :
           g[S] = IF S = {} THEN stream
                  ELSE PushResult(g[S \ {Max(S)}], ResultOf(tools[Max(S)]))
    BY <2>2
  <2>4. PICK h : h = [S \in SUBSET (1..(n + 1)) |->
                        IF n + 1 \in S THEN PushResult(g[S \ {n + 1}], ResultOf(tools[n + 1]))
                        ELSE g[S]]
    OBVIOUS
  <2>5. \A S \in SUBSET (1..(n + 1)) : n + 1 \in S => Max(S) = n + 1
    <3> SUFFICES ASSUME NEW S \in SUBSET (1..(n + 1)), n + 1 \in S PROVE Max(S) = n + 1
      OBVIOUS
    <3>1. S \in SUBSET Int /\ \A y \in S : n + 1 >= y
      BY <2>1
    <3> QED BY <3>1, MaxIs
  <2>6. \A S \in SUBSET (1..(n + 1)) : n + 1 \notin S => S \in SUBSET (1..n)
    BY <2>1
  <2>7. \A S \in SUBSET (1..(n + 1)) :
           h[S] = IF S = {} THEN stream
                  ELSE PushResult(h[S \ {Max(S)}], ResultOf(tools[Max(S)]))
    <3> SUFFICES ASSUME NEW S \in SUBSET (1..(n + 1))
                 PROVE  h[S] = IF S = {} THEN stream
                               ELSE PushResult(h[S \ {Max(S)}], ResultOf(tools[Max(S)]))
      OBVIOUS
    <3>1. CASE n + 1 \in S
      <4>1. PICK U : U = S \ {n + 1}
        OBVIOUS
      <4>2. U \in SUBSET (1..(n + 1)) /\ n + 1 \notin U
        BY <4>1
      <4>3. h[U] = g[U]
        BY <2>4, <4>2
      <4>4. h[S] = PushResult(g[U], ResultOf(tools[n + 1]))
        BY <2>4, <3>1, <4>1
      <4>5. Max(S) = n + 1 /\ S # {}
        BY <2>5, <3>1
      <4> QED BY <4>1, <4>3, <4>4, <4>5
    <3>2. CASE n + 1 \notin S
      <4>1. S \in SUBSET (1..n) /\ h[S] = g[S]
        BY <2>4, <2>6, <3>2
      <4>2. PICK U : U = S \ {Max(S)}
        OBVIOUS
      <4>3. U \in SUBSET (1..(n + 1)) /\ n + 1 \notin U
        BY <3>2, <4>2
      <4>4. h[U] = g[U]
        BY <2>4, <4>3
      <4> QED BY <2>3, <4>1, <4>2, <4>4
    <3> QED BY <3>1, <3>2
  <2>8. DOMAIN h = SUBSET (1..(n + 1)) /\ h = [S \in DOMAIN h |-> h[S]]
    BY <2>4
  <2>9. Folds(h, n + 1)
    BY <2>7, <2>8
  <2>10. \E f : Folds(f, n + 1)
    <3> HIDE DEF Folds
    <3> QED BY <2>9
  <2>11. n + 1 \in Nat
    BY <2>1
  <2> HIDE DEF Folds
  <2> QED BY <2>10, <2>11
<1>3. T = Nat
  <2> HIDE DEF T
  <2>1. T \in SUBSET Nat
    BY DEF T
  <2> QED BY <1>1, <1>2, <2>1, InductionOnSet
<1>4. PICK N : N = Len(tools)
  OBVIOUS
<1>5. N \in Nat /\ DOMAIN tools = 1..N
  BY <1>4, LenProperties
<1>6. PICK g : g = CHOOSE f : Folds(f, N)
  OBVIOUS
<1>7. Folds(g, N)
  BY <1>3, <1>5, <1>6
<1>8. FoldLeft(LAMBDA a, tool : PushResult(a, ResultOf(tool)), stream, tools) = g[1..N]
  BY <1>5, <1>6, Zenon DEF FoldLeft, MapThenFoldSet
<1>9. \A S \in SUBSET (1..N) :
           g[S] = IF S = {} THEN stream
                  ELSE PushResult(g[S \ {Max(S)}], ResultOf(tools[Max(S)]))
  BY <1>7
<1>10. PICK s : s = [n \in 0..N |-> g[1..n]]
  OBVIOUS
<1>11. s[0] = stream
  <2>1. 0 \in 0..N /\ 1..0 = {}
    BY <1>5
  <2>2. s[0] = g[{}]
    BY <1>10, <2>1
  <2> QED BY <1>9, <2>2
<1>12. \A n \in 1..N : s[n] = PushResult(s[n - 1], ResultOf(tools[n]))
  <2> SUFFICES ASSUME NEW n \in 1..N
               PROVE  s[n] = PushResult(s[n - 1], ResultOf(tools[n]))
    OBVIOUS
  <2>1. PICK S : S = 1..n
    OBVIOUS
  <2>2. S \in SUBSET (1..N) /\ n \in S /\ S \ {n} = 1..(n - 1) /\ n \in 0..N /\ n - 1 \in 0..N
    BY <1>5, <2>1
  <2>3. Max(S) = n
    <3>1. S \in SUBSET Int /\ n \in S /\ \A y \in S : n >= y
      BY <1>5, <2>1
    <3> QED BY <3>1, MaxIs
  <2>4. s[n] = g[S] /\ s[n - 1] = g[S \ {n}]
    BY <1>10, <2>1, <2>2
  <2> QED BY <1>9, <2>2, <2>3, <2>4
<1>13. s[N] = g[1..N]
  BY <1>5, <1>10
<1> QED BY <1>4, <1>8, <1>11, <1>12, <1>13

LEMMA ResultTyped ==
  ASSUME NEW tool \in TurnTools, turn \in Nat
  PROVE  ResultOf(tool) \in PublicResults /\ ResultOf(tool).raw = tool.raw
         /\ ResultOf(tool).args = tool.args /\ ResultOf(tool).turn = turn
BY DEF ResultOf, PublicResults, TurnTools

LEMMA ResultsTyped ==
  ASSUME tools \in Seq(TurnTools), stream \in Streams, turn \in Nat, NEW s, s[0] = stream,
         \A n \in 1..Len(tools) : s[n] = PushResult(s[n - 1], ResultOf(tools[n]))
  PROVE  \A n \in 0..Len(tools) :
            s[n] \in Streams /\ s[n].shown = stream.shown /\ (s[n].open => stream.open)
<1>1. PICK N : N = Len(tools)
  OBVIOUS
<1>2. N \in Nat /\ \A n \in 1..N : tools[n] \in TurnTools
  BY <1>1, LenProperties, ElementOfSeq
<1> DEFINE Good(n) == s[n] \in Streams /\ s[n].shown = stream.shown /\ (s[n].open => stream.open)
<1> DEFINE T == {n \in Nat : n <= N => Good(n)}
<1>3. 0 \in T
  OBVIOUS
<1>4. ASSUME NEW n \in T PROVE n + 1 \in T
  <2> SUFFICES ASSUME n + 1 <= N PROVE Good(n + 1)
    BY <1>4
  <2>1. n \in Nat /\ n <= N /\ n + 1 \in 1..N /\ (n + 1) - 1 = n
    BY <1>2, <1>4
  <2>2. Good(n)
    BY <1>4, <2>1
  <2>3. PICK r : r = ResultOf(tools[n + 1])
    OBVIOUS
  <2>4. r \in PublicResults
    BY <1>2, <2>1, <2>3, ResultTyped
  <2>5. s[n + 1] = PushResult(s[n], r)
    BY <1>1, <2>1, <2>3
  <2>6. PICK old : old = s[n]
    OBVIOUS
  <2>7. PICK new : new = PushResult(old, r)
    OBVIOUS
  <2>8. old \in Streams /\ old.shown = stream.shown
    BY <2>2, <2>6
  <2>9. new \in Streams /\ ~new.open /\ new.shown = old.shown
    BY <2>4, <2>7, <2>8, ResultPushed
  <2>10. s[n + 1] = new
    BY <2>5, <2>6, <2>7
  <2> QED BY <2>8, <2>9, <2>10
<1>5. T = Nat
  <2>1. T \in SUBSET Nat
    OBVIOUS
  <2> HIDE DEF T
  <2> QED BY <1>3, <1>4, <2>1, InductionOnSet
<1>6. \A n \in 0..N : Good(n)
  BY <1>2, <1>5
<1> QED BY <1>1, <1>6

LEMMA ResultsAnswer ==
  ASSUME TurnTyped, Answered, at = "tools", NEW s, s[0] = stream,
         \A n \in 1..Len(tools) : s[n] = PushResult(s[n - 1], ResultOf(tools[n]))
  PROVE  LET last == s[Len(tools)] IN
         /\ \A r \in RawIds : last.pending[r] = NoCall
         /\ \A i \in DOMAIN last.calls : WellAnswered(last.calls[i])
                                         /\ last.calls[i].answer # Unanswered
<1>1. PICK N : N = Len(tools)
  OBVIOUS
<1>2. N \in Nat /\ DOMAIN tools = 1..N /\ turn \in Nat
      /\ \A n \in 1..N : tools[n] \in TurnTools /\ tools[n].raw \in RawIds
  <2>1. tools \in Seq(TurnTools) /\ turn \in Nat
    BY DEF TurnTyped
  <2>2. N \in Nat /\ DOMAIN tools = 1..N /\ \A n \in 1..N : tools[n] \in TurnTools
    BY <1>1, <2>1, LenProperties, ElementOfSeq
  <2> QED BY <2>1, <2>2 DEF TurnTools
<1>3. /\ \A i \in DOMAIN stream.calls : WellAnswered(stream.calls[i])
      /\ \A r \in RawIds : stream.pending[r] # NoCall => \E n \in 1..N : tools[n].raw = r
      /\ \A n \in 1..N :
            LET p == stream.pending[tools[n].raw] IN
            /\ p \in DOMAIN stream.calls /\ p # NoCall
            /\ stream.calls[p].raw = tools[n].raw /\ stream.calls[p].args = tools[n].args
            /\ stream.calls[p].turn = turn
      /\ \A i \in DOMAIN stream.calls :
            stream.calls[i].answer = Unanswered => stream.pending[stream.calls[i].raw] = i
  <2>1. DOMAIN tools = DOMAIN acc.calls
        /\ \A n \in 1..N : tools[n].raw = acc.calls[n].raw /\ tools[n].args = acc.calls[n].args
    BY <1>2 DEF Answered
  <2>2. Awaited = acc.calls
    BY DEF Awaited
  <2>3. DOMAIN stream.calls = 1..Len(stream.calls)
    BY LenProperties DEF TurnTyped, Streams
  <2>4. \A r \in RawIds : stream.pending[r] # NoCall => \E n \in 1..N : tools[n].raw = r
    <3>1. \A r \in RawIds : stream.pending[r] # NoCall =>
             \E c \in DOMAIN acc.calls : acc.calls[c].raw = r
      BY <2>2 DEF Answered
    <3> QED BY <1>2, <2>1, <3>1
  <2>5. ASSUME NEW n \in 1..N, NEW p, p = stream.pending[tools[n].raw]
        PROVE  /\ p \in DOMAIN stream.calls
               /\ stream.calls[p].raw = tools[n].raw /\ stream.calls[p].args = tools[n].args
               /\ stream.calls[p].turn = turn
    <3>1. n \in DOMAIN acc.calls /\ p = stream.pending[acc.calls[n].raw]
      BY <1>2, <2>1, <2>5
    <3>2. /\ p \in DOMAIN stream.calls
          /\ stream.calls[p].raw = acc.calls[n].raw /\ stream.calls[p].args = acc.calls[n].args
          /\ stream.calls[p].turn = turn
      BY <2>2, <3>1 DEF Answered
    <3> QED BY <2>1, <3>2
  <2>6. NoCall \notin DOMAIN stream.calls
    BY <2>3 DEF NoCall
  <2>7. \A i \in DOMAIN stream.calls :
            stream.calls[i].answer = Unanswered => stream.pending[stream.calls[i].raw] = i
    BY DEF Answered
  <2>8. \A i \in DOMAIN stream.calls : WellAnswered(stream.calls[i])
    BY DEF Answered
  <2> QED BY <2>4, <2>5, <2>6, <2>7, <2>8
<1> DEFINE Good(n) ==
      /\ DOMAIN s[n].calls = DOMAIN stream.calls
      /\ \A i \in DOMAIN stream.calls :
            /\ WellAnswered(s[n].calls[i])
            /\ s[n].calls[i].raw = stream.calls[i].raw
            /\ s[n].calls[i].args = stream.calls[i].args
            /\ s[n].calls[i].turn = stream.calls[i].turn
            /\ s[n].calls[i].answer = Unanswered => s[n].pending[stream.calls[i].raw] = i
      /\ \A r \in RawIds : s[n].pending[r] = IF \E m \in 1..n : tools[m].raw = r THEN NoCall
                                             ELSE stream.pending[r]
<1> DEFINE T == {n \in Nat : n <= N => Good(n)}
<1>4. 0 \in T
  BY <1>3
<1>5. ASSUME NEW n \in T PROVE n + 1 \in T
  <2> SUFFICES ASSUME n + 1 <= N PROVE Good(n + 1)
    BY <1>5
  <2>1. n \in Nat /\ n <= N /\ n + 1 \in 1..N /\ (n + 1) - 1 = n /\ n \in 0..N
        /\ 1..(n + 1) = 1..n \cup {n + 1} /\ 1..n \subseteq 1..N /\ n + 1 \notin 1..n
    BY <1>2, <1>5
  <2>2. Good(n)
    BY <1>5, <2>1
  <2>3. PICK result : result = ResultOf(tools[n + 1])
    OBVIOUS
  <2>4. PICK tool : tool = tools[n + 1]
    OBVIOUS
  <2>5. result \in PublicResults /\ result.raw = tool.raw /\ result.args = tool.args
        /\ result.turn = turn /\ tool.raw \in RawIds
    BY <1>2, <2>1, <2>3, <2>4, ResultTyped
  <2>6. PICK old : old = s[n]
    OBVIOUS
  <2>7. PICK new : new = s[n + 1]
    OBVIOUS
  <2>8. new = PushResult(old, result)
    BY <1>1, <2>1, <2>3, <2>6, <2>7
  <2>9. old \in Streams
    BY <1>1, <2>1, <2>6, ResultsTyped DEF TurnTyped
  <2>10. /\ DOMAIN new.calls = DOMAIN old.calls
         /\ \A i \in DOMAIN old.calls :
              /\ new.calls[i].raw = old.calls[i].raw /\ new.calls[i].args = old.calls[i].args
              /\ new.calls[i].turn = old.calls[i].turn
              /\ new.calls[i].answer = IF old.pending[tool.raw] # NoCall
                                          /\ i = old.pending[tool.raw] THEN <<result>>
                                       ELSE old.calls[i].answer
         /\ new.pending = [old.pending EXCEPT ![tool.raw] = NoCall]
         /\ DOMAIN old.pending = RawIds
    <3>1. PICK next : next = PushResult(old, result)
      OBVIOUS
    <3>2. PICK q : q = old.pending[result.raw]
      OBVIOUS
    <3>3. /\ DOMAIN next.calls = DOMAIN old.calls
          /\ \A i \in DOMAIN old.calls :
              /\ next.calls[i].raw = old.calls[i].raw /\ next.calls[i].args = old.calls[i].args
              /\ next.calls[i].turn = old.calls[i].turn
              /\ next.calls[i].answer = IF q # NoCall /\ i = q THEN <<result>>
                                        ELSE old.calls[i].answer
          /\ next.pending = [old.pending EXCEPT ![result.raw] = NoCall]
      BY <2>5, <2>9, <3>1, <3>2, ResultPushed
    <3>4. DOMAIN old.pending = RawIds
      BY <2>9 DEF Streams
    <3> QED BY <2>5, <2>8, <3>1, <3>2, <3>3, <3>4
  <2>11. \A m \in 1..n : tools[m].raw # tool.raw
    BY <1>2, <2>1, <2>4 DEF TurnTyped, DistinctCalls
  <2>12. PICK p : p = stream.pending[tool.raw]
    OBVIOUS
  <2>13. old.pending[tool.raw] = p /\ p # NoCall /\ p \in DOMAIN stream.calls
         /\ stream.calls[p].raw = tool.raw /\ stream.calls[p].args = tool.args
         /\ stream.calls[p].turn = turn
    BY <1>3, <2>1, <2>2, <2>4, <2>5, <2>6, <2>11, <2>12
  <2>14. DOMAIN old.calls = DOMAIN stream.calls
    BY <2>2, <2>6
  <2>15. ASSUME NEW i \in DOMAIN stream.calls
         PROVE  /\ WellAnswered(new.calls[i])
                /\ new.calls[i].raw = stream.calls[i].raw
                /\ new.calls[i].args = stream.calls[i].args
                /\ new.calls[i].turn = stream.calls[i].turn
                /\ new.calls[i].answer = Unanswered => new.pending[stream.calls[i].raw] = i
    <3>1. /\ WellAnswered(old.calls[i])
          /\ old.calls[i].raw = stream.calls[i].raw
          /\ old.calls[i].args = stream.calls[i].args
          /\ old.calls[i].turn = stream.calls[i].turn
          /\ old.calls[i].answer = Unanswered => old.pending[stream.calls[i].raw] = i
      BY <2>2, <2>6
    <3>2. new.calls[i].raw = stream.calls[i].raw
          /\ new.calls[i].args = stream.calls[i].args
          /\ new.calls[i].turn = stream.calls[i].turn
      BY <2>10, <2>14, <3>1
    <3>3. CASE i = p
      <4>1. new.calls[i].answer = <<result>>
        BY <2>10, <2>13, <2>14, <3>3
      <4>2. new.calls[i].answer # Unanswered /\ Head(new.calls[i].answer) = result
        BY <4>1 DEF Unanswered
      <4> QED BY <2>5, <2>13, <3>2, <3>3, <4>2 DEF WellAnswered
    <3>4. CASE i # p
      <4>1. new.calls[i].answer = old.calls[i].answer
        BY <2>10, <2>13, <2>14, <3>4
      <4>2. WellAnswered(new.calls[i])
        BY <3>1, <3>2, <4>1 DEF WellAnswered
      <4>3. ASSUME new.calls[i].answer = Unanswered
            PROVE  new.pending[stream.calls[i].raw] = i
        <5>1. old.pending[stream.calls[i].raw] = i
          BY <3>1, <4>1, <4>3
        <5>2. stream.calls[i].raw # tool.raw
          BY <2>13, <3>4, <5>1
        <5>3. stream.calls[i].raw \in RawIds
          <6>1. stream.calls \in Seq(PublicCalls)
            BY DEF TurnTyped, Streams
          <6>2. stream.calls[i] \in PublicCalls
            BY <6>1, LenProperties, ElementOfSeq
          <6> QED BY <6>2 DEF PublicCalls
        <5> QED BY <2>10, <5>1, <5>2, <5>3
      <4> QED BY <3>2, <4>2, <4>3
    <3> QED BY <3>3, <3>4
  <2>16. \A r \in RawIds : new.pending[r] = IF \E m \in 1..(n + 1) : tools[m].raw = r THEN NoCall
                                            ELSE stream.pending[r]
    BY <2>1, <2>2, <2>4, <2>6, <2>10
  <2> QED BY <2>7, <2>10, <2>14, <2>15, <2>16
<1>6. T = Nat
  <2>1. T \in SUBSET Nat
    OBVIOUS
  <2> HIDE DEF T
  <2> QED BY <1>4, <1>5, <2>1, InductionOnSet
<1>7. Good(N)
  BY <1>2, <1>6
<1>8. PICK last : last = s[N]
  OBVIOUS
<1>9. \A r \in RawIds : last.pending[r] = NoCall
  BY <1>3, <1>7, <1>8
<1>10. \A i \in DOMAIN last.calls : WellAnswered(last.calls[i])
                                    /\ last.calls[i].answer # Unanswered
  <2> SUFFICES ASSUME NEW i \in DOMAIN stream.calls
               PROVE  WellAnswered(last.calls[i]) /\ last.calls[i].answer # Unanswered
    BY <1>7, <1>8
  <2>1. stream.calls[i].raw \in RawIds /\ i # NoCall
    <3>1. stream.calls \in Seq(PublicCalls)
      BY DEF TurnTyped, Streams
    <3>2. stream.calls[i] \in PublicCalls /\ DOMAIN stream.calls = 1..Len(stream.calls)
      BY <3>1, LenProperties, ElementOfSeq
    <3> QED BY <3>2 DEF PublicCalls, NoCall
  <2> QED BY <1>7, <1>8, <1>9, <2>1
<1> QED BY <1>1, <1>8, <1>9, <1>10

-----------------------------------------------------------------------------
(* The steps keep the types.                                               *)

LEMMA TurnStart == TurnInit => TurnTyped /\ Answered
<1> SUFFICES ASSUME TurnInit PROVE TurnTyped /\ Answered
  OBVIOUS
<1>1. stream \in Streams /\ stream.open = FALSE /\ stream.calls = <<>>
      /\ \A r \in RawIds : stream.pending[r] = NoCall
  BY DEF TurnInit, SilentStream, Streams, NoCall
<1>2. acc \in [text : Seq(Nat), calls : Seq(TurnCalls)] /\ DistinctCalls(acc.calls)
  BY DEF TurnInit, NoAnswer, DistinctCalls
<1>3. reply \in [started : BOOLEAN, raw : Seq(Nat), public : Seq(Nat),
                 allowed : {"unasked", "yes", "no"}, disabled : BOOLEAN]
  BY DEF TurnInit, NoReply
<1>4. TurnTyped
  <2>1. coming = <<>> /\ tools = <<>> /\ replies = <<>>
    BY DEF TurnInit
  <2>2. coming \in Seq(StreamItems) /\ tools \in Seq(TurnTools) /\ replies \in Seq(Seq(Nat))
        /\ DistinctCalls(tools)
    BY <2>1 DEF DistinctCalls
  <2> QED BY <1>1, <1>2, <1>3, <2>2 DEF TurnInit, TurnTyped
<1>5. Answered
  BY <1>1 DEF TurnInit, Answered, Awaited
<1> QED BY <1>4, <1>5

LEMMA NoReplyTyped ==
  /\ NoReply \in Gates /\ NoAnswer \in [text : Seq(Nat), calls : Seq(TurnCalls)]
  /\ DistinctCalls(NoAnswer.calls) /\ \A v \in BOOLEAN : [NoReply EXCEPT !.started = v] \in Gates
<1>1. NoReply \in Gates
  BY DEF NoReply, Gates
<1>2. \A v \in BOOLEAN : [NoReply EXCEPT !.started = v] \in Gates
  BY <1>1 DEF Gates
<1>3. NoAnswer \in [text : Seq(Nat), calls : Seq(TurnCalls)]
  BY DEF NoAnswer
<1>4. DistinctCalls(NoAnswer.calls)
  BY DEF NoAnswer, DistinctCalls
<1> QED BY <1>1, <1>2, <1>3, <1>4

(* The call at the head of what is coming.                                   *)
LEMMA ComingTyped ==
  ASSUME TurnTyped, coming # <<>>
  PROVE  /\ Head(coming) \in StreamItems /\ Tail(coming) \in Seq(StreamItems)
         /\ Head(coming).text \in Seq(Nat)
         /\ Head(coming).calls # <<>> => Head(Head(coming).calls) \in TurnCalls
<1>1. coming \in Seq(StreamItems)
  BY DEF TurnTyped
<1>2. PICK item : item = Head(coming)
  OBVIOUS
<1>3. item \in StreamItems /\ Tail(coming) \in Seq(StreamItems)
  BY <1>1, <1>2, HeadTyped
<1>4. item.text \in Seq(Nat) /\ item.calls \in Seq(TurnCalls)
  BY <1>3 DEF StreamItems
<1>5. item.calls # <<>> => Head(item.calls) \in TurnCalls
  BY <1>4, HeadTyped
<1> QED BY <1>2, <1>3, <1>4, <1>5

LEMMA ListTyped ==
  ASSUME NEW S, NEW n \in Nat, NEW f \in [1..n -> S]
  PROVE  f \in Seq(S)
OBVIOUS

LEMMA CallAdded ==
  ASSUME NEW calls \in Seq(TurnCalls), DistinctCalls(calls), NEW called \in TurnCalls, NEW more,
         more = IF \E i \in DOMAIN calls : calls[i].raw = called.raw
                THEN [i \in DOMAIN calls |-> IF calls[i].raw = called.raw THEN called ELSE calls[i]]
                ELSE Append(calls, called)
  PROVE  /\ more \in Seq(TurnCalls) /\ DistinctCalls(more) /\ more # <<>>
         /\ \/ /\ \E i \in DOMAIN calls : calls[i].raw = called.raw
               /\ DOMAIN more = DOMAIN calls
               /\ \A i \in DOMAIN calls :
                     more[i] = IF calls[i].raw = called.raw THEN called ELSE calls[i]
            \/ /\ \A i \in DOMAIN calls : calls[i].raw # called.raw
               /\ Len(calls) \in Nat /\ DOMAIN calls = 1..Len(calls)
               /\ DOMAIN more = 1..(Len(calls) + 1)
               /\ more[Len(calls) + 1] = called
               /\ \A i \in DOMAIN calls : more[i] = calls[i]
<1>1. Len(calls) \in Nat /\ DOMAIN calls = 1..Len(calls)
      /\ \A i \in DOMAIN calls : calls[i] \in TurnCalls
  BY LenProperties, ElementOfSeq
<1>2. CASE \E i \in DOMAIN calls : calls[i].raw = called.raw
  <2>1. DOMAIN more = DOMAIN calls
        /\ \A i \in DOMAIN calls :
              more[i] = IF calls[i].raw = called.raw THEN called ELSE calls[i]
    BY <1>2
  <2>2. more \in [1..Len(calls) -> TurnCalls]
    <3>1. more = [i \in 1..Len(calls) |-> more[i]]
      BY <1>1, <1>2, <2>1
    <3>2. \A i \in 1..Len(calls) : more[i] \in TurnCalls
      BY <1>1, <2>1
    <3> QED BY <3>1, <3>2
  <2>3. more \in Seq(TurnCalls)
    BY <1>1, <2>2, ListTyped, Zenon
  <2>4. DistinctCalls(more)
    BY <2>1 DEF DistinctCalls
  <2>5. more # <<>>
    <3>1. PICK i \in DOMAIN calls : calls[i].raw = called.raw
      BY <1>2
    <3>2. i \in DOMAIN more
      BY <2>1, <3>1
    <3> QED BY <3>2
  <2> QED BY <1>2, <2>1, <2>3, <2>4, <2>5
<1>3. CASE ~ \E i \in DOMAIN calls : calls[i].raw = called.raw
  <2>1. /\ more \in Seq(TurnCalls) /\ more # <<>> /\ Len(more) = Len(calls) + 1
        /\ \A i \in 1..Len(calls) : more[i] = calls[i]
        /\ more[Len(calls) + 1] = called
    BY <1>3, AppendProperties
  <2>2. DOMAIN more = 1..(Len(calls) + 1)
    BY <2>1, LenProperties
  <2>3. \A i \in DOMAIN more : i \in DOMAIN calls \/ i = Len(calls) + 1
    BY <1>1, <2>2
  <2>4. DistinctCalls(more)
    BY <1>1, <1>3, <2>1, <2>3 DEF DistinctCalls
  <2> QED BY <1>1, <1>3, <2>1, <2>2, <2>4
<1> QED BY <1>2, <1>3

LEMMA TextTyped == ASSUME TurnTyped, TextDelta PROVE TurnTyped'
<1>1. PICK text : text = Head(coming).text
  OBVIOUS
<1>2. text \in Seq(Nat) /\ Tail(coming) \in Seq(StreamItems)
  BY <1>1, ComingTyped DEF TextDelta
<1>3. acc.text \o text \in Seq(Nat)
  BY <1>2, ConcatProperties DEF TurnTyped
<1>4. acc' \in [text : Seq(Nat), calls : Seq(TurnCalls)] /\ DistinctCalls(acc'.calls)
  BY <1>1, <1>3 DEF TextDelta, TurnTyped
<1>5. reply' \in Gates /\ stream' \in Streams /\ (stream'.open => stream'.shown # <<>>)
  <2>1. CASE reply.disabled
    BY <2>1 DEF TextDelta, TurnTyped, Gates
  <2>2. CASE ~reply.disabled
    <3>1. PICK raw : raw = reply.raw \o text
      OBVIOUS
    <3>2. PICK ok \in BOOLEAN, held \in Len(reply.public)..Len(Body(raw)) :
            /\ reply' = Publishable(reply, raw, TRUE, ok, held)
            /\ stream' = PushText(stream, Delta(reply, reply'), TRUE)
      BY <1>1, <2>2, <3>1 DEF TextDelta
    <3>3. reply \in Gates /\ raw \in Seq(Nat)
      BY <1>2, <3>1, ConcatProperties DEF TurnTyped, Gates
    <3>4. held \in Nat /\ held <= Len(Body(raw))
      <4>1. Len(reply.public) \in Nat /\ Len(Body(raw)) \in Nat
        BY <3>3, BodyTyped, LenProperties DEF Gates
      <4> QED BY <4>1
    <3>5. reply' \in Gates
      BY <3>2, <3>3, <3>4, PublishableTyped
    <3>6. Delta(reply, reply') \in Seq(Nat)
      BY <3>3, <3>5, DeltaTyped
    <3>7. PICK d : d = Delta(reply, reply')
      OBVIOUS
    <3>8. stream' = PushText(stream, d, TRUE) /\ d \in Seq(Nat)
      BY <3>2, <3>6, <3>7
    <3>9. stream \in Streams /\ (stream.open => stream.shown # <<>>)
      BY DEF TurnTyped
    <3>10. stream' \in Streams /\ (stream'.open => stream'.shown # <<>>)
      <4>1. PICK next : next = PushText(stream, d, TRUE)
        OBVIOUS
      <4>2. next \in Streams /\ (next.open => next.shown # <<>>)
        BY <3>8, <3>9, <4>1, TextPushed, Zenon
      <4> QED BY <3>8, <4>1, <4>2
    <3> QED BY <3>5, <3>10
  <2> QED BY <2>1, <2>2
<1> QED BY <1>2, <1>4, <1>5 DEF TextDelta, TurnTyped, Gates

LEMMA CallTyped == ASSUME TurnTyped, CallDelta PROVE TurnTyped'
<1>1. PICK called : called = Head(Head(coming).calls)
  OBVIOUS
<1>2. called \in TurnCalls /\ Tail(coming) \in Seq(StreamItems)
  BY <1>1, ComingTyped DEF CallDelta
<1>3. PICK public : public = [raw |-> called.raw, args |-> called.args, turn |-> turn]
  OBVIOUS
<1>4. public \in [raw : RawIds, args : Args, turn : Nat]
  BY <1>2, <1>3 DEF TurnCalls, TurnTyped
<1>5. CASE GuardTool(reply) /\ MayPushCall(stream, public)
  <2>1. /\ coming' = Tail(coming) /\ at' = at
        /\ acc' = [acc EXCEPT !.calls = acc'.calls]
        /\ acc'.calls = IF \E i \in DOMAIN acc.calls : acc.calls[i].raw = called.raw
                        THEN [i \in DOMAIN acc.calls |->
                                IF acc.calls[i].raw = called.raw THEN called ELSE acc.calls[i]]
                        ELSE Append(acc.calls, called)
        /\ begun' = TRUE
        /\ reply' = [reply EXCEPT !.disabled = TRUE]
        /\ stream' = PushCall(stream, public)
    BY <1>1, <1>3, <1>5 DEF CallDelta, TurnTyped
  <2>2. acc'.calls \in Seq(TurnCalls) /\ DistinctCalls(acc'.calls)
    <3>1. PICK more : more = acc'.calls
      OBVIOUS
    <3>2. PICK calls : calls = acc.calls
      OBVIOUS
    <3>3. calls \in Seq(TurnCalls) /\ DistinctCalls(calls)
      BY <3>2 DEF TurnTyped
    <3>4. more = IF \E i \in DOMAIN calls : calls[i].raw = called.raw
                 THEN [i \in DOMAIN calls |-> IF calls[i].raw = called.raw THEN called ELSE calls[i]]
                 ELSE Append(calls, called)
      BY <2>1, <3>1, <3>2
    <3>5. more \in Seq(TurnCalls) /\ DistinctCalls(more)
      BY <1>2, <3>3, <3>4, CallAdded, Zenon
    <3> QED BY <3>1, <3>5
  <2>3. acc' \in [text : Seq(Nat), calls : Seq(TurnCalls)]
    BY <2>1, <2>2 DEF TurnTyped
  <2>4. reply' \in Gates
    BY <2>1 DEF TurnTyped, Gates
  <2>5. stream' \in Streams /\ ~stream'.open
    BY <1>4, <2>1, CallPushed DEF TurnTyped
  <2> QED BY <1>2, <2>1, <2>2, <2>3, <2>4, <2>5 DEF CallDelta, TurnTyped, Gates
<1>6. CASE ~(GuardTool(reply) /\ MayPushCall(stream, public))
  <2>1. at' = "failed" /\ UNCHANGED <<coming, begun, acc, reply, stream>>
    BY <1>1, <1>3, <1>6 DEF CallDelta
  <2> QED BY <2>1 DEF CallDelta, TurnTyped
<1> QED BY <1>5, <1>6

LEMMA CompletedTyped == ASSUME TurnTyped, Completed PROVE TurnTyped'
<1>1. CASE acc.calls # <<>>
  <2>1. acc.calls \in Seq(TurnCalls) /\ DistinctCalls(acc.calls)
        /\ Len(acc.calls) \in Nat /\ DOMAIN acc.calls = 1..Len(acc.calls)
        /\ \A i \in DOMAIN acc.calls : acc.calls[i] \in TurnCalls
    BY LenProperties, ElementOfSeq DEF TurnTyped
  <2>2. tools' = [i \in DOMAIN acc.calls |->
                   [raw |-> acc.calls[i].raw, args |-> acc.calls[i].args,
                    state |-> "waiting", result |-> "none"]]
    BY <1>1 DEF Completed
  <2>3. tools' \in [1..Len(acc.calls) -> TurnTools]
    BY <2>1, <2>2 DEF TurnTools, TurnCalls
  <2>4. tools' \in Seq(TurnTools)
    BY <2>1, <2>3
  <2>5. DOMAIN tools' = DOMAIN acc.calls
        /\ \A i \in DOMAIN acc.calls : tools'[i].raw = acc.calls[i].raw
    BY <2>2
  <2>6. DistinctCalls(tools')
    BY <2>1, <2>5 DEF DistinctCalls
  <2>7. stream' \in Streams /\ ~stream'.open
    BY <1>1, MessageClosed DEF Completed, TurnTyped
  <2>8. reply' \in Gates
    BY <1>1 DEF Completed, TurnTyped, Gates
  <2>9. at' \in {"tools", "failed"}
    BY <1>1 DEF Completed
  <2> QED BY <2>4, <2>6, <2>7, <2>8, <2>9 DEF Completed, TurnTyped, Gates
<1>2. CASE acc.calls = <<>>
  <2>1. PICK ok \in BOOLEAN :
          /\ reply' = IF reply.disabled THEN reply ELSE Publishable(reply, acc.text, FALSE, ok, 0)
          /\ stream' = PushText(stream, Delta(reply, reply'), TRUE)
    BY <1>2 DEF Completed
  <2>2. reply \in Gates /\ acc.text \in Seq(Nat) /\ 0 <= Len(Body(acc.text))
    <3>1. acc.text \in Seq(Nat)
      BY DEF TurnTyped
    <3>2. Len(Body(acc.text)) \in Nat
      BY <3>1, BodyTyped, LenProperties
    <3> QED BY <3>1, <3>2 DEF TurnTyped, Gates
  <2>3. reply' \in Gates
    BY <2>1, <2>2, PublishableTyped
  <2>4. PICK d : d = Delta(reply, reply')
    OBVIOUS
  <2>5. stream' = PushText(stream, d, TRUE) /\ d \in Seq(Nat)
    BY <2>1, <2>2, <2>3, <2>4, DeltaTyped
  <2>6. stream' \in Streams /\ (stream'.open => stream'.shown # <<>>)
    <3>1. stream \in Streams /\ (stream.open => stream.shown # <<>>)
      BY DEF TurnTyped
    <3>2. PICK next : next = PushText(stream, d, TRUE)
      OBVIOUS
    <3>3. next \in Streams /\ (next.open => next.shown # <<>>)
      BY <2>5, <3>1, <3>2, TextPushed, Zenon
    <3> QED BY <2>5, <3>2, <3>3
  <2>7. at' = "worker" /\ tools' = tools
    BY <1>2 DEF Completed
  <2> QED BY <2>3, <2>6, <2>7 DEF Completed, TurnTyped, Gates
<1> QED BY <1>1, <1>2

LEMMA ToolTyped ==
  ASSUME TurnTyped, NEW i \in DOMAIN tools, NEW tool \in TurnTools, tool.raw = tools[i].raw,
         tools' = [tools EXCEPT ![i] = tool]
  PROVE  tools' \in Seq(TurnTools) /\ DistinctCalls(tools') /\ DOMAIN tools' = DOMAIN tools
         /\ \A j \in DOMAIN tools : tools'[j] = IF j = i THEN tool ELSE tools[j]
<1>1. tools \in Seq(TurnTools) /\ DistinctCalls(tools) /\ DOMAIN tools = 1..Len(tools)
  BY LenProperties DEF TurnTyped
<1>2. tools' \in Seq(TurnTools)
  BY <1>1, ExceptSeq
<1>3. DOMAIN tools' = DOMAIN tools
      /\ \A j \in DOMAIN tools : tools'[j] = IF j = i THEN tool ELSE tools[j]
  BY <1>1
<1> QED BY <1>1, <1>2, <1>3 DEF DistinctCalls

LEMMA StartTyped ==
  ASSUME TurnTyped, NEW i \in DOMAIN tools, StartTool(i)
  PROVE  TurnTyped' /\ DOMAIN tools' = DOMAIN tools
         /\ \A j \in DOMAIN tools :
              /\ tools'[j].raw = tools[j].raw /\ tools'[j].args = tools[j].args
              /\ tools'[j].state = IF j = i THEN "running" ELSE tools[j].state
<1>1. PICK tool : tool = [tools[i] EXCEPT !.state = "running"]
  OBVIOUS
<1>2. tools[i] \in TurnTools
  BY LenProperties, ElementOfSeq DEF TurnTyped
<1>3. tool \in TurnTools /\ tool.raw = tools[i].raw /\ tool.args = tools[i].args
      /\ tool.state = "running"
  BY <1>1, <1>2 DEF TurnTools
<1>4. tools' = [tools EXCEPT ![i] = tool]
  BY <1>1 DEF StartTool
<1>5. tools' \in Seq(TurnTools) /\ DistinctCalls(tools') /\ DOMAIN tools' = DOMAIN tools
      /\ \A j \in DOMAIN tools : tools'[j] = IF j = i THEN tool ELSE tools[j]
  BY <1>3, <1>4, ToolTyped
<1> QED BY <1>3, <1>5 DEF StartTool, TurnTyped

LEMMA EndTyped ==
  ASSUME TurnTyped, NEW i \in DOMAIN tools, EndTool(i)
  PROVE  TurnTyped' /\ DOMAIN tools' = DOMAIN tools
         /\ \A j \in DOMAIN tools :
              /\ tools'[j].raw = tools[j].raw /\ tools'[j].args = tools[j].args
              /\ tools'[j].state = IF j = i THEN "done" ELSE tools[j].state
<1>1. PICK result \in Results :
        tools' = [tools EXCEPT ![i].state = "done", ![i].result = result]
  BY DEF EndTool
<1>2. PICK tool : tool = [tools[i] EXCEPT !.state = "done", !.result = result]
  OBVIOUS
<1>3. tools[i] \in TurnTools
  BY LenProperties, ElementOfSeq DEF TurnTyped
<1>4. tool \in TurnTools /\ tool.raw = tools[i].raw /\ tool.args = tools[i].args
      /\ tool.state = "done"
  BY <1>2, <1>3 DEF TurnTools
<1>5. tools' = [tools EXCEPT ![i] = tool]
  BY <1>1, <1>2
<1>6. tools' \in Seq(TurnTools) /\ DistinctCalls(tools') /\ DOMAIN tools' = DOMAIN tools
      /\ \A j \in DOMAIN tools : tools'[j] = IF j = i THEN tool ELSE tools[j]
  BY <1>4, <1>5, ToolTyped
<1> QED BY <1>4, <1>6 DEF EndTool, TurnTyped

LEMMA YieldTyped ==
  ASSUME TurnTyped, YieldResults
  PROVE  TurnTyped' /\ stream'.shown = stream.shown /\ (stream'.open => stream.open)
<1>1. tools \in Seq(TurnTools) /\ stream \in Streams /\ turn \in Nat
  BY DEF TurnTyped
<1>2. PICK s : /\ s[0] = stream
               /\ \A n \in 1..Len(tools) : s[n] = PushResult(s[n - 1], ResultOf(tools[n]))
               /\ stream' = s[Len(tools)]
  BY <1>1, ResultsFolded DEF YieldResults
<1>3. Len(tools) \in 0..Len(tools)
  BY <1>1, LenProperties
<1>4. stream' \in Streams /\ stream'.shown = stream.shown /\ (stream'.open => stream.open)
  BY <1>1, <1>2, <1>3, ResultsTyped
<1> QED BY <1>4 DEF YieldResults, TurnTyped

LEMMA PublishTyped ==
  ASSUME TurnTyped, NEW text \in Seq(Nat), Publish(text)
  PROVE  stream' \in Streams /\ (stream'.open => stream'.shown # <<>>)
         /\ replies' \in Seq(Seq(Nat)) /\ stream'.calls = stream.calls
         /\ stream'.pending = stream.pending
<1>1. replies' \in Seq(Seq(Nat))
  BY AppendProperties DEF Publish, TurnTyped
<1> QED BY <1>1, TextPushed DEF Publish, TurnTyped

LEMMA TurnTypesStep == TurnTyped /\ [TurnNext]_turnVars => TurnTyped'
<1> SUFFICES ASSUME TurnTyped, [TurnNext]_turnVars PROVE TurnTyped'
  OBVIOUS
<1>1. CASE Prepare
  BY <1>1, NoReplyTyped DEF Prepare, TurnTyped, Gates
<1>2. CASE BeforeModel
  <2>1. at' \in {"streaming", "failed"} /\ turn' \in Nat
    BY <1>2 DEF BeforeModel, TurnTyped
  <2>2. CASE used < Budget /\ GuardTool(reply)
    <3>1. coming' \in Seq(StreamItems) /\ begun' = FALSE
      BY <1>2, <2>2, PlansTyped DEF BeforeModel, Ask, TurnTyped
    <3>2. acc' = NoAnswer /\ tools' = <<>> /\ reply' = [NoReply EXCEPT !.started = reply.started]
      BY <1>2, <2>2 DEF BeforeModel
    <3>3. reply' \in Gates
      BY <3>2, NoReplyTyped DEF TurnTyped
    <3>4. tools' \in Seq(TurnTools) /\ DistinctCalls(tools')
      BY <3>2 DEF DistinctCalls
    <3> QED BY <1>2, <2>1, <3>1, <3>2, <3>3, <3>4, NoReplyTyped DEF BeforeModel, TurnTyped, Gates
  <2>3. CASE ~(used < Budget /\ GuardTool(reply))
    BY <1>2, <2>1, <2>3 DEF BeforeModel, TurnTyped
  <2> QED BY <2>2, <2>3
<1>3. CASE TextDelta
  BY <1>3, TextTyped
<1>4. CASE CallDelta
  BY <1>4, CallTyped
<1>5. CASE Retry
  <2>1. coming' \in Seq(StreamItems) /\ begun' = FALSE
    BY <1>5, PlansTyped DEF Retry, Ask, TurnTyped
  <2> QED BY <1>5, <2>1 DEF Retry, TurnTyped
<1>6. CASE ModelFails
  BY <1>6 DEF ModelFails, TurnTyped
<1>7. CASE UsageLost
  BY <1>7 DEF UsageLost, TurnTyped
<1>8. CASE Completed
  BY <1>8, CompletedTyped
<1>9. ASSUME NEW i \in DOMAIN tools, StartTool(i) \/ EndTool(i) \/ ToolFails(i) PROVE TurnTyped'
  <2>1. CASE ToolFails(i)
    BY <2>1 DEF ToolFails, TurnTyped
  <2> QED BY <1>9, <2>1, StartTyped, EndTyped
<1>10. CASE YieldResults
  BY <1>10, YieldTyped
<1>11. CASE Answer \/ GoOn \/ Block
  <2>1. Body(acc.text) \in Seq(Nat) /\ Other \in Seq(Nat)
    BY BodyTyped DEF TurnTyped, Other
  <2>2. \/ Publish(Body(acc.text)) \/ Publish(Other) \/ UNCHANGED <<stream, replies>>
    BY <1>11 DEF Answer, GoOn, Block
  <2>3. stream' \in Streams /\ (stream'.open => stream'.shown # <<>>)
        /\ replies' \in Seq(Seq(Nat))
    <3>1. CASE UNCHANGED <<stream, replies>>
      BY <3>1 DEF TurnTyped
    <3> QED BY <2>1, <2>2, <3>1, PublishTyped
  <2> QED BY <1>11, <2>3 DEF Answer, GoOn, Block, TurnTyped
<1>12. CASE Refuse
  BY <1>12 DEF Refuse, TurnTyped
<1>13. CASE Finish
  BY <1>13, MessageClosed DEF Finish, TurnTyped
<1>14. CASE UNCHANGED turnVars
  BY <1>14 DEF turnVars, TurnTyped
<1> QED BY <1>1, <1>2, <1>3, <1>4, <1>5, <1>6, <1>7, <1>8, <1>9, <1>10, <1>11, <1>12, <1>13, <1>14
    DEF TurnNext

-----------------------------------------------------------------------------
(* The steps keep the public calls and their results together.             *)

LEMMA CallsInOrder ==
  ASSUME TurnTyped
  PROVE  /\ stream.calls \in Seq(PublicCalls) /\ Len(stream.calls) \in Nat
         /\ DOMAIN stream.calls = 1..Len(stream.calls) /\ NoCall \notin DOMAIN stream.calls
         /\ \A i \in DOMAIN stream.calls : stream.calls[i] \in PublicCalls
                                           /\ stream.calls[i].raw \in RawIds
         /\ DOMAIN stream.pending = RawIds
         /\ acc.calls \in Seq(TurnCalls) /\ Len(acc.calls) \in Nat
         /\ DOMAIN acc.calls = 1..Len(acc.calls)
         /\ \A i \in DOMAIN acc.calls : acc.calls[i] \in TurnCalls /\ acc.calls[i].raw \in RawIds
<1>1. stream.calls \in Seq(PublicCalls) /\ DOMAIN stream.pending = RawIds
  BY DEF TurnTyped, Streams
<1>2. Len(stream.calls) \in Nat /\ DOMAIN stream.calls = 1..Len(stream.calls)
      /\ \A i \in DOMAIN stream.calls : stream.calls[i] \in PublicCalls
  BY <1>1, LenProperties, ElementOfSeq
<1>3. acc.calls \in Seq(TurnCalls)
  BY DEF TurnTyped
<1>4. Len(acc.calls) \in Nat /\ DOMAIN acc.calls = 1..Len(acc.calls)
      /\ \A i \in DOMAIN acc.calls : acc.calls[i] \in TurnCalls
  BY <1>3, LenProperties, ElementOfSeq
<1> QED BY <1>1, <1>2, <1>3, <1>4 DEF PublicCalls, TurnCalls, NoCall

LEMMA AnsweredKept ==
  ASSUME Answered, stream'.calls = stream.calls, stream'.pending = stream.pending,
         at # "failed",
         \/ at' = "failed"
         \/ /\ Awaited' = Awaited /\ (turn' = turn \/ Awaited = <<>>)
            /\ at' = "worker" => acc'.calls = <<>>
            /\ at' = "tools" => /\ DOMAIN tools' = DOMAIN acc'.calls
                                /\ \A i \in DOMAIN tools' : /\ tools'[i].raw = acc'.calls[i].raw
                                                            /\ tools'[i].args = acc'.calls[i].args
  PROVE  Answered'
<1>1. \A i \in DOMAIN stream'.calls : WellAnswered(stream'.calls[i])
  BY DEF Answered
<1>2. CASE at' = "failed"
  BY <1>1, <1>2 DEF Answered, WellAnswered
<1>3. CASE at' # "failed"
  <2>1. \A r \in RawIds : stream'.pending[r] # NoCall =>
           \E c \in DOMAIN Awaited' : Awaited'[c].raw = r
    BY <1>3 DEF Answered
  <2>2. ASSUME NEW c \in DOMAIN Awaited', NEW p, p = stream'.pending[Awaited'[c].raw]
        PROVE  /\ p \in DOMAIN stream'.calls
               /\ stream'.calls[p].raw = Awaited'[c].raw
               /\ stream'.calls[p].args = Awaited'[c].args
               /\ stream'.calls[p].turn = turn'
    <3>1. Awaited # <<>>
      BY <1>3, <2>2
    <3>2. /\ p \in DOMAIN stream.calls
          /\ stream.calls[p].raw = Awaited[c].raw /\ stream.calls[p].args = Awaited[c].args
          /\ stream.calls[p].turn = turn
      BY <1>3, <2>2 DEF Answered
    <3> QED BY <1>3, <3>1, <3>2
  <2>3. \A i \in DOMAIN stream'.calls :
           stream'.calls[i].answer = Unanswered => stream'.pending[stream'.calls[i].raw] = i
    BY DEF Answered
  <2> QED BY <1>1, <1>3, <2>1, <2>2, <2>3 DEF Answered, WellAnswered
<1> QED BY <1>2, <1>3

LEMMA AnsweredStreaming ==
  ASSUME NEW next, NEW more, stream' = next, acc'.calls = more, at' = "streaming", turn' = turn,
         \A i \in DOMAIN next.calls : WellAnswered(next.calls[i]),
         \A r \in RawIds : next.pending[r] # NoCall => \E c \in DOMAIN more : more[c].raw = r,
         \A c \in DOMAIN more :
            /\ next.pending[more[c].raw] \in DOMAIN next.calls
            /\ next.calls[next.pending[more[c].raw]].raw = more[c].raw
            /\ next.calls[next.pending[more[c].raw]].args = more[c].args
            /\ next.calls[next.pending[more[c].raw]].turn = turn,
         \A i \in DOMAIN next.calls :
            next.calls[i].answer = Unanswered => next.pending[next.calls[i].raw] = i
  PROVE  Answered'
<1>1. Awaited' = more
  BY DEF Awaited
<1>2. \A i \in DOMAIN stream'.calls : WellAnswered(stream'.calls[i])
  OBVIOUS
<1>3. \A r \in RawIds : stream'.pending[r] # NoCall => \E c \in DOMAIN Awaited' : Awaited'[c].raw = r
  BY <1>1
<1>4. ASSUME NEW c \in DOMAIN Awaited', NEW p, p = stream'.pending[Awaited'[c].raw]
      PROVE  /\ p \in DOMAIN stream'.calls
             /\ stream'.calls[p].raw = Awaited'[c].raw
             /\ stream'.calls[p].args = Awaited'[c].args
             /\ stream'.calls[p].turn = turn'
  BY <1>1, <1>4
<1>5. \A i \in DOMAIN stream'.calls :
         stream'.calls[i].answer = Unanswered => stream'.pending[stream'.calls[i].raw] = i
  OBVIOUS
<1>6. at' # "worker" /\ at' # "tools"
  OBVIOUS
<1> QED BY <1>2, <1>3, <1>4, <1>5, <1>6 DEF Answered, WellAnswered

(* A call made public while the model still streams.                         *)
LEMMA CallAwaited ==
  ASSUME TurnTyped, Answered, CallDelta PROVE Answered'
<1>1. at = "streaming" /\ coming # <<>> /\ Head(coming).calls # <<>> /\ turn' = turn
      /\ tools' = tools
  BY DEF CallDelta
<1>2. PICK called : called = Head(Head(coming).calls)
  OBVIOUS
<1>3. PICK public : public = [raw |-> called.raw, args |-> called.args, turn |-> turn]
  OBVIOUS
<1>4. called \in TurnCalls /\ called.raw \in RawIds
  BY <1>1, <1>2, ComingTyped DEF TurnCalls
<1>5. public \in [raw : RawIds, args : Args, turn : Nat]
  BY <1>3, <1>4 DEF TurnCalls, TurnTyped
<1>6. CASE ~(GuardTool(reply) /\ MayPushCall(stream, public))
  <2>1. at' = "failed" /\ stream' = stream
    BY <1>2, <1>3, <1>6 DEF CallDelta
  <2> QED BY <1>1, <2>1, AnsweredKept
<1>7. CASE GuardTool(reply) /\ MayPushCall(stream, public)
  <2>1. at' = "streaming" /\ stream' = PushCall(stream, public)
        /\ acc'.calls = IF \E i \in DOMAIN acc.calls : acc.calls[i].raw = called.raw
                        THEN [i \in DOMAIN acc.calls |->
                                IF acc.calls[i].raw = called.raw THEN called ELSE acc.calls[i]]
                        ELSE Append(acc.calls, called)
    BY <1>1, <1>2, <1>3, <1>7 DEF CallDelta, TurnTyped
  <2>2. PICK calls : calls = acc.calls
    OBVIOUS
  <2>3. PICK more : more = acc'.calls
    OBVIOUS
  <2>4. Awaited = calls /\ Awaited' = more
    BY <1>1, <2>1, <2>2, <2>3 DEF Awaited
  <2>5. calls \in Seq(TurnCalls) /\ DistinctCalls(calls)
    BY <2>2 DEF TurnTyped
  <2>6. \/ /\ \E i \in DOMAIN calls : calls[i].raw = called.raw
           /\ DOMAIN more = DOMAIN calls
           /\ \A i \in DOMAIN calls :
                 more[i] = IF calls[i].raw = called.raw THEN called ELSE calls[i]
        \/ /\ \A i \in DOMAIN calls : calls[i].raw # called.raw
           /\ Len(calls) \in Nat /\ DOMAIN calls = 1..Len(calls)
           /\ DOMAIN more = 1..(Len(calls) + 1)
           /\ more[Len(calls) + 1] = called
           /\ \A i \in DOMAIN calls : more[i] = calls[i]
    <3>1. more = IF \E i \in DOMAIN calls : calls[i].raw = called.raw
                 THEN [i \in DOMAIN calls |-> IF calls[i].raw = called.raw THEN called ELSE calls[i]]
                 ELSE Append(calls, called)
      BY <2>1, <2>2, <2>3
    <3> QED BY <1>4, <2>5, <3>1, CallAdded
  <2>7. PICK next : next = PushCall(stream, public)
    OBVIOUS
  <2>8. PICK p : p = stream.pending[called.raw]
    OBVIOUS
  <2>9. /\ p # NoCall => next.calls = stream.calls /\ next.pending = stream.pending
        /\ p = NoCall =>
             /\ next.calls = Append(stream.calls, [raw |-> called.raw, args |-> called.args,
                                                   turn |-> turn, answer |-> Unanswered])
             /\ next.pending = [stream.pending EXCEPT ![called.raw] = Len(stream.calls) + 1]
    <3>1. stream \in Streams
      BY DEF TurnTyped
    <3> QED BY <1>3, <1>5, <2>7, <2>8, <3>1, CallPushed
  <2>10. /\ \A i \in DOMAIN stream.calls : WellAnswered(stream.calls[i])
         /\ \A r \in RawIds : stream.pending[r] # NoCall =>
              \E c \in DOMAIN calls : calls[c].raw = r
         /\ \A i \in DOMAIN stream.calls :
              stream.calls[i].answer = Unanswered => stream.pending[stream.calls[i].raw] = i
    BY <1>1, <2>4 DEF Answered
  <2>11. ASSUME NEW c \in DOMAIN calls
         PROVE  /\ stream.pending[calls[c].raw] \in DOMAIN stream.calls
                /\ stream.pending[calls[c].raw] # NoCall
                /\ stream.calls[stream.pending[calls[c].raw]].raw = calls[c].raw
                /\ stream.calls[stream.pending[calls[c].raw]].args = calls[c].args
                /\ stream.calls[stream.pending[calls[c].raw]].turn = turn
    <3>1. /\ stream.pending[calls[c].raw] \in DOMAIN stream.calls
          /\ stream.calls[stream.pending[calls[c].raw]].raw = calls[c].raw
          /\ stream.calls[stream.pending[calls[c].raw]].args = calls[c].args
          /\ stream.calls[stream.pending[calls[c].raw]].turn = turn
      BY <1>1, <2>4 DEF Answered
    <3> QED BY <3>1, CallsInOrder
  <2>12. CASE p # NoCall
    <3>1. next.calls = stream.calls /\ next.pending = stream.pending
      BY <2>9, <2>12
    <3>2. \E i \in DOMAIN calls : calls[i].raw = called.raw
      BY <1>4, <2>8, <2>10, <2>12
    <3>3. DOMAIN more = DOMAIN calls
          /\ \A i \in DOMAIN calls : more[i] = IF calls[i].raw = called.raw THEN called ELSE calls[i]
      BY <2>6, <3>2
    <3>4. stream.calls[p].args = called.args
      BY <1>3, <1>7, <2>8, <2>12 DEF MayPushCall
    <3>5. \A i \in DOMAIN calls : more[i].raw = calls[i].raw
      BY <3>3
    <3>6. \A r \in RawIds : next.pending[r] # NoCall => \E c \in DOMAIN more : more[c].raw = r
      BY <2>10, <3>1, <3>3, <3>5
    <3>7. ASSUME NEW c \in DOMAIN more
          PROVE  /\ next.pending[more[c].raw] \in DOMAIN next.calls
                 /\ next.calls[next.pending[more[c].raw]].raw = more[c].raw
                 /\ next.calls[next.pending[more[c].raw]].args = more[c].args
                 /\ next.calls[next.pending[more[c].raw]].turn = turn
      <4>1. c \in DOMAIN calls
        BY <3>3
      <4> QED BY <2>8, <2>11, <3>1, <3>3, <3>4, <4>1
    <3>16. stream' = next /\ acc'.calls = more /\ at' = "streaming" /\ turn' = turn
      BY <1>1, <2>1, <2>3, <2>7
    <3>17. \A i \in DOMAIN next.calls : WellAnswered(next.calls[i])
      BY <2>10, <3>1
    <3>18. \A i \in DOMAIN next.calls :
              next.calls[i].answer = Unanswered => next.pending[next.calls[i].raw] = i
      BY <2>10, <3>1
    <3> QED BY <3>6, <3>7, <3>16, <3>17, <3>18, AnsweredStreaming
  <2>13. CASE p = NoCall
    <3>1. PICK new : new = [raw |-> called.raw, args |-> called.args, turn |-> turn,
                            answer |-> Unanswered]
      OBVIOUS
    <3>2. PICK n : n = Len(stream.calls) + 1
      OBVIOUS
    <3>3. new \in PublicCalls
      <4>1. Unanswered \in Seq(PublicResults)
        BY DEF Unanswered
      <4> QED BY <1>4, <3>1, <4>1 DEF PublicCalls, TurnCalls, TurnTyped
    <3>4. next.calls = Append(stream.calls, new)
          /\ next.pending = [stream.pending EXCEPT ![called.raw] = n]
      BY <2>9, <2>13, <3>1, <3>2
    <3>5. n \in Nat \ {0} /\ DOMAIN stream.calls = 1..(n - 1) /\ n \notin DOMAIN stream.calls
          /\ NoCall \notin DOMAIN stream.calls /\ DOMAIN stream.pending = RawIds /\ n # NoCall
          /\ \A i \in DOMAIN stream.calls : stream.calls[i].raw \in RawIds
      BY <3>2, CallsInOrder DEF NoCall
    <3>6. DOMAIN next.calls = 1..n /\ next.calls[n] = new
          /\ \A i \in DOMAIN stream.calls : next.calls[i] = stream.calls[i]
      <4>1. stream.calls \in Seq(PublicCalls)
        BY CallsInOrder
      <4>2. /\ Append(stream.calls, new) \in Seq(PublicCalls)
            /\ Len(Append(stream.calls, new)) = n
            /\ \A i \in 1..Len(stream.calls) : Append(stream.calls, new)[i] = stream.calls[i]
            /\ Append(stream.calls, new)[n] = new
        BY <3>2, <3>3, <4>1, AppendProperties
      <4>3. DOMAIN Append(stream.calls, new) = 1..n
        BY <4>2, LenProperties
      <4> QED BY <3>2, <3>4, <4>2, <4>3, CallsInOrder
    <3>7. \A i \in DOMAIN calls : calls[i].raw # called.raw
      BY <2>8, <2>11, <2>13
    <3>8. PICK m : m = Len(calls) + 1
      OBVIOUS
    <3>9. DOMAIN more = DOMAIN calls \cup {m} /\ more[m] = called
          /\ \A i \in DOMAIN calls : more[i] = calls[i]
      <4>1. /\ Len(calls) \in Nat /\ DOMAIN calls = 1..Len(calls)
            /\ DOMAIN more = 1..(Len(calls) + 1)
            /\ more[Len(calls) + 1] = called
            /\ \A i \in DOMAIN calls : more[i] = calls[i]
        BY <2>6, <3>7
      <4> QED BY <3>8, <4>1
    <3>10. DOMAIN next.calls = DOMAIN stream.calls \cup {n}
      BY <3>5, <3>6
    <3>11. \A r \in RawIds : next.pending[r] = IF r = called.raw THEN n ELSE stream.pending[r]
      BY <3>4, <3>5
    <3>12. \A i \in DOMAIN next.calls : WellAnswered(next.calls[i])
      <4>1. WellAnswered(new)
        BY <3>1 DEF WellAnswered
      <4> QED BY <2>10, <3>6, <3>10, <4>1
    <3>13. \A r \in RawIds : next.pending[r] # NoCall => \E c \in DOMAIN more : more[c].raw = r
      BY <2>10, <3>9, <3>11
    <3>14. ASSUME NEW c \in DOMAIN more
           PROVE  /\ next.pending[more[c].raw] \in DOMAIN next.calls
                  /\ next.calls[next.pending[more[c].raw]].raw = more[c].raw
                  /\ next.calls[next.pending[more[c].raw]].args = more[c].args
                  /\ next.calls[next.pending[more[c].raw]].turn = turn
      <4>1. CASE c = m
        <5>1. next.pending[more[c].raw] = n
          BY <1>4, <3>9, <3>11, <4>1
        <5>2. next.calls[n] = new /\ more[c] = called /\ n \in DOMAIN next.calls
          BY <3>6, <3>9, <3>10, <4>1
        <5>3. new.raw = called.raw /\ new.args = called.args /\ new.turn = turn
          BY <3>1
        <5> QED BY <5>1, <5>2, <5>3
      <4>2. CASE c # m
        <5>1. c \in DOMAIN calls /\ more[c] = calls[c]
          BY <3>9, <4>2
        <5>2. calls[c].raw # called.raw /\ calls[c].raw \in RawIds
          BY <2>2, <3>7, <5>1, CallsInOrder
        <5>3. next.pending[more[c].raw] = stream.pending[calls[c].raw]
          BY <3>11, <5>1, <5>2
        <5> QED BY <2>11, <3>6, <3>10, <5>1, <5>3
      <4> QED BY <4>1, <4>2
    <3>15. \A i \in DOMAIN next.calls :
              next.calls[i].answer = Unanswered => next.pending[next.calls[i].raw] = i
      <4> SUFFICES ASSUME NEW i \in DOMAIN next.calls, next.calls[i].answer = Unanswered
                   PROVE  next.pending[next.calls[i].raw] = i
        OBVIOUS
      <4>1. CASE i = n
        BY <1>4, <3>1, <3>6, <3>11, <4>1
      <4>2. CASE i # n
        <5>1. i \in DOMAIN stream.calls /\ next.calls[i] = stream.calls[i]
          BY <3>6, <3>10, <4>2
        <5>2. stream.pending[stream.calls[i].raw] = i
          BY <2>10, <5>1
        <5>3. stream.calls[i].raw # called.raw
          BY <2>8, <2>13, <3>5, <5>1, <5>2
        <5> QED BY <3>5, <3>11, <5>1, <5>2, <5>3
      <4> QED BY <4>1, <4>2
    <3>16. stream' = next /\ acc'.calls = more /\ at' = "streaming" /\ turn' = turn
      BY <1>1, <2>1, <2>3, <2>7
    <3>17. \A i \in DOMAIN next.calls : WellAnswered(next.calls[i])
      BY <2>10, <3>12
    <3>18. \A i \in DOMAIN next.calls :
              next.calls[i].answer = Unanswered => next.pending[next.calls[i].raw] = i
      BY <2>10, <3>15
    <3> QED BY <3>13, <3>14, <3>16, <3>17, <3>18, AnsweredStreaming
  <2> QED BY <2>12, <2>13
<1> QED BY <1>6, <1>7

LEMMA AnsweredStep == TurnTyped /\ Answered /\ [TurnNext]_turnVars => Answered'
<1> SUFFICES ASSUME TurnTyped, Answered, [TurnNext]_turnVars PROVE Answered'
  OBVIOUS
<1>1. CASE Prepare
  <2>1. Awaited = <<>> /\ Awaited' = <<>>
    BY <1>1 DEF Prepare, Awaited
  <2> QED BY <1>1, <2>1, AnsweredKept DEF Prepare
<1>2. CASE BeforeModel
  <2>1. stream' = stream /\ at = "before" /\ Awaited = <<>>
    BY <1>2 DEF BeforeModel, Awaited
  <2>2. at' = "failed" \/ (at' = "streaming" /\ acc' = NoAnswer)
    BY <1>2 DEF BeforeModel
  <2>3. at' = "streaming" => Awaited' = <<>>
    BY <2>2 DEF Awaited, NoAnswer
  <2> QED BY <2>1, <2>2, <2>3, AnsweredKept
<1>3. CASE TextDelta
  <2>1. at = "streaming" /\ at' = at /\ turn' = turn /\ acc'.calls = acc.calls
    BY <1>3 DEF TextDelta, TurnTyped
  <2>2. Awaited' = Awaited
    BY <2>1 DEF Awaited
  <2>3. stream'.calls = stream.calls /\ stream'.pending = stream.pending
    <3>1. CASE reply.disabled
      BY <1>3, <3>1 DEF TextDelta
    <3>2. CASE ~reply.disabled
      <4>1. PICK text : text = Head(coming).text
        OBVIOUS
      <4>2. text \in Seq(Nat)
        BY <1>3, <4>1, ComingTyped DEF TextDelta
      <4>3. PICK raw : raw = reply.raw \o text
        OBVIOUS
      <4>4. PICK ok \in BOOLEAN, held \in Len(reply.public)..Len(Body(raw)) :
              /\ reply' = Publishable(reply, raw, TRUE, ok, held)
              /\ stream' = PushText(stream, Delta(reply, reply'), TRUE)
        BY <1>3, <3>2, <4>1, <4>3 DEF TextDelta
      <4>5. reply \in Gates /\ reply' \in Gates
        BY <1>3, TextTyped DEF TurnTyped, Gates
      <4>6. PICK d : d = Delta(reply, reply')
        OBVIOUS
      <4>7. d \in Seq(Nat) /\ stream' = PushText(stream, d, TRUE)
        BY <4>4, <4>5, <4>6, DeltaTyped
      <4>8. stream \in Streams /\ (stream.open => stream.shown # <<>>)
        BY DEF TurnTyped
      <4>9. PICK next : next = PushText(stream, d, TRUE)
        OBVIOUS
      <4>10. next.calls = stream.calls /\ next.pending = stream.pending
        BY <4>7, <4>8, <4>9, TextPushed, Zenon
      <4> QED BY <4>7, <4>9, <4>10
    <3> QED BY <3>1, <3>2
  <2> QED BY <2>1, <2>2, <2>3, AnsweredKept
<1>4. CASE CallDelta
  BY <1>4, CallAwaited
<1>5. CASE Retry
  BY <1>5, AnsweredKept DEF Retry, Awaited
<1>6. CASE ModelFails \/ UsageLost \/ Refuse
  BY <1>6, AnsweredKept DEF ModelFails, UsageLost, Refuse
<1>7. CASE Completed
  <2>1. at = "streaming" /\ turn' = turn /\ acc' = acc
    BY <1>7 DEF Completed
  <2>2. at' \in {"failed", "tools", "worker"}
    BY <1>7 DEF Completed
  <2>3. Awaited = acc.calls /\ (at' # "failed" => Awaited' = acc.calls)
    BY <2>1, <2>2 DEF Awaited
  <2>4. CASE acc.calls # <<>>
    <3>1. stream' = CloseMessage(stream) /\ at' # "worker"
          /\ tools' = [i \in DOMAIN acc.calls |->
                        [raw |-> acc.calls[i].raw, args |-> acc.calls[i].args,
                         state |-> "waiting", result |-> "none"]]
      BY <1>7, <2>4 DEF Completed
    <3>2. DOMAIN tools' = DOMAIN acc.calls
          /\ \A i \in DOMAIN tools' : /\ tools'[i].raw = acc.calls[i].raw
                                      /\ tools'[i].args = acc.calls[i].args
      BY <3>1
    <3>3. stream'.calls = stream.calls /\ stream'.pending = stream.pending
      BY <3>1, MessageClosed DEF TurnTyped
    <3> QED BY <2>1, <2>2, <2>3, <3>1, <3>2, <3>3, AnsweredKept
  <2>5. CASE acc.calls = <<>>
    <3>1. at' = "worker" /\ stream' = PushText(stream, Delta(reply, reply'), TRUE)
      BY <1>7, <2>5 DEF Completed
    <3>2. reply \in Gates /\ reply' \in Gates
      BY <1>7, CompletedTyped DEF TurnTyped, Gates
    <3>3. PICK d : d = Delta(reply, reply')
      OBVIOUS
    <3>4. d \in Seq(Nat) /\ stream' = PushText(stream, d, TRUE)
      BY <3>1, <3>2, <3>3, DeltaTyped
    <3>5. stream \in Streams /\ (stream.open => stream.shown # <<>>)
      BY DEF TurnTyped
    <3>6. PICK next : next = PushText(stream, d, TRUE)
      OBVIOUS
    <3>7. next.calls = stream.calls /\ next.pending = stream.pending
      BY <3>4, <3>5, <3>6, TextPushed, Zenon
    <3> QED BY <2>1, <2>3, <2>5, <3>1, <3>4, <3>6, <3>7, AnsweredKept
  <2> QED BY <2>4, <2>5
<1>8. ASSUME NEW i \in DOMAIN tools, StartTool(i) \/ EndTool(i) \/ ToolFails(i) PROVE Answered'
  <2>1. CASE ToolFails(i)
    BY <2>1, AnsweredKept DEF ToolFails
  <2>2. CASE StartTool(i) \/ EndTool(i)
    <3>1. at = "tools" /\ at' = at /\ turn' = turn /\ acc' = acc /\ stream' = stream
      BY <2>2 DEF StartTool, EndTool
    <3>2. DOMAIN tools' = DOMAIN tools
          /\ \A j \in DOMAIN tools : tools'[j].raw = tools[j].raw /\ tools'[j].args = tools[j].args
      BY <2>2, StartTyped, EndTyped
    <3>3. DOMAIN tools = DOMAIN acc.calls
          /\ \A j \in DOMAIN tools : /\ tools[j].raw = acc.calls[j].raw
                                     /\ tools[j].args = acc.calls[j].args
      BY <3>1 DEF Answered
    <3>4. Awaited' = Awaited
      BY <3>1 DEF Awaited
    <3> QED BY <3>1, <3>2, <3>3, <3>4, AnsweredKept
  <2> QED BY <1>8, <2>1, <2>2
<1>9. CASE YieldResults
  <2>1. at = "tools" /\ at' = "before" /\ turn' = turn
        /\ stream' = FoldLeft(LAMBDA a, tool : PushResult(a, ResultOf(tool)), stream, tools)
    BY <1>9 DEF YieldResults
  <2>2. tools \in Seq(TurnTools)
    BY DEF TurnTyped
  <2>3. PICK s : /\ s[0] = stream
                 /\ \A n \in 1..Len(tools) : s[n] = PushResult(s[n - 1], ResultOf(tools[n]))
                 /\ stream' = s[Len(tools)]
    BY <2>1, <2>2, ResultsFolded
  <2>4. PICK last : last = s[Len(tools)]
    OBVIOUS
  <2>5. /\ \A r \in RawIds : last.pending[r] = NoCall
        /\ \A j \in DOMAIN last.calls : WellAnswered(last.calls[j])
                                        /\ last.calls[j].answer # Unanswered
    BY <2>1, <2>3, <2>4, ResultsAnswer
  <2>6. stream' = last
    BY <2>3, <2>4
  <2>7. Awaited' = <<>>
    BY <2>1 DEF Awaited
  <2>8. /\ \A r \in RawIds : stream'.pending[r] = NoCall
        /\ \A j \in DOMAIN stream'.calls : WellAnswered(stream'.calls[j])
                                           /\ stream'.calls[j].answer # Unanswered
    BY <2>5, <2>6
  <2>9. \A c \in DOMAIN Awaited' : FALSE
    BY <2>7
  <2>10. at' # "worker" /\ at' # "tools"
    BY <2>1
  <2>11. \A j \in DOMAIN stream'.calls : WellAnswered(stream.calls[j])'
    BY <2>8 DEF WellAnswered
  <2> QED BY <2>8, <2>9, <2>10, <2>11, Zenon DEF Answered
<1>10. CASE Answer \/ GoOn \/ Block
  <2>1. at = "worker" /\ at' \in {"over", "idle"} /\ turn' = turn
    BY <1>10 DEF Answer, GoOn, Block
  <2>2. Awaited = <<>> /\ Awaited' = <<>>
    <3>1. acc.calls = <<>>
      BY <2>1 DEF Answered
    <3> QED BY <2>1, <3>1 DEF Awaited
  <2>3. stream'.calls = stream.calls /\ stream'.pending = stream.pending
    <3>1. Body(acc.text) \in Seq(Nat) /\ Other \in Seq(Nat)
      BY BodyTyped DEF TurnTyped, Other
    <3>2. Publish(Body(acc.text)) \/ Publish(Other) \/ UNCHANGED <<stream, replies>>
      BY <1>10 DEF Answer, GoOn, Block
    <3> QED BY <3>1, <3>2, PublishTyped
  <2> QED BY <2>1, <2>2, <2>3, AnsweredKept
<1>11. CASE Finish
  <2>1. stream'.calls = stream.calls /\ stream'.pending = stream.pending
    BY <1>11, MessageClosed DEF Finish, TurnTyped
  <2> QED BY <1>11, <2>1, AnsweredKept DEF Finish, Awaited
<1>12. CASE UNCHANGED turnVars
  BY <1>12 DEF turnVars, Answered, Awaited, WellAnswered
<1> QED BY <1>1, <1>2, <1>3, <1>4, <1>5, <1>6, <1>7, <1>8, <1>9, <1>10, <1>11, <1>12
    DEF TurnNext

LEMMA AnsweredMeans ==
  ASSUME TurnTyped, Answered PROVE ResultsAnswerTheirCalls
<1>1. ASSUME at = "before", NEW i \in DOMAIN stream.calls
      PROVE  stream.calls[i].answer # Unanswered
  <2>1. Awaited = <<>>
    BY <1>1 DEF Awaited
  <2>2. \A r \in RawIds : stream.pending[r] = NoCall
    BY <1>1, <2>1 DEF Answered
  <2>3. stream.calls[i].raw \in RawIds /\ i # NoCall
    BY CallsInOrder
  <2> QED BY <1>1, <2>2, <2>3 DEF Answered
<1> QED BY <1>1 DEF ResultsAnswerTheirCalls, Answered, WellAnswered

-----------------------------------------------------------------------------
(* The spans of the trace.                                                   *)

(* A span added at the end of the store.                                     *)
LEMMA SpanAdded ==
  ASSUME NEW S, NEW s \in Seq(S), NEW span
  PROVE  /\ Append(s, span) \in Seq(S \cup {span}) /\ Len(s) + 1 \in Nat \ {0}
         /\ DOMAIN s = 1..Len(s)
         /\ DOMAIN Append(s, span) = DOMAIN s \cup {Len(s) + 1}
         /\ Len(s) + 1 \notin DOMAIN s
         /\ Append(s, span)[Len(s) + 1] = span
         /\ \A i \in DOMAIN s : Append(s, span)[i] = s[i]
<1>1. Len(s) \in Nat /\ DOMAIN s = 1..Len(s) /\ \A i \in 1..Len(s) : s[i] \in S
  BY LenProperties, ElementOfSeq
<1>2. PICK U : U = S \cup {span}
  OBVIOUS
<1>3. s \in Seq(U)
  <2>1. s \in [1..Len(s) -> U]
    <3>1. s \in [1..Len(s) -> S]
      BY LenProperties
    <3> QED BY <1>2, <3>1
  <2> QED BY <1>1, <2>1, ListTyped
<1>4. PICK next : next = Append(s, span)
  OBVIOUS
<1>5. /\ next \in Seq(U) /\ Len(next) = Len(s) + 1
      /\ \A i \in 1..Len(s) : next[i] = s[i]
      /\ next[Len(s) + 1] = span
  BY <1>2, <1>3, <1>4, AppendProperties
<1>6. DOMAIN next = 1..(Len(s) + 1)
  BY <1>5, LenProperties
<1> QED BY <1>1, <1>2, <1>4, <1>5, <1>6

(* What recording a start does: it is stored or there already, and it opens
   its key unless it was there and the key is closed.                        *)
LEMMA StartRecorded ==
  ASSUME NEW S, NEW t \in Traces(S), NEW span, span.key \in TraceKeys, span.phase = "start",
         NEW next, next = Recorded(t, span)
  PROVE  /\ \E U : next \in Traces(U)
         /\ next.missed = t.missed
         /\ \A k \in TraceKeys \ {span.key} : /\ next.active[k] = t.active[k]
                                              /\ k \in next.closed <=> k \in t.closed
         /\ \A i \in DOMAIN t.spans : next.spans[i] = t.spans[i]
         /\ \/ /\ DOMAIN next.spans = DOMAIN t.spans \cup {Len(t.spans) + 1}
               /\ next.spans[Len(t.spans) + 1] =
                    [key |-> span.key, phase |-> span.phase, content |-> span.content,
                     owner |-> span.owner, parent |-> NoParent]
               /\ next.active[span.key] = Append(t.active[span.key], Len(t.spans) + 1)
            \/ /\ next.spans = t.spans /\ StoredAt(t, span) # {}
               /\ span.key \in t.closed => next = t
<1>1. ParentFor(t, span) = NoParent
  BY DEF ParentFor
<1>2. t.active[span.key] \in Seq(Nat) /\ t.active \in [TraceKeys -> Seq(Nat)] /\ t.missed \in Nat
      /\ t.closed \in SUBSET TraceKeys /\ t.spans \in Seq(S)
  BY DEF Traces
<1>3. CASE StoredAt(t, span) = {}
  <2>1. PICK one : one = [key |-> span.key, phase |-> span.phase, content |-> span.content,
                          owner |-> span.owner, parent |-> NoParent]
    OBVIOUS
  <2>2. PICK spans : spans = Append(t.spans, one)
    OBVIOUS
  <2>3. PICK id : id = Len(t.spans) + 1
    OBVIOUS
  <2>4. /\ spans \in Seq(S \cup {one}) /\ id \in Nat
        /\ DOMAIN spans = DOMAIN t.spans \cup {id}
        /\ spans[id] = one
        /\ \A i \in DOMAIN t.spans : spans[i] = t.spans[i]
    BY <1>2, <2>2, <2>3, SpanAdded
  <2>5. PICK kept : kept = [t EXCEPT !.spans = spans]
    OBVIOUS
  <2>6. Recorded(t, span) = MarkStart(kept, span, id, TRUE)
    BY <1>1, <1>3, <2>1, <2>2, <2>3, <2>5 DEF Recorded
  <2>7. kept.spans = spans /\ kept.active = t.active /\ kept.closed = t.closed
        /\ kept.missed = t.missed /\ kept \in Traces(S \cup {one})
    BY <2>4, <2>5 DEF Traces
  <2>8. next = [kept EXCEPT !.closed = kept.closed \ {span.key},
                              !.active = [kept.active EXCEPT ![span.key] = Append(@, id)]]
    BY <2>6 DEF MarkStart
  <2>9. Append(t.active[span.key], id) \in Seq(Nat)
    BY <1>2, <2>4, AppendProperties
  <2>10. PICK active : active = [t.active EXCEPT ![span.key] = Append(@, id)]
    OBVIOUS
  <2>11. active \in [TraceKeys -> Seq(Nat)] /\ active[span.key] = Append(t.active[span.key], id)
         /\ \A k \in TraceKeys \ {span.key} : active[k] = t.active[k]
    BY <1>2, <2>9, <2>10
  <2>12. next = [kept EXCEPT !.closed = t.closed \ {span.key}, !.active = active]
    BY <2>7, <2>8, <2>10
  <2>13. next.spans = spans /\ next.active = active /\ next.closed = t.closed \ {span.key}
         /\ next.missed = t.missed /\ next \in Traces(S \cup {one})
    BY <2>7, <2>11, <2>12 DEF Traces
  <2> QED BY <2>1, <2>3, <2>4, <2>11, <2>13
<1>4. CASE StoredAt(t, span) # {}
  <2>1. PICK id : id = CHOOSE i \in StoredAt(t, span) : TRUE
    OBVIOUS
  <2>2. id \in DOMAIN t.spans
    BY <1>4, <2>1 DEF StoredAt
  <2>3. id \in Nat
    BY <1>2, <2>2, LenProperties
  <2>4. next = MarkStart(t, span, id, FALSE)
    BY <1>1, <1>4, <2>1 DEF Recorded
  <2>5. CASE next = t
    BY <1>4, <2>5
  <2>6. CASE next # t
    <3>1. next = [t EXCEPT !.active = [t.active EXCEPT ![span.key] = Append(@, id)]]
          /\ span.key \notin t.closed
      BY <2>4, <2>6 DEF MarkStart
    <3>2. Append(t.active[span.key], id) \in Seq(Nat)
      BY <1>2, <2>3, AppendProperties
    <3>3. PICK active : active = [t.active EXCEPT ![span.key] = Append(@, id)]
      OBVIOUS
    <3>4. active \in [TraceKeys -> Seq(Nat)]
          /\ \A k \in TraceKeys \ {span.key} : active[k] = t.active[k]
      BY <1>2, <3>2, <3>3
    <3>5. next.spans = t.spans /\ next.active = active /\ next.closed = t.closed
          /\ next.missed = t.missed /\ next \in Traces(S)
      BY <3>1, <3>3, <3>4 DEF Traces
    <3> QED BY <1>4, <3>1, <3>4, <3>5
  <2> QED BY <2>5, <2>6
<1> QED BY <1>3, <1>4

AtMostOne(s) == s = <<>> \/ \E id \in Nat \ {0} : s = <<id>>

(* What recording a completion does: it hangs under the first open start of
   its key, which is done then, and closes the key.                          *)
LEMMA EndRecorded ==
  ASSUME NEW S, NEW t \in Traces(S), NEW span, span.key \in TraceKeys, span.phase = "end",
         NEW next, next = Recorded(t, span)
  PROVE  /\ \E U : next \in Traces(U)
         /\ next.missed = t.missed
         /\ \A k \in TraceKeys \ {span.key} : /\ next.active[k] = t.active[k]
                                              /\ k \in next.closed <=> k \in t.closed
         /\ \A i \in DOMAIN t.spans : next.spans[i] = t.spans[i]
         /\ \/ /\ DOMAIN next.spans = DOMAIN t.spans \cup {Len(t.spans) + 1}
               /\ next.spans[Len(t.spans) + 1] =
                    [key |-> span.key, phase |-> span.phase, content |-> span.content,
                     owner |-> span.owner, parent |-> ParentFor(t, span)]
            \/ next.spans = t.spans
         /\ span.key \in next.closed
<1>1. PICK parent : parent = ParentFor(t, span)
  OBVIOUS
<1>2. t.active[span.key] \in Seq(Nat) /\ t.active \in [TraceKeys -> Seq(Nat)] /\ t.missed \in Nat
      /\ t.closed \in SUBSET TraceKeys /\ t.spans \in Seq(S)
  BY DEF Traces
<1>3. PICK one : one = [key |-> span.key, phase |-> span.phase, content |-> span.content,
                        owner |-> span.owner, parent |-> parent]
  OBVIOUS
<1>4. PICK kept : kept = IF StoredAt(t, span) = {} THEN [t EXCEPT !.spans = Append(@, one)]
                             ELSE t
  OBVIOUS
<1>5. next = MarkEnd(kept, span, parent)
  BY <1>1, <1>3, <1>4 DEF Recorded
<1>6. /\ kept.active = t.active /\ kept.closed = t.closed /\ kept.missed = t.missed
      /\ \E U : kept \in Traces(U)
      /\ \A i \in DOMAIN t.spans : kept.spans[i] = t.spans[i]
      /\ \/ /\ DOMAIN kept.spans = DOMAIN t.spans \cup {Len(t.spans) + 1}
            /\ kept.spans[Len(t.spans) + 1] = one
         \/ kept.spans = t.spans
  <2>1. CASE StoredAt(t, span) = {}
    <3>1. PICK spans : spans = Append(t.spans, one)
      OBVIOUS
    <3>2. /\ spans \in Seq(S \cup {one})
          /\ DOMAIN spans = DOMAIN t.spans \cup {Len(t.spans) + 1}
          /\ spans[Len(t.spans) + 1] = one
          /\ \A i \in DOMAIN t.spans : spans[i] = t.spans[i]
      BY <1>2, <3>1, SpanAdded
    <3>3. kept = [t EXCEPT !.spans = spans]
      BY <1>4, <2>1, <3>1
    <3>4. kept.spans = spans /\ kept.active = t.active /\ kept.closed = t.closed
          /\ kept.missed = t.missed /\ kept \in Traces(S \cup {one})
      BY <3>2, <3>3 DEF Traces
    <3> QED BY <3>2, <3>4
  <2>2. CASE StoredAt(t, span) # {}
    BY <1>4, <2>2
  <2> QED BY <2>1, <2>2
<1>7. PICK U : kept \in Traces(U)
  BY <1>6
<1>8. PICK active : active = [t.active EXCEPT ![span.key] = IF parent # NoParent THEN Tail(@) ELSE @]
  OBVIOUS
<1>9. next = [kept EXCEPT !.active = active, !.closed = t.closed \cup {span.key}]
  BY <1>5, <1>6, <1>8 DEF MarkEnd
<1>10. (IF parent # NoParent THEN Tail(t.active[span.key]) ELSE t.active[span.key]) \in Seq(Nat)
  <2>1. parent # NoParent => t.active[span.key] # <<>>
    BY <1>1 DEF ParentFor
  <2> QED BY <1>2, <2>1, HeadTyped
<1>11. /\ active \in [TraceKeys -> Seq(Nat)]
       /\ active[span.key] = IF parent # NoParent THEN Tail(t.active[span.key])
                             ELSE t.active[span.key]
       /\ \A k \in TraceKeys \ {span.key} : active[k] = t.active[k]
  BY <1>2, <1>8, <1>10
<1>12. next.spans = kept.spans /\ next.active = active /\ next.missed = t.missed
       /\ next.closed = t.closed \cup {span.key} /\ next \in Traces(U)
  <2>1. PICK shut : shut = t.closed \cup {span.key}
    OBVIOUS
  <2>2. shut \in SUBSET TraceKeys
    BY <1>2, <2>1
  <2>3. next = [kept EXCEPT !.active = active, !.closed = shut]
    BY <1>9, <2>1
  <2>4. next.spans = kept.spans /\ next.active = active /\ next.missed = kept.missed
        /\ next.closed = shut /\ next \in Traces(U)
    BY <1>7, <1>11, <2>2, <2>3 DEF Traces
  <2> QED BY <1>6, <2>1, <2>4
<1> QED BY <1>1, <1>3, <1>6, <1>11, <1>12

LEMMA EndEmpties ==
  ASSUME NEW S, NEW t \in Traces(S), NEW span, span.key \in TraceKeys, span.phase = "end",
         NEW next, next = Recorded(t, span), AtMostOne(t.active[span.key])
  PROVE  next.active[span.key] = <<>>
<1>1. PICK parent : parent = ParentFor(t, span)
  OBVIOUS
<1>2. PICK kept : kept.active = t.active /\ next = MarkEnd(kept, span, parent)
                    /\ \E U : kept \in Traces(U)
  <2>1. PICK one : one = [key |-> span.key, phase |-> span.phase, content |-> span.content,
                          owner |-> span.owner, parent |-> parent]
    OBVIOUS
  <2>2. PICK kept : kept = IF StoredAt(t, span) = {} THEN [t EXCEPT !.spans = Append(@, one)]
                               ELSE t
    OBVIOUS
  <2>3. next = MarkEnd(kept, span, parent)
    BY <1>1, <2>1, <2>2 DEF Recorded
  <2>4. CASE StoredAt(t, span) = {}
    <3>1. PICK spans : spans = Append(t.spans, one)
      OBVIOUS
    <3>2. spans \in Seq(S \cup {one})
      BY <3>1, SpanAdded DEF Traces
    <3>3. kept = [t EXCEPT !.spans = spans]
      BY <2>2, <2>4, <3>1
    <3>4. kept.active = t.active /\ kept \in Traces(S \cup {one})
      BY <3>2, <3>3 DEF Traces
    <3> QED BY <2>3, <3>4
  <2>5. CASE StoredAt(t, span) # {}
    BY <2>2, <2>3, <2>5
  <2> QED BY <2>4, <2>5
<1>3. t.active \in [TraceKeys -> Seq(Nat)]
  BY DEF Traces
<1>4. next.active = [t.active EXCEPT ![span.key] = IF parent # NoParent THEN Tail(@) ELSE @]
  BY <1>2 DEF MarkEnd, Traces
<1>5. next.active[span.key] = IF parent # NoParent THEN Tail(t.active[span.key])
                              ELSE t.active[span.key]
  BY <1>3, <1>4
<1>6. CASE t.active[span.key] = <<>>
  BY <1>1, <1>5, <1>6 DEF ParentFor
<1>7. ASSUME NEW id \in Nat \ {0}, t.active[span.key] = <<id>>
      PROVE  next.active[span.key] = <<>>
  <2>1. parent = id /\ parent # NoParent
    BY <1>1, <1>7 DEF ParentFor, NoParent
  <2>2. Tail(t.active[span.key]) = <<>>
    BY <1>7
  <2> QED BY <1>5, <2>1, <2>2
<1> QED BY <1>6, <1>7 DEF AtMostOne

LEMMA TraceInOrder ==
  ASSUME TraceTyped
  PROVE  /\ DOMAIN trace.spans = 1..Len(trace.spans) /\ Len(trace.spans) \in Nat
         /\ NoParent \notin DOMAIN trace.spans
         /\ \A i \in DOMAIN trace.spans : i \in Nat
         /\ Len(trace.spans) + 1 \notin DOMAIN trace.spans
         /\ trace.missed \in Nat /\ trace.active \in [TraceKeys -> Seq(Nat)]
<1>1. PICK S : trace \in Traces(S)
  BY DEF TraceTyped
<1>2. trace.spans \in Seq(S) /\ trace.missed \in Nat /\ trace.active \in [TraceKeys -> Seq(Nat)]
  BY <1>1 DEF Traces
<1>3. DOMAIN trace.spans = 1..Len(trace.spans) /\ Len(trace.spans) \in Nat
  BY <1>2, LenProperties
<1> QED BY <1>2, <1>3 DEF NoParent

(* What both ways of recording have in common.                               *)
LEMMA Recording ==
  ASSUME TraceTyped, NEW span, span.key \in TraceKeys, span.phase \in {"start", "end"},
         trace' = Recorded(trace, span)
  PROVE  /\ TraceTyped' /\ trace'.missed = trace.missed
         /\ \A i \in DOMAIN trace.spans :
               i \in DOMAIN trace'.spans /\ trace'.spans[i] = trace.spans[i]
         /\ \A i \in DOMAIN trace'.spans :
               \/ i \in DOMAIN trace.spans
               \/ /\ trace'.spans[i].key = span.key /\ trace'.spans[i].content = span.content
                  /\ trace'.spans[i].owner = span.owner
                  /\ trace'.spans[i].parent = ParentFor(trace, span)
         /\ \A k \in TraceKeys \ {span.key} : /\ trace'.active[k] = trace.active[k]
                                              /\ k \in trace'.closed <=> k \in trace.closed
<1>1. PICK t : t = trace
  OBVIOUS
<1>2. PICK next : next = trace'
  OBVIOUS
<1>3. PICK S : t \in Traces(S)
  BY <1>1 DEF TraceTyped
<1>4. next = Recorded(t, span)
  BY <1>1, <1>2
<1>5. /\ \E U : next \in Traces(U)
      /\ next.missed = t.missed
      /\ \A k \in TraceKeys \ {span.key} : /\ next.active[k] = t.active[k]
                                           /\ k \in next.closed <=> k \in t.closed
      /\ \A i \in DOMAIN t.spans : next.spans[i] = t.spans[i]
      /\ \/ /\ DOMAIN next.spans = DOMAIN t.spans \cup {Len(t.spans) + 1}
            /\ next.spans[Len(t.spans) + 1] =
                 [key |-> span.key, phase |-> span.phase, content |-> span.content,
                  owner |-> span.owner, parent |-> ParentFor(t, span)]
         \/ next.spans = t.spans
  <2>1. CASE span.phase = "start"
    <3>1. ParentFor(t, span) = NoParent
      BY <2>1 DEF ParentFor
    <3> QED BY <1>3, <1>4, <2>1, <3>1, StartRecorded
  <2>2. CASE span.phase = "end"
    BY <1>3, <1>4, <2>2, EndRecorded
  <2> QED BY <2>1, <2>2
<1>6. TraceTyped'
  BY <1>2, <1>5 DEF TraceTyped
<1> QED BY <1>1, <1>2, <1>5, <1>6

(* A completion hangs under its start when that is all that is open.         *)
LEMMA ParentsKept ==
  ASSUME TraceTyped, ParentsOwn, NEW span, span.key \in TraceKeys,
         span.phase \in {"start", "end"},
         trace' = Recorded(trace, span),
         span.phase = "end" => OpenFor(span.key, span.owner)
  PROVE  ParentsOwn'
<1>1. PICK parent : parent = ParentFor(trace, span)
  OBVIOUS
<1>2. parent # NoParent => parent \in DOMAIN trace.spans
                           /\ trace.spans[parent].owner = span.owner
  <2> SUFFICES ASSUME parent # NoParent
               PROVE  parent \in DOMAIN trace.spans /\ trace.spans[parent].owner = span.owner
    OBVIOUS
  <2>1. span.phase = "end" /\ trace.active[span.key] # <<>>
        /\ parent = Head(trace.active[span.key])
    BY <1>1 DEF ParentFor
  <2>2. PICK id \in DOMAIN trace.spans : trace.active[span.key] = <<id>>
                                         /\ trace.spans[id].owner = span.owner
    BY <2>1 DEF OpenFor
  <2> QED BY <2>1, <2>2
<1> SUFFICES ASSUME NEW i \in DOMAIN trace'.spans, trace'.spans[i].parent # NoParent
             PROVE  /\ trace'.spans[i].parent \in DOMAIN trace'.spans
                    /\ trace'.spans[trace'.spans[i].parent].owner = trace'.spans[i].owner
  BY DEF ParentsOwn
<1>3. \A j \in DOMAIN trace.spans :
         j \in DOMAIN trace'.spans /\ trace'.spans[j] = trace.spans[j]
  BY Recording
<1>4. CASE i \in DOMAIN trace.spans
  <2>1. trace'.spans[i] = trace.spans[i]
    BY <1>3, <1>4
  <2>2. /\ trace.spans[i].parent \in DOMAIN trace.spans
        /\ trace.spans[trace.spans[i].parent].owner = trace.spans[i].owner
    BY <1>4, <2>1 DEF ParentsOwn
  <2> QED BY <1>3, <2>1, <2>2
<1>5. CASE i \notin DOMAIN trace.spans
  <2>1. trace'.spans[i].owner = span.owner /\ trace'.spans[i].parent = parent
    BY <1>1, <1>5, Recording
  <2> QED BY <1>2, <1>3, <2>1
<1> QED BY <1>4, <1>5

(* The other keys do not notice.                                             *)
LEMMA Elsewhere ==
  ASSUME TraceTyped, NEW span, span.key \in TraceKeys, span.phase \in {"start", "end"},
         trace' = Recorded(trace, span), NEW k \in TraceKeys, k # span.key
  PROVE  /\ trace'.active[k] = trace.active[k]
         /\ \A c : OpenFor(k, c) => OpenFor(k, c)'
         /\ Settled(k) => Settled(k)'
<1>1. trace'.active[k] = trace.active[k] /\ (k \in trace'.closed <=> k \in trace.closed)
  BY Recording
<1>2. \A i \in DOMAIN trace.spans : i \in DOMAIN trace'.spans /\ trace'.spans[i] = trace.spans[i]
  BY Recording
<1>3. \A i \in DOMAIN trace'.spans : i \in DOMAIN trace.spans \/ trace'.spans[i].key = span.key
  BY Recording
<1>4. ASSUME NEW c, OpenFor(k, c) PROVE OpenFor(k, c)'
  <2>1. CASE trace.active[k] = <<>>
    BY <1>1, <2>1 DEF OpenFor
  <2>2. CASE trace.active[k] # <<>>
    <3>1. PICK id \in DOMAIN trace.spans : trace.active[k] = <<id>> /\ trace.spans[id].owner = c
      BY <1>4, <2>2 DEF OpenFor
    <3>2. id \in DOMAIN trace'.spans /\ trace'.active[k] = <<id>> /\ trace'.spans[id].owner = c
      BY <1>1, <1>2, <3>1
    <3> QED BY <3>2 DEF OpenFor
  <2> QED BY <2>1, <2>2
<1>5. ASSUME Settled(k) PROVE Settled(k)'
  BY <1>1, <1>2, <1>3, <1>5 DEF Settled
<1> QED BY <1>1, <1>4, <1>5

(* An ended operation has nothing open, and its key is closed.               *)
LEMMA EndedClosed ==
  ASSUME TraceTyped, NEW span, span.key \in TraceKeys, span.phase = "end",
         OpenFor(span.key, span.owner), trace' = Recorded(trace, span)
  PROVE  trace'.active[span.key] = <<>> /\ span.key \in trace'.closed
<1>1. PICK t : t = trace
  OBVIOUS
<1>2. PICK next : next = trace'
  OBVIOUS
<1>3. PICK S : t \in Traces(S)
  BY <1>1 DEF TraceTyped
<1>4. next = Recorded(t, span)
  BY <1>1, <1>2
<1>5. span.key \in next.closed
  BY <1>3, <1>4, EndRecorded
<1>7. AtMostOne(t.active[span.key])
  <2>1. CASE trace.active[span.key] = <<>>
    BY <1>1, <2>1 DEF AtMostOne
  <2>2. CASE trace.active[span.key] # <<>>
    <3>1. PICK id \in DOMAIN trace.spans : trace.active[span.key] = <<id>>
      BY <2>2 DEF OpenFor
    <3>2. id \in Nat \ {0}
      BY <3>1, TraceInOrder DEF NoParent
    <3> QED BY <1>1, <3>1, <3>2 DEF AtMostOne
  <2> QED BY <2>1, <2>2
<1>8. next.active[span.key] = <<>>
  BY <1>3, <1>4, <1>7, EndEmpties
<1> QED BY <1>2, <1>5, <1>8

(* A started operation whose key was settled has its own start open, or none
   when the same start has been stored before.                               *)
LEMMA StartedOpen ==
  ASSUME TraceTyped, NEW span, span.key \in TraceKeys, span.phase = "start",
         trace.active[span.key] = <<>>, Settled(span.key), trace' = Recorded(trace, span)
  PROVE  OpenFor(span.key, span.owner)'
<1>1. PICK t : t = trace
  OBVIOUS
<1>2. PICK next : next = trace'
  OBVIOUS
<1>3. PICK S : t \in Traces(S)
  BY <1>1 DEF TraceTyped
<1>4. PICK n : n = Len(t.spans) + 1
  OBVIOUS
<1>5. \/ /\ DOMAIN next.spans = DOMAIN t.spans \cup {n}
         /\ next.spans[n] = [key |-> span.key, phase |-> span.phase, content |-> span.content,
                             owner |-> span.owner, parent |-> NoParent]
         /\ next.active[span.key] = Append(t.active[span.key], n)
      \/ /\ next.spans = t.spans /\ StoredAt(t, span) # {}
         /\ span.key \in t.closed => next = t
  BY <1>1, <1>2, <1>3, <1>4, StartRecorded
<1>6. CASE next.active[span.key] = Append(t.active[span.key], n) /\ n \in DOMAIN next.spans
           /\ next.spans[n].owner = span.owner
  <2>1. next.active[span.key] = <<n>>
    BY <1>1, <1>6
  <2> QED BY <1>2, <1>6, <2>1 DEF OpenFor
<1>7. CASE StoredAt(t, span) # {} /\ (span.key \in t.closed => next = t)
  <2>1. span.key \in t.closed
    BY <1>1, <1>7 DEF StoredAt, Settled
  <2> QED BY <1>1, <1>2, <1>7, <2>1 DEF OpenFor
<1> QED BY <1>5, <1>6, <1>7

-----------------------------------------------------------------------------
(* The steps keep the spans under their starts.                              *)

LEMMA Seen ==
  ASSUME TraceTyped, NEW span, Observe(span)
  PROVE  \/ TraceTyped' /\ trace'.missed # 0
         \/ trace' = Recorded(trace, span)
<1>1. PICK seen \in BOOLEAN : trace' = Observed(trace, span, seen)
  BY DEF Observe
<1>2. CASE seen
  BY <1>1, <1>2 DEF Observed
<1>3. CASE ~seen
  <2>1. PICK S : trace \in Traces(S)
    BY DEF TraceTyped
  <2>2. trace' = [trace EXCEPT !.missed = @ + 1]
    BY <1>1, <1>3 DEF Observed
  <2>3. trace' \in Traces(S) /\ trace'.missed = trace.missed + 1 /\ trace.missed \in Nat
    <3>1. PICK n : n = trace.missed + 1
      OBVIOUS
    <3>2. trace.missed \in Nat /\ n \in Nat
      BY <2>1, <3>1 DEF Traces
    <3>3. trace' = [trace EXCEPT !.missed = n]
      BY <2>2, <3>1
    <3>4. trace' \in Traces(S) /\ trace'.missed = n
      BY <2>1, <3>2, <3>3 DEF Traces
    <3> QED BY <3>1, <3>2, <3>4
  <2> QED BY <2>3 DEF TraceTyped
<1> QED BY <1>2, <1>3

LEMMA TracedKept ==
  ASSUME Traced, trace' = trace, at # "failed", turn' = turn,
         \/ at' = "failed"
         \/ /\ at # "streaming" => at' # "streaming"
            /\ at = "streaming" => at' = "streaming"
            /\ at # "tools" \/ \A k \in RawIds : ~Busy(k)
            /\ \A k \in RawIds : Busy(k)' <=> Busy(k)
  PROVE  Traced'
<1>1. TraceTyped'
  BY DEF Traced, TraceTyped
<1>2. ASSUME trace'.missed = 0 PROVE ParentsOwn' /\ (at' # "failed" => ModelSpans' /\ ToolSpans')
  <2>1. ParentsOwn /\ ModelSpans /\ ToolSpans
    BY <1>2 DEF Traced
  <2>2. ParentsOwn'
    BY <2>1 DEF ParentsOwn
  <2>3. ASSUME at' # "failed" PROVE ModelSpans'
    BY <2>1, <2>3 DEF ModelSpans, OpenFor
  <2>4. ASSUME at' # "failed" PROVE ToolSpans'
    <3>1. \A k \in RawIds : ~Busy(k)
      BY <2>1, <2>4 DEF ToolSpans
    <3>2. \A k \in RawIds : trace.active[k] = <<>> /\ Settled(k)
      BY <2>1, <3>1 DEF ToolSpans
    <3>3. \A k \in RawIds : trace'.active[k] = <<>> /\ Settled(k)'
      BY <3>2 DEF Settled
    <3>4. \A k \in RawIds : ~Busy(k)'
      BY <2>4, <3>1
    <3> QED BY <3>3, <3>4 DEF ToolSpans
  <2> QED BY <2>2, <2>3, <2>4
<1> QED BY <1>1, <1>2 DEF Traced

(* A step that records a span and has been seen.                             *)
LEMMA TracedRecorded ==
  ASSUME TraceTyped, Traced, at # "failed", NEW span, span.key \in TraceKeys,
         span.phase \in {"start", "end"}, Observe(span),
         trace.missed = 0 /\ span.phase = "end" => OpenFor(span.key, span.owner),
         at' # "failed" /\ trace.missed = 0 /\ trace' = Recorded(trace, span)
           => ModelSpans' /\ ToolSpans'
  PROVE  Traced'
<1>1. CASE TraceTyped' /\ trace'.missed # 0
  BY <1>1 DEF Traced
<1>2. CASE trace' = Recorded(trace, span)
  <2>1. TraceTyped' /\ trace'.missed = trace.missed
    BY <1>2, Recording
  <2>2. ASSUME trace'.missed = 0 PROVE ParentsOwn' /\ (at' # "failed" => ModelSpans' /\ ToolSpans')
    <3>1. trace.missed = 0 /\ ParentsOwn
      BY <2>1, <2>2 DEF Traced
    <3>2. ParentsOwn'
      BY <1>2, <3>1, ParentsKept
    <3> QED BY <1>2, <3>1, <3>2
  <2> QED BY <2>1, <2>2 DEF Traced
<1> QED BY <1>1, <1>2, Seen

LEMMA NoneRunning ==
  ASSUME TraceTyped, Traced, trace.missed = 0, at \notin {"failed", "tools"}
  PROVE  \A k \in RawIds : ~Busy(k) /\ trace.active[k] = <<>> /\ Settled(k)
BY DEF Traced, ToolSpans

(* The spans of model calls: those of the tools do not notice.               *)
LEMMA ToolsQuiet ==
  ASSUME TraceTyped, Traced, trace.missed = 0, at \notin {"failed", "tools"},
         NEW span, span.key = "model", span.phase \in {"start", "end"},
         trace' = Recorded(trace, span), \A k \in RawIds : ~Busy(k)'
  PROVE  ToolSpans'
<1> SUFFICES ASSUME NEW k \in RawIds PROVE trace'.active[k] = <<>> /\ Settled(k)'
  BY DEF ToolSpans
<1>1. k \in TraceKeys /\ k # span.key /\ span.key \in TraceKeys
  BY ModelTurnAssumption DEF TraceKeys
<1>2. trace.active[k] = <<>> /\ Settled(k)
  BY NoneRunning
<1> QED BY <1>1, <1>2, Elsewhere

(* A model call begins.                                                      *)
LEMMA BeginTraced ==
  ASSUME TurnTyped, Traced, BeforeModel PROVE Traced'
<1>1. TraceTyped /\ at = "before" /\ turn \in Nat /\ turn' = turn + 1
      /\ at' \in {"failed", "streaming"}
  BY DEF Traced, BeforeModel, TurnTyped
<1>2. CASE ~(used < Budget)
  <2>1. trace' = trace /\ at' = "failed"
    BY <1>2 DEF BeforeModel
  <2>2. TraceTyped' /\ (trace'.missed = 0 => ParentsOwn')
    BY <2>1 DEF Traced, TraceTyped, ParentsOwn
  <2> QED BY <2>1, <2>2 DEF Traced
<1>3. CASE used < Budget
  <2>1. PICK span : span = ModelSpan("start")
    OBVIOUS
  <2>2. PICK now : now = turn + 1
    OBVIOUS
  <2>3. span = [key |-> "model", phase |-> "start", content |-> <<now>>,
                owner |-> <<now, "model">>]
    BY <1>1, <2>1, <2>2 DEF ModelSpan
  <2>4. Observe(span)
    BY <1>3, <2>1 DEF BeforeModel
  <2>5. span.key = "model" /\ span.key \in TraceKeys /\ span.phase = "start"
        /\ span.content = <<now>> /\ span.owner = <<now, "model">>
    BY <2>3 DEF TraceKeys
  <2>6. ASSUME at' # "failed", trace.missed = 0, trace' = Recorded(trace, span)
        PROVE  ModelSpans' /\ ToolSpans'
    <3>1. at' = "streaming" /\ tools' = <<>>
      BY <1>1, <2>6 DEF BeforeModel
    <3>2. \A k \in RawIds : ~Busy(k)'
      BY <3>1 DEF Busy
    <3>3. ToolSpans'
      BY <1>1, <2>5, <2>6, <3>2, ToolsQuiet
    <3>4. ModelSpans
      BY <1>1, <2>6 DEF Traced
    <3>5. \A i \in DOMAIN trace.spans :
             trace.spans[i].key = "model" => \E j \in 0..turn : trace.spans[i].content = <<j>>
      BY <3>4 DEF ModelSpans
    <3>6. \A i \in DOMAIN trace'.spans :
             trace'.spans[i].key = "model" => \E j \in 0..now : trace'.spans[i].content = <<j>>
      <4> SUFFICES ASSUME NEW i \in DOMAIN trace'.spans, trace'.spans[i].key = "model"
                   PROVE  \E j \in 0..now : trace'.spans[i].content = <<j>>
        OBVIOUS
      <4>1. \A j \in 0..turn : j \in 0..now
        BY <1>1, <2>2
      <4>2. now \in 0..now
        BY <1>1, <2>2
      <4>3. CASE i \in DOMAIN trace.spans
        <5>1. trace'.spans[i] = trace.spans[i]
          BY <1>1, <2>5, <2>6, <4>3, Recording
        <5> QED BY <3>5, <4>1, <4>3, <5>1
      <4>4. CASE i \notin DOMAIN trace.spans
        <5>1. trace'.spans[i].content = span.content
          BY <1>1, <2>5, <2>6, <4>4, Recording
        <5> QED BY <2>5, <4>2, <5>1
      <4> QED BY <4>3, <4>4
    <3>7. trace.active["model"] = <<>>
      BY <1>1, <3>4 DEF ModelSpans
    <3>8. OpenFor("model", <<now, "model">>)'
      <4>1. StoredAt(trace, span) = {}
        <5> SUFFICES ASSUME NEW i \in DOMAIN trace.spans, trace.spans[i].key = "model",
                            trace.spans[i].content = <<now>>
                     PROVE  FALSE
          BY <2>5 DEF StoredAt
        <5>1. PICK j \in 0..turn : <<now>> = <<j>>
          BY <3>5
        <5>2. now = j
          BY <5>1
        <5> QED BY <1>1, <2>2, <5>2
      <4>2. PICK t : t = trace
        OBVIOUS
      <4>3. PICK next : next = trace'
        OBVIOUS
      <4>4. PICK S : t \in Traces(S)
        BY <1>1, <4>2 DEF TraceTyped
      <4>5. PICK n : n = Len(t.spans) + 1
        OBVIOUS
      <4>6. next = Recorded(t, span) /\ StoredAt(t, span) = {}
        BY <2>6, <4>1, <4>2, <4>3
      <4>7. /\ DOMAIN next.spans = DOMAIN t.spans \cup {n}
            /\ next.spans[n] = [key |-> span.key, phase |-> span.phase, content |-> span.content,
                                owner |-> span.owner, parent |-> NoParent]
            /\ next.active[span.key] = Append(t.active[span.key], n)
        <5>1. \/ /\ DOMAIN next.spans = DOMAIN t.spans \cup {n}
                 /\ next.spans[n] = [key |-> span.key, phase |-> span.phase,
                                     content |-> span.content, owner |-> span.owner,
                                     parent |-> NoParent]
                 /\ next.active[span.key] = Append(t.active[span.key], n)
              \/ /\ next.spans = t.spans /\ StoredAt(t, span) # {}
                 /\ span.key \in t.closed => next = t
          <6>1. span.key \in TraceKeys /\ span.phase = "start" /\ next = Recorded(t, span)
            BY <2>5, <4>6
          <6> QED BY <4>4, <4>5, <6>1, StartRecorded
        <5> QED BY <4>6, <5>1
      <4>8. n \in DOMAIN next.spans /\ next.spans[n].owner = <<now, "model">>
            /\ next.active["model"] = <<n>>
        <5>1. n \in DOMAIN next.spans /\ next.spans[n].owner = span.owner
          BY <4>7
        <5>2. t.active[span.key] = <<>>
          BY <2>5, <3>7, <4>2
        <5>3. next.active[span.key] = <<n>>
          BY <4>7, <5>2
        <5> QED BY <2>5, <5>1, <5>3
      <4> QED BY <4>3, <4>8 DEF OpenFor
    <3>9. turn' = now
      BY <1>1, <2>2
    <3>10. ModelSpans'
      <4>1. PICK c : c = <<now, "model">>
        OBVIOUS
      <4>2. OpenFor("model", c)' /\ c = <<turn', "model">>
        BY <3>8, <3>9, <4>1
      <4>3. OpenFor("model", <<turn, "model">>)'
        BY <4>2 DEF OpenFor
      <4> QED BY <3>1, <3>6, <3>9, <4>3 DEF ModelSpans
    <3> QED BY <3>3, <3>10
  <2>7. at # "failed"
    BY <1>1
  <2>8. (trace.missed = 0 /\ span.phase = "end") => OpenFor(span.key, span.owner)
    BY <2>5
  <2> QED BY <1>1, <2>4, <2>5, <2>6, <2>7, <2>8, TracedRecorded
<1> QED BY <1>2, <1>3

(* A model call ends.                                                        *)
LEMMA ModelEndTraced ==
  ASSUME TurnTyped, Traced, at = "streaming", turn' = turn, Observe(ModelSpan("end")),
         at' # "streaming", at' = "failed" \/ \A k \in RawIds : ~Busy(k)'
  PROVE  Traced'
<1>1. PICK span : span = ModelSpan("end")
  OBVIOUS
<1>2. PICK c : c = <<turn, "model">>
  OBVIOUS
<1>3. Observe(span) /\ span.key = "model" /\ span.key \in TraceKeys /\ span.phase = "end"
      /\ span.content = <<turn>> /\ span.owner = c
  BY <1>1, <1>2 DEF ModelSpan, TraceKeys
<1>4. TraceTyped /\ turn \in Nat
  BY DEF Traced, TurnTyped
<1>5. trace.missed = 0 => ModelSpans
  BY DEF Traced
<1>6. trace.missed = 0 => OpenFor("model", c)
  BY <1>2, <1>5 DEF ModelSpans
<1>7. ASSUME at' # "failed", trace.missed = 0, trace' = Recorded(trace, span)
      PROVE  ModelSpans' /\ ToolSpans'
  <2>1. ToolSpans'
    BY <1>3, <1>4, <1>7, ToolsQuiet
  <2>2. trace'.active["model"] = <<>>
    BY <1>3, <1>4, <1>6, <1>7, EndedClosed
  <2>3. \A i \in DOMAIN trace'.spans :
           trace'.spans[i].key = "model" => \E j \in 0..turn : trace'.spans[i].content = <<j>>
    <3> SUFFICES ASSUME NEW i \in DOMAIN trace'.spans, trace'.spans[i].key = "model"
                 PROVE  \E j \in 0..turn : trace'.spans[i].content = <<j>>
      OBVIOUS
    <3>1. CASE i \in DOMAIN trace.spans
      <4>1. trace'.spans[i] = trace.spans[i]
        BY <1>3, <1>4, <1>7, <3>1, Recording
      <4> QED BY <1>5, <1>7, <3>1, <4>1 DEF ModelSpans
    <3>2. CASE i \notin DOMAIN trace.spans
      <4>1. trace'.spans[i].content = span.content
        BY <1>3, <1>4, <1>7, <3>2, Recording
      <4>2. turn \in 0..turn
        BY <1>4
      <4> QED BY <1>3, <4>1, <4>2
    <3> QED BY <3>1, <3>2
  <2>4. ModelSpans'
    BY <2>2, <2>3 DEF ModelSpans, OpenFor
  <2> QED BY <2>1, <2>4
<1> QED BY <1>3, <1>4, <1>6, <1>7, TracedRecorded

(* The calls of a turn have ids of their own: one tool changes.              *)
LEMMA OneTool ==
  ASSUME TurnTyped, NEW i \in DOMAIN tools, DOMAIN tools' = DOMAIN tools,
         \A j \in DOMAIN tools : tools'[j].raw = tools[j].raw,
         \A j \in DOMAIN tools : j # i => tools'[j].state = tools[j].state
  PROVE  /\ tools[i] \in TurnTools /\ tools[i].raw \in RawIds
         /\ \A k \in RawIds : k # tools[i].raw => (Busy(k)' <=> Busy(k))
         /\ Busy(tools[i].raw) <=> tools[i].state = "running"
         /\ Busy(tools[i].raw)' <=> tools'[i].state = "running"
<1>1. tools \in Seq(TurnTools) /\ DistinctCalls(tools)
  BY DEF TurnTyped
<1>2. tools[i] \in TurnTools
  BY <1>1, LenProperties, ElementOfSeq
<1>3. tools[i].raw \in RawIds
  BY <1>2 DEF TurnTools
<1>4. ASSUME NEW k \in RawIds, k # tools[i].raw PROVE Busy(k)' <=> Busy(k)
  <2>1. \A j \in DOMAIN tools : tools[j].raw = k => j # i
    BY <1>4
  <2>2. \A j \in DOMAIN tools :
           tools[j].raw = k => tools'[j].raw = k /\ tools'[j].state = tools[j].state
    BY <2>1
  <2>3. \A j \in DOMAIN tools : tools'[j].raw = k => tools[j].raw = k
    OBVIOUS
  <2> QED BY <2>2, <2>3 DEF Busy
<1>5. \A j \in DOMAIN tools : tools[j].raw = tools[i].raw => j = i
  BY <1>1 DEF DistinctCalls
<1>6. Busy(tools[i].raw) <=> tools[i].state = "running"
  BY <1>5 DEF Busy
<1>7. Busy(tools[i].raw)' <=> tools'[i].state = "running"
  <2>1. PICK k : k = tools[i].raw
    OBVIOUS
  <2>2. tools'[i].raw = k
    BY <2>1
  <2>3. Busy(k)' <=> \E j \in DOMAIN tools' : tools'[j].raw = k /\ tools'[j].state = "running"
    BY DEF Busy
  <2>4. Busy(k)' <=> tools'[i].state = "running"
    BY <1>5, <2>1, <2>2, <2>3
  <2>5. Busy(tools[i].raw)' <=> Busy(k)'
    BY <2>1, <2>2 DEF Busy
  <2> QED BY <2>4, <2>5
<1> QED BY <1>2, <1>3, <1>4, <1>6, <1>7

(* A tool starts or ends: the spans of model calls and of other tools do not
   notice.                                                                   *)
LEMMA OthersQuiet ==
  ASSUME TurnTyped, Traced, trace.missed = 0, at = "tools", at' = "tools", turn' = turn,
         NEW span, NEW k \in RawIds, span.key = k, span.phase \in {"start", "end"},
         trace' = Recorded(trace, span),
         \A r \in RawIds : r # k => (Busy(r)' <=> Busy(r)),
         Busy(k)' => OpenFor(k, <<turn, k>>)',
         ~Busy(k)' => trace'.active[k] = <<>> /\ Settled(k)'
  PROVE  ModelSpans' /\ ToolSpans'
<1>1. TraceTyped /\ ModelSpans /\ ToolSpans
  BY DEF Traced
<1>2. k \in TraceKeys /\ k # "model" /\ "model" \in TraceKeys
  BY ModelTurnAssumption DEF TraceKeys
<1>3. ModelSpans'
  <2>1. trace'.active["model"] = trace.active["model"]
    BY <1>1, <1>2, Recording
  <2>2. trace'.active["model"] = <<>>
    BY <1>1, <2>1 DEF ModelSpans
  <2>3. \A i \in DOMAIN trace'.spans :
           trace'.spans[i].key = "model" => \E j \in 0..turn : trace'.spans[i].content = <<j>>
    <3> SUFFICES ASSUME NEW i \in DOMAIN trace'.spans, trace'.spans[i].key = "model"
                 PROVE  \E j \in 0..turn : trace'.spans[i].content = <<j>>
      OBVIOUS
    <3>1. i \in DOMAIN trace.spans
      BY <1>1, <1>2, Recording
    <3>2. trace'.spans[i] = trace.spans[i]
      BY <1>1, <1>2, <3>1, Recording
    <3> QED BY <1>1, <3>1, <3>2 DEF ModelSpans
  <2> QED BY <2>2, <2>3 DEF ModelSpans, OpenFor
<1>4. ASSUME NEW r \in RawIds, Busy(r)' PROVE OpenFor(r, <<turn, r>>)'
  <2>1. CASE r = k
    BY <1>4, <2>1
  <2>2. CASE r # k
    <3>1. r \in TraceKeys
      BY DEF TraceKeys
    <3>2. PICK c : c = <<turn, r>>
      OBVIOUS
    <3>3. OpenFor(r, c)
      BY <1>1, <1>4, <2>2, <3>2 DEF ToolSpans
    <3>4. OpenFor(r, c)'
      BY <1>1, <1>2, <2>2, <3>1, <3>3, Elsewhere
    <3>5. c = <<turn', r>>
      BY <3>2
    <3> QED BY <3>4, <3>5 DEF OpenFor
  <2> QED BY <2>1, <2>2
<1>5. ASSUME NEW r \in RawIds, ~Busy(r)' PROVE trace'.active[r] = <<>> /\ Settled(r)'
  <2>1. CASE r = k
    BY <1>5, <2>1
  <2>2. CASE r # k
    <3>1. r \in TraceKeys
      BY DEF TraceKeys
    <3>2. trace.active[r] = <<>> /\ Settled(r)
      BY <1>1, <1>5, <2>2 DEF ToolSpans
    <3> QED BY <1>1, <1>2, <2>2, <3>1, <3>2, Elsewhere
  <2> QED BY <2>1, <2>2
<1> QED BY <1>3, <1>4, <1>5 DEF ToolSpans

LEMMA ToolStartTraced ==
  ASSUME TurnTyped, Traced, NEW i \in DOMAIN tools, StartTool(i) PROVE Traced'
<1>1. at = "tools" /\ at' = at /\ turn' = turn /\ tools[i].state = "waiting" /\ TraceTyped
  BY DEF StartTool, Traced
<1>2. PICK span : span = ToolSpan(tools[i], "start", "none")
  OBVIOUS
<1>3. PICK k : k = tools[i].raw
  OBVIOUS
<1>4. PICK c : c = <<turn, k>>
  OBVIOUS
<1>5. Observe(span) /\ span.key = k /\ span.phase = "start" /\ span.owner = c
  BY <1>2, <1>3, <1>4 DEF StartTool, ToolSpan
<1>6. DOMAIN tools' = DOMAIN tools
      /\ \A j \in DOMAIN tools :
           /\ tools'[j].raw = tools[j].raw
           /\ tools'[j].state = IF j = i THEN "running" ELSE tools[j].state
  BY StartTyped
<1>7. /\ k \in RawIds
      /\ \A r \in RawIds : r # k => (Busy(r)' <=> Busy(r))
      /\ ~Busy(k)
  BY <1>1, <1>3, <1>6, OneTool
<1>8. Busy(k)'
  BY <1>3, <1>6 DEF Busy
<1>9. k \in TraceKeys
  BY <1>7 DEF TraceKeys
<1>10. ASSUME trace.missed = 0, trace' = Recorded(trace, span) PROVE ModelSpans' /\ ToolSpans'
  <2>1. trace.active[k] = <<>> /\ Settled(k)
    BY <1>1, <1>7, <1>10 DEF Traced, ToolSpans
  <2>2. OpenFor(k, c)'
    BY <1>1, <1>5, <1>9, <1>10, <2>1, StartedOpen
  <2>3. OpenFor(k, <<turn, k>>)'
    BY <1>1, <1>4, <2>2 DEF OpenFor
  <2> QED BY <1>1, <1>5, <1>7, <1>8, <1>10, <2>3, OthersQuiet
<1> QED BY <1>1, <1>5, <1>9, <1>10, TracedRecorded

LEMMA ToolEndTraced ==
  ASSUME TurnTyped, Traced, NEW i \in DOMAIN tools, EndTool(i) PROVE Traced'
<1>1. at = "tools" /\ at' = at /\ turn' = turn /\ tools[i].state = "running" /\ TraceTyped
  BY DEF EndTool, Traced
<1>2. PICK result \in Results : Observe(ToolSpan(tools[i], "end", result))
  BY DEF EndTool
<1>3. PICK span : span = ToolSpan(tools[i], "end", result)
  OBVIOUS
<1>4. PICK k : k = tools[i].raw
  OBVIOUS
<1>5. PICK c : c = <<turn, k>>
  OBVIOUS
<1>6. Observe(span) /\ span.key = k /\ span.phase = "end" /\ span.owner = c
  BY <1>2, <1>3, <1>4, <1>5 DEF ToolSpan
<1>7. DOMAIN tools' = DOMAIN tools
      /\ \A j \in DOMAIN tools :
           /\ tools'[j].raw = tools[j].raw
           /\ tools'[j].state = IF j = i THEN "done" ELSE tools[j].state
  BY EndTyped
<1>8. /\ k \in RawIds
      /\ \A r \in RawIds : r # k => (Busy(r)' <=> Busy(r))
      /\ Busy(k)
      /\ Busy(tools[i].raw)' <=> tools'[i].state = "running"
  BY <1>1, <1>4, <1>7, OneTool
<1>9. ~Busy(k)'
  BY <1>4, <1>7, <1>8 DEF Busy
<1>10. k \in TraceKeys
  BY <1>8 DEF TraceKeys
<1>11. trace.missed = 0 => OpenFor(k, c)
  BY <1>1, <1>5, <1>8 DEF Traced, ToolSpans
<1>12. ASSUME trace.missed = 0, trace' = Recorded(trace, span) PROVE ModelSpans' /\ ToolSpans'
  <2>1. trace'.active[k] = <<>> /\ k \in trace'.closed
    BY <1>1, <1>6, <1>10, <1>11, <1>12, EndedClosed
  <2>2. Settled(k)'
    BY <2>1 DEF Settled
  <2> QED BY <1>1, <1>6, <1>8, <1>9, <1>12, <2>1, <2>2, OthersQuiet
<1> QED BY <1>1, <1>6, <1>10, <1>11, <1>12, TracedRecorded

LEMMA ToolFailTraced ==
  ASSUME TurnTyped, Traced, NEW i \in DOMAIN tools, ToolFails(i) PROVE Traced'
<1>1. at = "tools" /\ at' = "failed" /\ tools[i].state = "running" /\ TraceTyped
      /\ tools' = tools
  BY DEF ToolFails, Traced
<1>2. PICK span : span = ToolSpan(tools[i], "end", "error")
  OBVIOUS
<1>3. PICK k : k = tools[i].raw
  OBVIOUS
<1>4. Observe(span) /\ span.key = k /\ span.phase = "end" /\ span.owner = <<turn, k>>
  BY <1>2, <1>3 DEF ToolSpan, ToolFails
<1>5. k \in RawIds /\ Busy(k)
  BY <1>1, <1>3, OneTool
<1>6. k \in TraceKeys
  BY <1>5 DEF TraceKeys
<1>7. trace.missed = 0 => OpenFor(span.key, span.owner)
  BY <1>1, <1>4, <1>5 DEF Traced, ToolSpans
<1> QED BY <1>1, <1>4, <1>6, <1>7, TracedRecorded

LEMMA TracedStep == TurnTyped /\ Traced /\ [TurnNext]_turnVars => Traced'
<1> SUFFICES ASSUME TurnTyped, Traced, [TurnNext]_turnVars PROVE Traced'
  OBVIOUS
<1>1. CASE Prepare
  BY <1>1, TracedKept DEF Prepare, observed, Busy
<1>2. CASE BeforeModel
  BY <1>2, BeginTraced
<1>3. CASE TextDelta \/ Retry
  BY <1>3, TracedKept DEF TextDelta, Retry, observed, Busy
<1>4. CASE CallDelta
  <2>1. at = "streaming" /\ at' \in {"streaming", "failed"} /\ turn' = turn /\ trace' = trace
        /\ tools' = tools
    BY <1>4 DEF CallDelta, observed
  <2>2. \A k \in RawIds : Busy(k)' <=> Busy(k)
    BY <2>1 DEF Busy
  <2> QED BY <2>1, <2>2, TracedKept
<1>5. CASE ModelFails
  BY <1>5, ModelEndTraced DEF ModelFails
<1>6. CASE UsageLost \/ Refuse
  BY <1>6, TracedKept DEF UsageLost, Refuse, observed
<1>7. CASE Completed
  <2>1. at = "streaming" /\ turn' = turn /\ Observe(ModelSpan("end"))
        /\ at' \in {"tools", "failed", "worker"}
    BY <1>7 DEF Completed
  <2>2. CASE acc.calls # <<>>
    <3>1. tools' = [j \in DOMAIN acc.calls |->
                     [raw |-> acc.calls[j].raw, args |-> acc.calls[j].args,
                      state |-> "waiting", result |-> "none"]]
      BY <1>7, <2>2 DEF Completed
    <3>2. \A k \in RawIds : ~Busy(k)'
      BY <3>1 DEF Busy
    <3> QED BY <2>1, <3>2, ModelEndTraced
  <2>3. CASE acc.calls = <<>>
    <3>1. tools' = tools
      BY <1>7, <2>3 DEF Completed
    <3>2. trace.missed = 0 => \A k \in RawIds : ~Busy(k)
      BY <2>1, NoneRunning DEF Traced
    <3>3. CASE trace.missed = 0
      <4>1. \A k \in RawIds : ~Busy(k)'
        BY <3>1, <3>2, <3>3 DEF Busy
      <4> QED BY <2>1, <4>1, ModelEndTraced
    <3>4. CASE trace.missed # 0
      <4>1. PICK span : span = ModelSpan("end")
        OBVIOUS
      <4>2. Observe(span) /\ span.key \in TraceKeys /\ span.phase = "end"
        BY <2>1, <4>1 DEF ModelSpan, TraceKeys
      <4> QED BY <2>1, <3>4, <4>2, TracedRecorded DEF Traced
    <3> QED BY <3>3, <3>4
  <2> QED BY <2>2, <2>3
<1>8. ASSUME NEW i \in DOMAIN tools, StartTool(i) \/ EndTool(i) \/ ToolFails(i) PROVE Traced'
  BY <1>8, ToolStartTraced, ToolEndTraced, ToolFailTraced
<1>9. CASE YieldResults
  <2>1. \A k \in RawIds : ~Busy(k)
    BY <1>9 DEF YieldResults, Busy
  <2>2. \A k \in RawIds : Busy(k)' <=> Busy(k)
    BY <1>9 DEF YieldResults, Busy
  <2> QED BY <1>9, <2>1, <2>2, TracedKept DEF YieldResults, observed
<1>10. CASE Answer \/ GoOn \/ Block \/ Finish
  <2>1. at \in {"worker", "over"} /\ at' \in {"over", "idle", "ended"} /\ turn' = turn
        /\ trace' = trace /\ tools' = tools
    BY <1>10 DEF Answer, GoOn, Block, Finish, observed
  <2>2. \A k \in RawIds : Busy(k)' <=> Busy(k)
    BY <2>1 DEF Busy
  <2> QED BY <2>1, <2>2, TracedKept
<1>11. CASE UNCHANGED turnVars
  <2>1. at' = at /\ turn' = turn /\ trace' = trace /\ tools' = tools
    BY <1>11 DEF turnVars, observed
  <2> QED BY <2>1 DEF Traced, TraceTyped, ParentsOwn, ModelSpans, ToolSpans, OpenFor, Busy,
                      Settled
<1> QED BY <1>1, <1>2, <1>3, <1>4, <1>5, <1>6, <1>7, <1>8, <1>9, <1>10, <1>11 DEF TurnNext

LEMMA TracedStart == TurnInit => Traced
<1> SUFFICES ASSUME TurnInit PROVE Traced
  OBVIOUS
<1>1. trace = [spans |-> <<>>, active |-> [k \in TraceKeys |-> <<>>], closed |-> {}, missed |-> 0]
  BY DEF TurnInit, EmptyTrace, TraceKeys
<1>2. trace \in Traces({})
  BY <1>1 DEF Traces
<1>3. \A k \in TraceKeys : trace.active[k] = <<>>
  BY <1>1
<1>4. \A i \in DOMAIN trace.spans : FALSE
  BY <1>1
<1>5. \A k : ~Busy(k)
  BY DEF TurnInit, Busy
<1>6. "model" \in TraceKeys /\ \A k \in RawIds : k \in TraceKeys
  BY DEF TraceKeys
<1>7. ModelSpans
  BY <1>3, <1>4, <1>6 DEF ModelSpans, OpenFor
<1>8. ToolSpans
  BY <1>3, <1>4, <1>5, <1>6 DEF ToolSpans, Settled
<1> QED BY <1>2, <1>4, <1>7, <1>8 DEF Traced, TraceTyped, ParentsOwn

LEMMA TracedMeans ==
  ASSUME Traced PROVE CompletionsHangUnderTheirStarts
<1>1. trace.missed \in Nat
  BY TraceInOrder DEF Traced
<1> QED BY <1>1 DEF Traced, ParentsOwn, CompletionsHangUnderTheirStarts

(* Both observers keep the calls of an invocation apart, under raw ids and    *)
(* arguments the provider uses again: results reach the call of their turn    *)
(* and completions hang under their own start (adk_mapper._push_tool_result,  *)
(* tracing/plugin.py _parent_for).                                           *)
THEOREM CallsApart == TurnSpec => []CallsKeptApart
<1> DEFINE IInv == TurnTyped /\ Answered /\ Traced
<1>1. TurnInit => IInv
  BY TurnStart, TracedStart
<1>2. IInv /\ [TurnNext]_turnVars => IInv'
  BY TurnTypesStep, AnsweredStep, TracedStep
<1>3. IInv => CallsKeptApart
  BY AnsweredMeans, TracedMeans DEF CallsKeptApart
<1> QED BY <1>1, <1>2, <1>3, PTL DEF TurnSpec

-----------------------------------------------------------------------------
(* Prefixes.                                                                 *)

LEMMA PrefixMeans ==
  ASSUME NEW S, NEW s \in Seq(S), NEW m \in Seq(S)
  PROVE  IsPrefix(s, m) <=> Len(s) <= Len(m) /\ \A i \in 1..Len(s) : s[i] = m[i]
<1>1. Len(s) \in Nat /\ Len(m) \in Nat
  BY LenProperties
<1>2. SUFFICES ASSUME Len(s) <= Len(m)
      PROVE  SubSeq(s, 1, Len(s)) = SubSeq(m, 1, Len(s)) <=> \A i \in 1..Len(s) : s[i] = m[i]
  BY <1>1 DEF IsPrefix
<1>3. PICK a : a = SubSeq(s, 1, Len(s))
  OBVIOUS
<1>4. PICK b : b = SubSeq(m, 1, Len(s))
  OBVIOUS
<1>5. a \in Seq(S) /\ Len(a) = Len(s) /\ \A i \in 1..Len(s) : a[i] = s[i]
  BY <1>1, <1>3, PrefixTyped
<1>6. b \in Seq(S) /\ Len(b) = Len(s) /\ \A i \in 1..Len(s) : b[i] = m[i]
  BY <1>1, <1>2, <1>4, PrefixTyped
<1>7. a = b <=> \A i \in 1..Len(s) : a[i] = b[i]
  BY <1>5, <1>6, SeqEqual
<1> QED BY <1>3, <1>4, <1>5, <1>6, <1>7

LEMMA PrefixEnds ==
  ASSUME NEW S, NEW m \in Seq(S)
  PROVE  IsPrefix(<<>>, m) /\ IsPrefix(m, m)
<1>1. PICK e : e = <<>>
  OBVIOUS
<1>2. e \in Seq(S) /\ Len(e) = 0 /\ Len(m) \in Nat
  BY <1>1, LenProperties
<1>3. Len(e) <= Len(m) /\ \A i \in 1..Len(e) : e[i] = m[i]
  BY <1>2
<1>4. IsPrefix(e, m)
  BY <1>2, <1>3, PrefixMeans
<1>5. Len(m) <= Len(m) /\ \A i \in 1..Len(m) : m[i] = m[i]
  BY <1>2
<1>6. IsPrefix(m, m)
  BY <1>5, PrefixMeans
<1> QED BY <1>1, <1>4, <1>6

(* The beginning of a sequence is a prefix of what that is a prefix of.       *)
LEMMA PrefixOfPrefix ==
  ASSUME NEW S, NEW s \in Seq(S), NEW m \in Seq(S), IsPrefix(s, m), NEW n \in Nat, n <= Len(s)
  PROVE  /\ SubSeq(s, 1, n) \in Seq(S) /\ IsPrefix(SubSeq(s, 1, n), m)
         /\ Len(SubSeq(s, 1, n)) = n
<1>1. PICK a : a = SubSeq(s, 1, n)
  OBVIOUS
<1>2. a \in Seq(S) /\ Len(a) = n /\ \A i \in 1..n : a[i] = s[i]
  BY <1>1, PrefixTyped
<1>3. Len(s) \in Nat /\ Len(m) \in Nat /\ Len(s) <= Len(m) /\ \A i \in 1..Len(s) : s[i] = m[i]
  BY LenProperties, PrefixMeans
<1>4. Len(a) <= Len(m) /\ \A i \in 1..Len(a) : a[i] = m[i]
  BY <1>2, <1>3
<1> QED BY <1>1, <1>2, <1>4, PrefixMeans

(* Two prefixes of one sequence: the shorter and what the longer adds.        *)
LEMMA PrefixGrows ==
  ASSUME NEW S, NEW p \in Seq(S), NEW q \in Seq(S), NEW m \in Seq(S),
         IsPrefix(p, m), IsPrefix(q, m), Len(p) <= Len(q)
  PROVE  /\ p \o SubSeq(q, Len(p) + 1, Len(q)) = q
         /\ SubSeq(q, Len(p) + 1, Len(q)) \in Seq(S)
         /\ SubSeq(q, Len(p) + 1, Len(q)) = <<>> <=> Len(p) = Len(q)
         /\ Len(p) = Len(q) => p = q
<1>1. /\ Len(p) \in Nat /\ Len(q) \in Nat /\ Len(m) \in Nat
      /\ \A i \in 1..Len(p) : p[i] = m[i] /\ i \in 1..Len(q)
      /\ \A i \in 1..Len(q) : q[i] = m[i]
  BY LenProperties, PrefixMeans
<1>2. PICK d : d = SubSeq(q, Len(p) + 1, Len(q))
  OBVIOUS
<1>3. /\ d \in Seq(S) /\ Len(d) = Len(q) - Len(p)
      /\ \A i \in 1..(Len(q) - Len(p)) : d[i] = q[Len(p) + i]
  <2>1. PICK n : n = Len(p) + 1
    OBVIOUS
  <2>2. n \in Nat \ {0} /\ Len(q) - n + 1 = Len(q) - Len(p)
        /\ \A i \in 1..(Len(q) - Len(p)) : n + i - 1 = Len(p) + i
    BY <1>1, <2>1
  <2>3. /\ SubSeq(q, n, Len(q)) \in Seq(S)
        /\ Len(SubSeq(q, n, Len(q))) = IF n <= Len(q) THEN Len(q) - n + 1 ELSE 0
        /\ \A i \in 1..(Len(q) - n + 1) : SubSeq(q, n, Len(q))[i] = q[n + i - 1]
    BY <1>1, <2>2, PrefixTyped
  <2>4. Len(d) = Len(q) - Len(p)
    BY <1>1, <1>2, <2>1, <2>3
  <2> QED BY <1>1, <1>2, <2>1, <2>2, <2>3, <2>4
<1>4. p \o d = q
  <2>1. /\ p \o d \in Seq(S) /\ Len(p \o d) = Len(p) + Len(d)
        /\ \A i \in 1..Len(p) + Len(d) : (p \o d)[i] = IF i <= Len(p) THEN p[i] ELSE d[i - Len(p)]
    BY <1>3, ConcatProperties
  <2>2. ASSUME NEW i \in 1..Len(q) PROVE (p \o d)[i] = q[i]
    <3>1. CASE i <= Len(p)
      BY <1>1, <1>3, <2>1, <3>1
    <3>2. CASE ~(i <= Len(p))
      <4>1. i - Len(p) \in 1..(Len(q) - Len(p)) /\ Len(p) + (i - Len(p)) = i
        BY <1>1, <3>2
      <4>2. d[i - Len(p)] = q[i]
        BY <1>3, <4>1
      <4> QED BY <1>1, <1>3, <2>1, <3>2, <4>2
    <3> QED BY <3>1, <3>2
  <2>3. Len(p \o d) = Len(q)
    BY <1>1, <1>3, <2>1
  <2> QED BY <2>1, <2>2, <2>3, SeqEqual
<1>5. d = <<>> <=> Len(p) = Len(q)
  BY <1>1, <1>3, EmptySeq
<1>6. Len(p) = Len(q) => p = q
  <2> SUFFICES ASSUME Len(p) = Len(q) PROVE p = q
    OBVIOUS
  <2>1. \A i \in 1..Len(p) : p[i] = q[i]
    BY <1>1
  <2> QED BY <2>1, SeqEqual
<1> QED BY <1>2, <1>3, <1>4, <1>5, <1>6

-----------------------------------------------------------------------------
(* The gate publishes prefixes of the message.                               *)

LEMMA Published ==
  ASSUME NEW m \in Seq(Nat), NEW r \in Gates, NEW raw \in Seq(Nat), NEW partial \in BOOLEAN,
         NEW ok \in BOOLEAN, NEW held \in Nat, held <= Len(Body(raw)),
         partial => Len(r.public) <= held,
         ~partial /\ Parsed(raw) => Len(r.public) <= Len(Body(raw)),
         IsPrefix(r.public, m), Parsed(raw) => IsPrefix(Body(raw), m),
         r.started = (r.public # <<>>), r.started => r.allowed = "yes",
         NEW next, next = Publishable(r, raw, partial, ok, held)
  PROVE  /\ next \in Gates /\ next.raw = raw /\ next.disabled = r.disabled
         /\ IsPrefix(next.public, m) /\ Len(r.public) <= Len(next.public)
         /\ next.started = (next.public # <<>>) /\ (next.started => next.allowed = "yes")
<1>1. PICK body : body = Body(raw)
  OBVIOUS
<1>2. body \in Seq(Nat) /\ Len(body) \in Nat /\ r.public \in Seq(Nat) /\ Len(r.public) \in Nat
  BY <1>1, BodyTyped, LenProperties DEF Gates
<1>3. PICK public : public = IF partial THEN SubSeq(body, 1, held) ELSE body
  OBVIOUS
<1>4. PICK allowed : allowed = IF r.allowed = "unasked" THEN (IF ok THEN "yes" ELSE "no")
                               ELSE r.allowed
  OBVIOUS
<1>5. next = IF ~Parsed(raw) \/ body = <<>> THEN [r EXCEPT !.raw = raw]
             ELSE IF allowed = "no" THEN [r EXCEPT !.raw = raw, !.allowed = "no"]
             ELSE [r EXCEPT !.raw = raw, !.allowed = "yes", !.public = public,
                            !.started = @ \/ public # r.public]
  BY <1>1, <1>3, <1>4 DEF Publishable
<1>6. next \in Gates
  BY PublishableTyped
<1>7. CASE ~Parsed(raw) \/ body = <<>>
  <2>1. next = [r EXCEPT !.raw = raw]
    BY <1>5, <1>7
  <2>2. next.raw = raw /\ next.disabled = r.disabled /\ next.public = r.public
        /\ next.started = r.started /\ next.allowed = r.allowed
    BY <2>1 DEF Gates
  <2> QED BY <1>2, <1>6, <2>2
<1>8. CASE ~(~Parsed(raw) \/ body = <<>>) /\ allowed = "no"
  <2>1. next = [r EXCEPT !.raw = raw, !.allowed = "no"]
    BY <1>5, <1>8
  <2>2. next.raw = raw /\ next.disabled = r.disabled /\ next.public = r.public
        /\ next.started = r.started
    BY <2>1 DEF Gates
  <2>3. r.allowed # "yes"
    BY <1>4, <1>8
  <2> QED BY <1>2, <1>6, <2>2, <2>3
<1>9. CASE ~(~Parsed(raw) \/ body = <<>>) /\ allowed # "no"
  <2>1. next = [r EXCEPT !.raw = raw, !.allowed = "yes", !.public = public,
                         !.started = @ \/ public # r.public]
    BY <1>5, <1>9
  <2>2. next.raw = raw /\ next.disabled = r.disabled /\ next.public = public
        /\ next.allowed = "yes"
    BY <2>1 DEF Gates
  <2>3. next.started = (r.started \/ public # r.public)
    BY <2>1 DEF Gates
  <2>4. IsPrefix(body, m)
    BY <1>1, <1>9
  <2>5. public \in Seq(Nat) /\ IsPrefix(public, m) /\ Len(r.public) <= Len(public)
    <3>1. CASE partial
      <4>1. public = SubSeq(body, 1, held) /\ held <= Len(body) /\ Len(r.public) <= held
        BY <1>1, <1>3, <3>1
      <4> QED BY <1>2, <2>4, <4>1, PrefixOfPrefix
    <3>2. CASE ~partial
      BY <1>1, <1>2, <1>3, <1>9, <2>4, <3>2
    <3> QED BY <3>1, <3>2
  <2>6. r.started \in BOOLEAN
    BY DEF Gates
  <2>7. r.public # <<>> => public # <<>>
    BY <1>2, <2>5, EmptySeq
  <2>8. (r.started \/ public # r.public) = (public # <<>>)
    BY <2>6, <2>7
  <2> QED BY <1>6, <2>2, <2>3, <2>5, <2>8
<1> QED BY <1>7, <1>8, <1>9

(* What the gate newly publishes continues what is shown.                    *)
LEMMA GatePushed ==
  ASSUME TurnTyped, Shown, batch' = batch, replies' = replies, reply' \in Gates,
         IsPrefix(reply'.public, Message(batch)), Len(reply.public) <= Len(reply'.public),
         reply'.started = (reply'.public # <<>>),
         stream' = PushText(stream, Delta(reply, reply'), TRUE)
  PROVE  Shown'
<1>1. PICK m : m = Message(batch)
  OBVIOUS
<1>2. PICK p : p = reply.public
  OBVIOUS
<1>3. PICK q : q = reply'.public
  OBVIOUS
<1>4. PICK s : s = stream
  OBVIOUS
<1>5. PICK d : d = SubSeq(q, Len(p) + 1, Len(q))
  OBVIOUS
<1>6. PICK next : next = PushText(s, d, TRUE)
  OBVIOUS
<1>7. stream' = next
  BY <1>2, <1>3, <1>4, <1>5, <1>6 DEF Delta
<1>8. /\ m \in Seq(Nat) /\ p \in Seq(Nat) /\ q \in Seq(Nat) /\ s \in Streams
      /\ s.open => s.shown # <<>>
      /\ replies \in Seq(Seq(Nat)) /\ IsPrefix(p, m) /\ IsPrefix(q, m) /\ Len(p) <= Len(q)
  BY <1>1, <1>2, <1>3, <1>4, MessageTyped DEF TurnTyped, Gates, Shown
<1>9. /\ p \o d = q /\ d \in Seq(Nat)
      /\ d = <<>> <=> Len(p) = Len(q)
      /\ Len(p) = Len(q) => p = q
  <2>1. /\ p \o SubSeq(q, Len(p) + 1, Len(q)) = q
        /\ SubSeq(q, Len(p) + 1, Len(q)) \in Seq(Nat)
        /\ SubSeq(q, Len(p) + 1, Len(q)) = <<>> <=> Len(p) = Len(q)
        /\ Len(p) = Len(q) => p = q
    <3>1. p \in Seq(Nat) /\ q \in Seq(Nat) /\ m \in Seq(Nat) /\ IsPrefix(p, m) /\ IsPrefix(q, m)
          /\ Len(p) <= Len(q)
      BY <1>8
    <3>2. p \o SubSeq(q, Len(p) + 1, Len(q)) = q
      BY <3>1, PrefixGrows
    <3>3. SubSeq(q, Len(p) + 1, Len(q)) \in Seq(Nat)
      BY <3>1, PrefixGrows
    <3>4. SubSeq(q, Len(p) + 1, Len(q)) = <<>> <=> Len(p) = Len(q)
      BY <3>1, PrefixGrows
    <3>5. Len(p) = Len(q) => p = q
      BY <3>1, PrefixGrows
    <3> QED BY <3>2, <3>3, <3>4, <3>5
  <2> QED BY <1>5, <2>1, Zenon
<1>10. /\ reply.started = (p # <<>>) /\ reply'.started = (q # <<>>)
       /\ IF p # <<>> THEN s.open /\ s.shown = Append(replies, p)
                      ELSE ~s.open /\ s.shown = replies
  BY <1>2, <1>3, <1>4 DEF Shown
<1>11. IF q # <<>> THEN next.open /\ next.shown = Append(replies, q)
                   ELSE ~next.open /\ next.shown = replies
  <2>1. CASE d = <<>>
    <3>1. next = s
      BY <1>6, <2>1 DEF PushText
    <3> QED BY <1>9, <1>10, <2>1, <3>1
  <2>2. CASE d # <<>>
    <3>1. next.open = TRUE
          /\ next.shown = Append(IF s.open THEN Front(s.shown) ELSE s.shown,
                                 ActiveText(s) \o NewPart(s, d, TRUE))
      BY <1>6, <1>8, <1>9, <2>2, TextPushed
    <3>2. NewPart(s, d, TRUE) = d
      BY DEF NewPart
    <3>3. (IF s.open THEN Front(s.shown) ELSE s.shown) = replies /\ ActiveText(s) = p
      <4>1. CASE p # <<>>
        <5>1. s.open /\ s.shown = Append(replies, p)
          BY <1>10, <4>1
        <5>2. Front(Append(replies, p)) = replies /\ Last(Append(replies, p)) = p
          BY <1>8, FrontAndLast
        <5> QED BY <5>1, <5>2 DEF ActiveText
      <4>2. CASE p = <<>>
        BY <1>10, <4>2 DEF ActiveText
      <4> QED BY <4>1, <4>2
    <3>4. next.shown = Append(replies, q)
      BY <1>9, <3>1, <3>2, <3>3
    <3>5. q # <<>>
      <4>1. Len(q) # 0
        BY <1>8, <1>9, <2>2, LenProperties
      <4> QED BY <1>8, <4>1, EmptySeq
    <3> QED BY <3>1, <3>4, <3>5
  <2> QED BY <2>1, <2>2
<1> QED BY <1>1, <1>3, <1>7, <1>8, <1>10, <1>11 DEF Shown

LEMMA ShownMeans ==
  ASSUME TurnTyped, Shown PROVE ShownOnce
<1>1. reply.public \in Seq(Nat) /\ replies \in Seq(Seq(Nat))
  BY DEF TurnTyped
<1>2. CASE reply.started
  <2>1. stream.open /\ stream.shown = Append(replies, reply.public)
    BY <1>2 DEF Shown
  <2>2. Front(stream.shown) = replies /\ Last(stream.shown) = reply.public
    BY <1>1, <2>1, FrontAndLast
  <2> QED BY <2>1, <2>2 DEF Shown, ShownOnce
<1>3. CASE ~reply.started
  BY <1>3 DEF Shown, ShownOnce
<1> QED BY <1>2, <1>3

(* The whole text, published as the workflow's message.                      *)
LEMMA MessagePublished ==
  ASSUME TurnTyped, NEW text \in Seq(Nat), text # <<>>, Publish(text),
         \/ ~reply.started
         \/ IsPrefix(reply.public, text),
         Shown
  PROVE  ~stream'.open /\ stream'.shown = replies'
<1>1. PICK s : s = stream
  OBVIOUS
<1>2. PICK next : next = PushText(s, text, FALSE)
  OBVIOUS
<1>3. stream' = next /\ replies' = Append(replies, text)
  BY <1>1, <1>2 DEF Publish
<1>4. s \in Streams /\ (s.open => s.shown # <<>>) /\ replies \in Seq(Seq(Nat))
      /\ reply.public \in Seq(Nat)
  BY <1>1 DEF TurnTyped
<1>5. next.open = FALSE
      /\ next.shown = Append(IF s.open THEN Front(s.shown) ELSE s.shown,
                             ActiveText(s) \o NewPart(s, text, FALSE))
  BY <1>2, <1>4, TextPushed
<1>6. CASE ~reply.started
  <2>1. ~s.open /\ s.shown = replies
    BY <1>1, <1>6 DEF Shown
  <2>2. PICK e : e = ActiveText(s)
    OBVIOUS
  <2>3. e = <<>> /\ e \in Seq(Nat) /\ Len(e) = 0 /\ Len(text) \in Nat
    BY <2>1, <2>2, LenProperties DEF ActiveText
  <2>4. IsPrefix(e, text) /\ IsPrefix(text, text) /\ Len(e) <= Len(text)
    BY <2>3, PrefixEnds
  <2>5. NewPart(s, text, FALSE) = SubSeq(text, Len(e) + 1, Len(text))
    BY <2>2, <2>4 DEF NewPart
  <2>6. e \o SubSeq(text, Len(e) + 1, Len(text)) = text
    BY <2>3, <2>4, PrefixGrows
  <2> QED BY <1>3, <1>5, <2>1, <2>2, <2>5, <2>6
<1>7. CASE reply.started
  <2>1. s.open /\ s.shown = Append(replies, reply.public) /\ IsPrefix(reply.public, text)
    BY <1>1, <1>7 DEF Shown
  <2>2. Front(s.shown) = replies /\ Last(s.shown) = reply.public
    BY <1>4, <2>1, FrontAndLast
  <2>3. PICK p : p = reply.public
    OBVIOUS
  <2>4. ActiveText(s) = p /\ p \in Seq(Nat) /\ IsPrefix(p, text)
    BY <1>4, <2>1, <2>2, <2>3 DEF ActiveText
  <2>5. NewPart(s, text, FALSE) = SubSeq(text, Len(p) + 1, Len(text))
    BY <2>4 DEF NewPart
  <2>6. Len(p) <= Len(text) /\ IsPrefix(text, text)
    BY <2>4, PrefixMeans, PrefixEnds
  <2>7. p \o SubSeq(text, Len(p) + 1, Len(text)) = text
    BY <2>4, <2>6, PrefixGrows
  <2> QED BY <1>3, <1>5, <2>1, <2>2, <2>4, <2>5, <2>7
<1> QED BY <1>6, <1>7

-----------------------------------------------------------------------------
(* The texts a response may be made of.                                      *)

LEMMA ReplyIs ==
  ASSUME TurnTyped
  PROVE  /\ Reply \in Seq(Nat) /\ Len(Reply) = Words + 1 /\ Reply[1] = Header
         /\ \A i \in 1..Words : Reply[i + 1] = Message(batch)[i]
         /\ Words \in Nat \ {0}
         /\ Message(batch) \in Seq(Nat) /\ Len(Message(batch)) = Words /\ Message(batch) # <<>>
<1>1. batch \in Nat
  BY DEF TurnTyped
<1> QED BY <1>1, ReplyTyped, MessageTyped, ModelTurnAssumption DEF Reply

LEMMA ReplyHeads ==
  ASSUME TurnTyped, NEW k \in 0..Words, NEW t, t = SubSeq(Reply, 1, k + 1)
  PROVE  /\ t \in Seq(Nat) /\ t # <<>> /\ Parsed(t)
         /\ SubSeq(Reply, 1, k) \o <<Reply[k + 1]>> = t
         /\ Body(t) \in Seq(Nat) /\ Len(Body(t)) = k /\ IsPrefix(Body(t), Message(batch))
<1>1. PICK whole : whole = Reply
  OBVIOUS
<1>2. PICK m : m = Message(batch)
  OBVIOUS
<1>3. /\ whole \in Seq(Nat) /\ Len(whole) = Words + 1 /\ whole[1] = Header
      /\ \A i \in 1..Words : whole[i + 1] = m[i]
      /\ Words \in Nat \ {0}
      /\ m \in Seq(Nat) /\ Len(m) = Words
  BY <1>1, <1>2, ReplyIs
<1>4. k \in Nat /\ k + 1 \in Nat /\ k + 1 <= Len(whole) /\ k + 1 \in 1..Len(whole)
      /\ 1 \in 1..Len(whole) /\ (k + 1) - 1 = k /\ 1 <= k + 1
  BY <1>3
<1>5. /\ t \in Seq(Nat) /\ Len(t) = k + 1
      /\ \A i \in 1..(k + 1) : t[i] = whole[i]
  BY <1>1, <1>3, <1>4, PrefixTyped
<1>6. t # <<>>
  <2>1. Len(t) # 0
    BY <1>4, <1>5
  <2> QED BY <1>5, <2>1, EmptySeq
<1>7. SubSeq(whole, 1, k) \o <<whole[k + 1]>> = t
  <2>1. k + 1 \in 1..Len(whole)
    BY <1>4
  <2>2. SubSeq(whole, 1, k + 1) = SubSeq(whole, 1, (k + 1) - 1) \o <<whole[k + 1]>>
    BY <1>3, <1>4, SubSeqRecursiveSecond
  <2> QED BY <1>1, <1>4, <2>2
<1>8. Head(t) = Header
  BY <1>3, <1>4, <1>5, <1>6, HeadTyped
<1>9. Parsed(t)
  BY <1>6, <1>8 DEF Parsed
<1>10. PICK body : body = Tail(t)
  OBVIOUS
<1>11. body \in Seq(Nat) /\ Len(body) = k /\ \A i \in 1..k : body[i] = t[i + 1]
  BY <1>4, <1>5, <1>6, <1>10, HeadTyped
<1>12. \A i \in 1..k : i \in 1..Words /\ i + 1 \in 1..(k + 1)
  BY <1>3, <1>4
<1>13. \A i \in 1..k : body[i] = m[i]
  BY <1>3, <1>5, <1>11, <1>12
<1>14. IsPrefix(body, m)
  <2>1. Len(body) <= Len(m)
    BY <1>3, <1>11
  <2> QED BY <1>3, <1>11, <1>13, <2>1, PrefixMeans
<1>15. Body(t) = body
  BY <1>9, <1>10 DEF Body
<1> QED BY <1>1, <1>2, <1>5, <1>6, <1>7, <1>9, <1>11, <1>14, <1>15

LEMMA ReplyBody ==
  ASSUME TurnTyped
  PROVE  /\ SubSeq(Reply, 1, Words + 1) = Reply /\ SubSeq(Reply, 1, 0) = <<>>
         /\ Parsed(Reply) /\ Body(Reply) = Message(batch)
         /\ ~Parsed(Json(batch)) /\ Body(Json(batch)) = Message(batch)
         /\ Json(batch) \in Seq(Nat) /\ Json(batch) # <<>>
<1>1. PICK whole : whole = Reply
  OBVIOUS
<1>2. PICK m : m = Message(batch)
  OBVIOUS
<1>3. /\ whole \in Seq(Nat) /\ Len(whole) = Words + 1 /\ whole[1] = Header
      /\ Words \in Nat \ {0}
      /\ m \in Seq(Nat) /\ Len(m) = Words /\ m # <<>>
  BY <1>1, <1>2, ReplyIs
<1>4. SubSeq(whole, 1, Words + 1) = whole
  BY <1>3, SubSeqFull
<1>5. SubSeq(whole, 1, 0) = <<>>
  BY SubSeqEmpty
<1>6. PICK k : k = Words
  OBVIOUS
<1>7. k \in 0..Words /\ whole = SubSeq(Reply, 1, k + 1)
  BY <1>1, <1>3, <1>4, <1>6
<1>8. Parsed(whole) /\ Body(whole) \in Seq(Nat) /\ Len(Body(whole)) = k
      /\ IsPrefix(Body(whole), m)
  BY <1>2, <1>7, ReplyHeads
<1>9. Body(whole) = m
  <2>1. IsPrefix(m, m) /\ Len(Body(whole)) = Len(m) /\ Len(Body(whole)) <= Len(m)
    BY <1>3, <1>6, <1>8, PrefixEnds
  <2> QED BY <1>3, <1>8, <2>1, PrefixGrows
<1>10. ~Parsed(m)
  <2>1. batch \in Nat /\ m[1] = 10 * batch + 1
    <3>1. batch \in Nat
      BY DEF TurnTyped
    <3>2. 1 \in 1..Words
      BY <1>3
    <3> QED BY <1>2, <3>1, <3>2, MessageTyped
  <2>2. Head(m) = m[1]
    BY <1>3, HeadTyped
  <2>3. Head(m) # Header
    BY <2>1, <2>2 DEF Header
  <2> QED BY <2>3 DEF Parsed
<1>11. Body(m) = m
  BY <1>10 DEF Body
<1> QED BY <1>1, <1>2, <1>3, <1>4, <1>5, <1>8, <1>9, <1>10, <1>11 DEF Json

(* What a provider may answer, before any of it has come.                    *)
LEMMA Asked ==
  ASSUME TurnTyped', batch' = batch, TurnTyped, coming' \in Plans(batch), acc' = NoAnswer
  PROVE  /\ (CallsOnly \/ Headed \/ Unheaded)'
         /\ coming' # <<>>
<1>1. PICK h : h = Reply
  OBVIOUS
<1>2. h \in Seq(Nat) /\ Len(h) = Words + 1 /\ Words \in Nat /\ Reply' = h
      /\ SubSeq(h, 1, 0) = <<>>
  BY <1>1, ReplyIs, ReplyBody DEF Reply
<1>3. acc'.text = <<>> /\ acc'.calls = <<>>
  BY DEF NoAnswer
<1>4. /\ Deltas(h) \in Seq(StreamItems) /\ Len(Deltas(h)) = Words + 1
      /\ \A k \in 1..(Words + 1) : Deltas(h)[k] = [text |-> <<h[k]>>, calls |-> <<>>]
  BY <1>2, DeltasTyped
<1>5. CASE \E c \in CallLists : coming' = CallItems(c)
  <2>1. PICK c \in CallLists : coming' = CallItems(c)
    BY <1>5
  <2>2. c \in Seq(TurnCalls) /\ Len(c) \in Nat \ {0}
    BY CallListsTyped
  <2>3. coming' \in Seq(StreamItems) /\ Len(coming') = Len(c)
        /\ \A k \in 1..Len(c) : coming'[k].text = <<>>
    <3>1. PICK items : items = CallItems(c)
      OBVIOUS
    <3>2. /\ items \in Seq(StreamItems) /\ Len(items) = Len(c)
          /\ \A k \in 1..Len(c) : items[k] = [text |-> <<>>, calls |-> <<c[k]>>]
      BY <2>2, <3>1, CallItemsTyped
    <3>3. \A k \in 1..Len(c) : items[k].text = <<>>
      <4> SUFFICES ASSUME NEW k \in 1..Len(c) PROVE items[k].text = <<>>
        OBVIOUS
      <4>1. PICK e : e = <<>>
        OBVIOUS
      <4>2. items[k] = [text |-> e, calls |-> <<c[k]>>]
        BY <3>2, <4>1
      <4>3. items[k].text = e
        BY <4>2
      <4> QED BY <4>1, <4>3
    <3> QED BY <2>1, <3>1, <3>2, <3>3
  <2>4. DOMAIN coming' = 1..Len(c)
    BY <2>3, LenProperties
  <2>5. coming' # <<>>
    BY <2>2, <2>3, EmptySeq
  <2>6. Textless(coming')
    BY <2>3, <2>4 DEF Textless
  <2>7. CallsOnly'
    BY <1>3, <2>6 DEF CallsOnly, Textless
  <2> QED BY <2>5, <2>7
<1>6. CASE coming' = <<[text |-> Json(batch), calls |-> <<>>]>>
  <2>1. PICK item : item = [text |-> Json(batch), calls |-> <<>>]
    OBVIOUS
  <2>2. coming' = <<item>>
    BY <1>6, <2>1
  <2>3. Len(coming') = 1 /\ coming'[1] = item /\ coming' # <<>>
    BY <2>2
  <2> QED BY <1>3, <2>1, <2>3 DEF Unheaded, Json, Message
<1>7. ASSUME NEW rest \in Seq(StreamItems), \A i \in DOMAIN rest : rest[i].text = <<>>,
             coming' = Deltas(h) \o rest
      PROVE  Headed' /\ coming' # <<>>
  <2>1. PICK d : d = Deltas(h)
    OBVIOUS
  <2>2. Len(rest) \in Nat /\ DOMAIN rest = 1..Len(rest)
    BY LenProperties
  <2>3. /\ d \in Seq(StreamItems) /\ Len(d) = Words + 1
        /\ \A i \in 1..(Words + 1) : d[i].text = <<h[i]>> /\ d[i].calls = <<>>
    BY <1>4, <2>1
  <2>4. /\ coming' \in Seq(StreamItems) /\ Len(coming') = Len(d) + Len(rest)
        /\ \A i \in 1..Len(d) + Len(rest) :
              coming'[i] = IF i <= Len(d) THEN d[i] ELSE rest[i - Len(d)]
    BY <1>7, <2>1, <2>3, ConcatProperties
  <2>5. DOMAIN coming' = 1..(Words + 1 + Len(rest))
    BY <2>3, <2>4, LenProperties
  <2>6. ASSUME NEW i \in DOMAIN coming'
        PROVE  IF i <= Words + 1 - 0 THEN coming'[i].text = <<h[0 + i]>> /\ coming'[i].calls = <<>>
                                     ELSE coming'[i].text = <<>>
    <3>1. i \in 1..(Words + 1 + Len(rest)) /\ 0 + i = i /\ Words + 1 - 0 = Words + 1
      BY <1>2, <2>5
    <3>2. CASE i <= Words + 1
      <4>1. i \in 1..(Words + 1) /\ coming'[i] = d[i]
        BY <1>2, <2>2, <2>3, <2>4, <3>1, <3>2
      <4> QED BY <2>3, <3>1, <3>2, <4>1
    <3>3. CASE ~(i <= Words + 1)
      <4>1. i - (Words + 1) \in DOMAIN rest
        BY <1>2, <2>2, <3>1, <3>3
      <4>2. coming'[i] = rest[i - (Words + 1)]
        BY <1>2, <2>2, <2>3, <2>4, <3>1, <3>3
      <4> QED BY <1>7, <3>1, <3>3, <4>1, <4>2
    <3> QED BY <3>2, <3>3
  <2>7. Len(coming') >= Words + 1 - 0 /\ 0 \in 0..(Words + 1)
    BY <1>2, <2>2, <2>3, <2>4
  <2>8. Headed'
    <3>1. acc'.text = SubSeq(Reply', 1, 0) /\ (0 < Words + 1 => acc'.calls = <<>>)
      BY <1>2, <1>3
    <3>2. \A i \in DOMAIN coming' :
             IF i <= Words + 1 - 0 THEN coming'[i].text = <<Reply'[0 + i]>> /\ coming'[i].calls = <<>>
                                   ELSE coming'[i].text = <<>>
      BY <1>2, <2>6
    <3> QED BY <2>7, <3>1, <3>2 DEF Headed
  <2>9. coming' # <<>>
    BY <1>2, <2>2, <2>3, <2>4, EmptySeq
  <2> QED BY <2>8, <2>9
<1>8. CASE \E c \in CallLists : coming' = Deltas(h) \o CallItems(c)
  <2>1. PICK c \in CallLists : coming' = Deltas(h) \o CallItems(c)
    BY <1>8
  <2>2. c \in Seq(TurnCalls) /\ Len(c) \in Nat \ {0}
    BY CallListsTyped
  <2>3. PICK rest : rest = CallItems(c)
    OBVIOUS
  <2>4. rest \in Seq(StreamItems) /\ Len(rest) = Len(c) /\ \A i \in 1..Len(c) : rest[i].text = <<>>
    <3>1. /\ rest \in Seq(StreamItems) /\ Len(rest) = Len(c)
          /\ \A i \in 1..Len(c) : rest[i] = [text |-> <<>>, calls |-> <<c[i]>>]
      BY <2>2, <2>3, CallItemsTyped
    <3>2. \A i \in 1..Len(c) : rest[i].text = <<>>
      <4> SUFFICES ASSUME NEW i \in 1..Len(c) PROVE rest[i].text = <<>>
        OBVIOUS
      <4>1. PICK e : e = <<>>
        OBVIOUS
      <4>2. rest[i] = [text |-> e, calls |-> <<c[i]>>]
        BY <3>1, <4>1
      <4>3. rest[i].text = e
        BY <4>2
      <4> QED BY <4>1, <4>3
    <3> QED BY <3>1, <3>2
  <2>5. DOMAIN rest = 1..Len(c)
    BY <2>4, LenProperties
  <2> QED BY <1>7, <2>1, <2>3, <2>4, <2>5
<1>9. CASE coming' = Deltas(h)
  <2>1. PICK rest : rest = <<>>
    OBVIOUS
  <2>2. rest \in Seq(StreamItems) /\ \A i \in DOMAIN rest : rest[i].text = <<>>
    BY <2>1
  <2>3. Deltas(h) \o rest = Deltas(h)
    BY <1>4, <2>1, ConcatEmptySeq
  <2> QED BY <1>7, <1>9, <2>2, <2>3
<1>10. \/ \E c \in CallLists : coming' = CallItems(c)
       \/ \E c \in CallLists : coming' = Deltas(h) \o CallItems(c)
       \/ coming' = Deltas(h)
       \/ coming' = <<[text |-> Json(batch), calls |-> <<>>]>>
  BY <1>1 DEF Plans, Reply
<1> QED BY <1>5, <1>6, <1>8, <1>9, <1>10

-----------------------------------------------------------------------------
(* The steps keep the reply and what is shown of it together.               *)

LEMMA ComingIs ==
  ASSUME TurnTyped, coming # <<>>
  PROVE  /\ coming[1] = Head(coming) /\ 1 \in DOMAIN coming /\ DOMAIN coming = 1..Len(coming)
         /\ Len(coming) \in Nat \ {0}
         /\ Len(Tail(coming)) = Len(coming) - 1 /\ DOMAIN Tail(coming) = 1..(Len(coming) - 1)
         /\ \A i \in DOMAIN Tail(coming) : i + 1 \in DOMAIN coming
                                           /\ Tail(coming)[i] = coming[i + 1]
<1>1. coming \in Seq(StreamItems)
  BY DEF TurnTyped
<1>2. /\ coming[1] = Head(coming) /\ 1 \in DOMAIN coming /\ DOMAIN coming = 1..Len(coming)
      /\ Len(coming) \in Nat \ {0}
      /\ Len(Tail(coming)) = Len(coming) - 1 /\ DOMAIN Tail(coming) = 1..(Len(coming) - 1)
      /\ \A i \in 1..(Len(coming) - 1) : Tail(coming)[i] = coming[i + 1]
  BY <1>1, HeadTyped
<1>3. \A i \in 1..(Len(coming) - 1) : i + 1 \in 1..Len(coming)
  BY <1>2
<1> QED BY <1>2, <1>3

(* A delta of a reply with its header.                                       *)
LEMMA HeadedText ==
  ASSUME TurnTyped, Headed, TextDelta, batch' = batch
  PROVE  /\ Headed' /\ acc'.text # <<>> /\ acc'.text \in Seq(Nat)
         /\ Parsed(acc'.text) /\ IsPrefix(Body(acc'.text), Message(batch))
<1>1. PICK text : text = Head(coming).text
  OBVIOUS
<1>2. /\ coming # <<>> /\ text # <<>> /\ text = coming[1].text /\ coming' = Tail(coming)
      /\ acc'.text = acc.text \o text /\ acc'.calls = acc.calls
  BY <1>1, ComingIs DEF TextDelta, TurnTyped
<1>3. PICK k \in 0..(Words + 1) :
         /\ acc.text = SubSeq(Reply, 1, k)
         /\ Len(coming) >= Words + 1 - k
         /\ \A i \in DOMAIN coming :
              IF i <= Words + 1 - k THEN coming[i].text = <<Reply[k + i]>> /\ coming[i].calls = <<>>
                                    ELSE coming[i].text = <<>>
         /\ k < Words + 1 => acc.calls = <<>>
  BY DEF Headed
<1>4. Words \in Nat /\ k \in Nat /\ Len(coming) \in Nat /\ 1 \in DOMAIN coming
      /\ DOMAIN coming = 1..Len(coming) /\ Reply' = Reply
  BY <1>2, ReplyIs, ComingIs DEF Reply
<1>5. k \in 0..Words
  <2>1. 1 <= Words + 1 - k
    BY <1>2, <1>3, <1>4
  <2> QED BY <1>3, <1>4, <2>1
<1>6. text = <<Reply[k + 1]>>
  <2>1. 1 <= Words + 1 - k
    BY <1>4, <1>5
  <2> QED BY <1>2, <1>3, <1>4, <2>1
<1>7. PICK t : t = SubSeq(Reply, 1, k + 1)
  OBVIOUS
<1>8. /\ t \in Seq(Nat) /\ t # <<>> /\ Parsed(t)
      /\ SubSeq(Reply, 1, k) \o <<Reply[k + 1]>> = t
      /\ IsPrefix(Body(t), Message(batch))
  BY <1>5, <1>7, ReplyHeads
<1>9. acc'.text = t
  BY <1>2, <1>3, <1>6, <1>8
<1>10. PICK n : n = k + 1
  OBVIOUS
<1>11. n \in 0..(Words + 1) /\ acc'.text = SubSeq(Reply, 1, n)
  BY <1>4, <1>5, <1>7, <1>9, <1>10
<1>12. acc'.calls = <<>>
  BY <1>2, <1>3, <1>4, <1>5
<1>13. Len(coming') >= Words + 1 - n
  BY <1>2, <1>3, <1>4, <1>10, ComingIs
<1>14. ASSUME NEW i \in DOMAIN coming'
       PROVE  IF i <= Words + 1 - n THEN coming'[i].text = <<Reply[n + i]>> /\ coming'[i].calls = <<>>
                                    ELSE coming'[i].text = <<>>
  <2>1. i + 1 \in DOMAIN coming /\ coming'[i] = coming[i + 1] /\ i \in Nat
    BY <1>2, ComingIs
  <2>2. (i <= Words + 1 - n <=> i + 1 <= Words + 1 - k) /\ n + i = k + (i + 1)
    BY <1>4, <1>10, <2>1
  <2> QED BY <1>3, <2>1, <2>2
<1>15. Headed'
  BY <1>4, <1>11, <1>12, <1>13, <1>14 DEF Headed
<1> QED BY <1>8, <1>9, <1>15

(* A legacy reply comes as one delta.                                        *)
LEMMA UnheadedText ==
  ASSUME TurnTyped, Unheaded, TextDelta, batch' = batch
  PROVE  /\ Unheaded' /\ acc'.text # <<>> /\ acc'.text \in Seq(Nat) /\ ~Parsed(acc'.text)
<1>1. coming # <<>> /\ coming' = Tail(coming)
      /\ acc'.text = acc.text \o Head(coming).text
  BY DEF TextDelta, TurnTyped
<1>2. acc.text = <<>> /\ Len(coming) = 1 /\ coming[1] = [text |-> Json(batch), calls |-> <<>>]
  BY <1>1 DEF Unheaded
<1>3. PICK j : j = Json(batch)
  OBVIOUS
<1>4. j \in Seq(Nat) /\ j # <<>> /\ ~Parsed(j)
  BY <1>3, ReplyBody
<1>5. Head(coming).text = j
  BY <1>1, <1>2, <1>3, ComingIs
<1>6. acc'.text = j
  BY <1>1, <1>2, <1>4, <1>5, ConcatEmptySeq
<1>7. coming' = <<>>
  <2>1. coming' \in Seq(StreamItems) /\ Len(coming') = 0
    BY <1>1, <1>2, ComingIs, ComingTyped
  <2> QED BY <2>1, EmptySeq
<1>8. Json(batch)' = j
  BY <1>3 DEF Json, Message
<1> QED BY <1>4, <1>6, <1>7, <1>8 DEF Unheaded

LEMMA TextStreamed ==
  ASSUME TurnTyped, Shown, Gated, TextDelta
  PROVE  Shown' /\ Gated'
<1>1. PICK text : text = Head(coming).text
  OBVIOUS
<1>2. /\ coming # <<>> /\ text # <<>> /\ text = coming[1].text /\ 1 \in DOMAIN coming
      /\ acc'.text = acc.text \o text /\ acc'.calls = acc.calls
      /\ batch' = batch /\ replies' = replies /\ begun' = TRUE
  BY <1>1, ComingIs DEF TextDelta, TurnTyped
<1>3. ~Textless(coming)
  BY <1>2 DEF Textless
<1>4. ~reply.disabled /\ reply.raw = acc.text /\ acc.calls = <<>> /\ (Headed \/ Unheaded)
      /\ (reply.started => reply.allowed = "yes")
  BY <1>3 DEF Gated, CallsOnly
<1>5. PICK raw : raw = acc'.text
  OBVIOUS
<1>6. raw = reply.raw \o text
  BY <1>2, <1>4, <1>5
<1>7. PICK m : m = Message(batch)
  OBVIOUS
<1>8. /\ Headed' \/ Unheaded'
      /\ raw # <<>> /\ raw \in Seq(Nat) /\ (Parsed(raw) => IsPrefix(Body(raw), m))
  BY <1>2, <1>4, <1>5, <1>7, HeadedText, UnheadedText
<1>9. PICK ok \in BOOLEAN, held \in Len(reply.public)..Len(Body(raw)) :
        /\ reply' = Publishable(reply, raw, TRUE, ok, held)
        /\ stream' = PushText(stream, Delta(reply, reply'), TRUE)
  BY <1>1, <1>4, <1>6 DEF TextDelta
<1>10. reply \in Gates /\ m \in Seq(Nat)
  BY <1>7, ReplyIs DEF TurnTyped, Gates
<1>11. held \in Nat /\ held <= Len(Body(raw)) /\ Len(reply.public) <= held
  <2>1. Len(reply.public) \in Nat /\ Len(Body(raw)) \in Nat
    BY <1>8, <1>10, BodyTyped, LenProperties DEF Gates
  <2> QED BY <2>1
<1>12. IsPrefix(reply.public, m) /\ reply.started = (reply.public # <<>>)
  BY <1>7 DEF Shown
<1>13. PICK r : r = reply
  OBVIOUS
<1>14. PICK next : next = Publishable(r, raw, TRUE, ok, held)
  OBVIOUS
<1>15. /\ next \in Gates /\ next.raw = raw /\ next.disabled = r.disabled
       /\ IsPrefix(next.public, m) /\ Len(r.public) <= Len(next.public)
       /\ next.started = (next.public # <<>>) /\ (next.started => next.allowed = "yes")
  <2>1. PICK partial : partial = TRUE
    OBVIOUS
  <2>2. /\ m \in Seq(Nat) /\ r \in Gates /\ raw \in Seq(Nat) /\ partial \in BOOLEAN
        /\ ok \in BOOLEAN /\ held \in Nat /\ held <= Len(Body(raw))
        /\ partial => Len(r.public) <= held
        /\ ~partial /\ Parsed(raw) => Len(r.public) <= Len(Body(raw))
        /\ IsPrefix(r.public, m) /\ (Parsed(raw) => IsPrefix(Body(raw), m))
        /\ r.started = (r.public # <<>>) /\ (r.started => r.allowed = "yes")
    BY <1>4, <1>8, <1>10, <1>11, <1>12, <1>13, <2>1
  <2>3. next = Publishable(r, raw, partial, ok, held)
    BY <1>14, <2>1
  <2> QED BY <2>2, <2>3, Published
<1>16. reply' = next
  BY <1>9, <1>13, <1>14
<1>17. Shown'
  BY <1>2, <1>7, <1>9, <1>13, <1>15, <1>16, GatePushed
<1>18. ~CallsOnly'
  BY <1>5, <1>8 DEF CallsOnly
<1>19. Gated'
  BY <1>2, <1>4, <1>5, <1>8, <1>13, <1>15, <1>16, <1>18 DEF Gated
<1> QED BY <1>17, <1>19

-----------------------------------------------------------------------------
(* Calls, aggregates and requests, and what they leave of the gate.          *)

LEMMA NothingShown ==
  ASSUME TurnTyped', reply'.public = <<>>, ~reply'.started, ~stream'.open, stream'.shown = replies'
  PROVE  Shown'
<1>1. batch' \in Nat
  BY DEF TurnTyped
<1>2. PICK m : m = Message(batch')
  OBVIOUS
<1>3. m \in Seq(Nat)
  BY <1>1, <1>2, MessageTyped
<1>4. IsPrefix(<<>>, m)
  BY <1>3, PrefixEnds
<1>6. IsPrefix(reply'.public, Message(batch)')
  BY <1>2, <1>4
<1>7. reply'.started = (reply'.public # <<>>)
  <2>1. reply'.started \in BOOLEAN
    BY DEF TurnTyped
  <2> QED BY <2>1
<1> QED BY <1>6, <1>7 DEF Shown, Message

LEMMA CallStreamed ==
  ASSUME TurnTyped, Shown, Gated, CallDelta, at' # "failed"
  PROVE  Shown' /\ Gated'
<1>1. PICK called : called = Head(Head(coming).calls)
  OBVIOUS
<1>2. PICK public : public = [raw |-> called.raw, args |-> called.args, turn |-> turn]
  OBVIOUS
<1>3. /\ coming # <<>> /\ Head(coming).calls # <<>> /\ GuardTool(reply)
      /\ coming' = Tail(coming) /\ begun' = TRUE
      /\ acc' = [acc EXCEPT !.calls =
                         IF \E i \in DOMAIN @ : @[i].raw = called.raw
                         THEN [i \in DOMAIN @ |-> IF @[i].raw = called.raw THEN called ELSE @[i]]
                         ELSE Append(@, called)]
      /\ reply' = [reply EXCEPT !.disabled = TRUE]
      /\ stream' = PushCall(stream, public)
      /\ batch' = batch /\ replies' = replies
  BY <1>1, <1>2 DEF CallDelta
<1>4. PICK more : more = IF \E i \in DOMAIN acc.calls : acc.calls[i].raw = called.raw
                         THEN [i \in DOMAIN acc.calls |->
                                 IF acc.calls[i].raw = called.raw THEN called ELSE acc.calls[i]]
                         ELSE Append(acc.calls, called)
  OBVIOUS
<1>5. acc'.calls = more /\ acc'.text = acc.text
  BY <1>3, <1>4 DEF TurnTyped
<1>6. called \in TurnCalls
  BY <1>1, <1>3, ComingTyped
<1>7. more # <<>>
  <2>1. acc.calls \in Seq(TurnCalls) /\ DistinctCalls(acc.calls)
    BY DEF TurnTyped
  <2> QED BY <1>4, <1>6, <2>1, CallAdded
<1>8. ~reply.started /\ reply'.disabled = TRUE /\ reply'.started = reply.started
      /\ reply'.public = reply.public
  BY <1>3 DEF GuardTool, TurnTyped
<1>9. ~stream.open /\ stream.shown = replies /\ reply.public = <<>>
  BY <1>8 DEF Shown
<1>10. ~stream'.open /\ stream'.shown = stream.shown
  <2>1. stream \in Streams /\ public \in [raw : RawIds, args : Args, turn : Nat]
    BY <1>2, <1>6 DEF TurnTyped, TurnCalls
  <2>2. PICK s : s = stream
    OBVIOUS
  <2>3. s \in Streams /\ stream' = PushCall(s, public)
    BY <1>3, <2>1, <2>2
  <2> QED BY <2>1, <2>2, <2>3, CallPushed
<1>11. Shown'
  <2>1. TurnTyped'
    BY CallTyped
  <2> QED BY <1>3, <1>8, <1>9, <1>10, <2>1, NothingShown
<1>12. Words \in Nat /\ 1 \in DOMAIN coming /\ coming[1].calls # <<>> /\ Len(coming) \in Nat
       /\ DOMAIN coming = 1..Len(coming)
  BY <1>3, ReplyIs, ComingIs
<1>13. ~Unheaded
  <2> SUFFICES ASSUME Unheaded PROVE FALSE
    OBVIOUS
  <2>1. PICK e : e = <<>>
    OBVIOUS
  <2>2. coming[1] = [text |-> Json(batch), calls |-> e]
    BY <1>3, <2>1 DEF Unheaded
  <2>3. coming[1].calls = e
    BY <2>2
  <2> QED BY <1>12, <2>1, <2>3
<1>14. ASSUME Textless(coming)
       PROVE  Textless(coming')
  <2>1. ASSUME NEW i \in DOMAIN coming'
        PROVE  coming'[i].text = <<>>
    <3>1. i + 1 \in DOMAIN coming /\ coming'[i] = coming[i + 1]
      BY <1>3, ComingIs
    <3> QED BY <1>14, <3>1 DEF Textless
  <2> QED BY <2>1 DEF Textless
<1>15. CASE CallsOnly
  <2>1. CallsOnly' /\ Textless(coming')
    BY <1>5, <1>14, <1>15 DEF CallsOnly, Textless
  <2> QED BY <1>3, <1>5, <1>7, <1>8, <1>11, <2>1 DEF Gated, Textless
<1>16. CASE Headed
  <2>1. PICK k \in 0..(Words + 1) :
         /\ acc.text = SubSeq(Reply, 1, k)
         /\ Len(coming) >= Words + 1 - k
         /\ \A i \in DOMAIN coming :
              IF i <= Words + 1 - k THEN coming[i].text = <<Reply[k + i]>> /\ coming[i].calls = <<>>
                                    ELSE coming[i].text = <<>>
         /\ k < Words + 1 => acc.calls = <<>>
    BY <1>16 DEF Headed
  <2>2. k = Words + 1
    <3>1. ~(1 <= Words + 1 - k)
      BY <1>12, <2>1
    <3> QED BY <1>12, <2>1, <3>1
  <2>3. Textless(coming)
    <3>1. \A i \in DOMAIN coming : ~(i <= Words + 1 - k)
      BY <1>12, <2>2
    <3> QED BY <2>1, <3>1 DEF Textless
  <2>4. Textless(coming')
    BY <1>14, <2>3
  <2>5. acc'.text = SubSeq(Reply', 1, k)
    BY <1>3, <1>5, <2>1 DEF Reply
  <2>6. coming' \in Seq(StreamItems) /\ Len(coming') \in Nat /\ DOMAIN coming' = 1..Len(coming')
    BY <1>3, ComingTyped, LenProperties
  <2>7. Headed'
    <3>1. Len(coming') >= Words + 1 - k
      BY <1>12, <2>2, <2>6
    <3>2. \A i \in DOMAIN coming' : ~(i <= Words + 1 - k) /\ coming'[i].text = <<>>
      BY <1>12, <2>2, <2>4, <2>6 DEF Textless
    <3>3. ~(k < Words + 1)
      BY <1>12, <2>2
    <3> QED BY <2>5, <3>1, <3>2, <3>3 DEF Headed
  <2> QED BY <1>3, <1>5, <1>7, <1>8, <1>11, <2>4, <2>7 DEF Gated, Textless
<1> QED BY <1>13, <1>15, <1>16 DEF Gated

(* A request finds the gate as it was before anything came.                  *)
LEMMA Requested ==
  ASSUME TurnTyped, TurnTyped', batch' = batch, coming' \in Plans(batch), acc' = NoAnswer,
         reply'.raw = <<>>, ~reply'.disabled, ~reply'.started
  PROVE  Gated'
<1>1. (CallsOnly \/ Headed \/ Unheaded)' /\ coming' # <<>>
  BY Asked
<1>2. acc'.text = <<>> /\ acc'.calls = <<>>
  BY DEF NoAnswer
<1> QED BY <1>1, <1>2 DEF Gated

(* A completed response: its calls, or a reply that is all there.            *)
LEMMA CompletedStreamed ==
  ASSUME TurnTyped, Shown, Gated, Completed
  PROVE  \/ at' = "tools" /\ ~stream'.open /\ stream'.shown = replies'
         \/ at' = "worker" /\ Shown' /\ (acc'.text = Reply' \/ acc'.text = Json(batch'))
<1>1. batch' = batch /\ replies' = replies /\ acc' = acc /\ coming = <<>>
  BY DEF Completed
<1>2. CASE acc.calls # <<>>
  <2>1. ~reply.started
    BY <1>2 DEF Gated
  <2>2. at' = "tools" /\ stream' = CloseMessage(stream)
    BY <1>2, <2>1 DEF Completed, GuardTool
  <2>3. stream.shown = replies /\ stream \in Streams
    BY <2>1 DEF Shown, TurnTyped
  <2>4. ~stream'.open /\ stream'.shown = stream.shown
    BY <2>2, <2>3, MessageClosed
  <2> QED BY <1>1, <2>2, <2>3, <2>4
<1>3. CASE acc.calls = <<>>
  <2>1. PICK r : r = reply
    OBVIOUS
  <2>2. PICK raw : raw = acc.text
    OBVIOUS
  <2>3. PICK m : m = Message(batch)
    OBVIOUS
  <2>4. PICK ok \in BOOLEAN :
           /\ reply' = IF r.disabled THEN r ELSE Publishable(r, raw, FALSE, ok, 0)
           /\ stream' = PushText(stream, Delta(reply, reply'), TRUE)
    BY <1>3, <2>1, <2>2 DEF Completed
  <2>5. at' = "worker"
    BY <1>3 DEF Completed
  <2>6. raw = Reply \/ raw = Json(batch)
    <3>1. Len(coming) = 0 /\ Words \in Nat
      BY <1>1, EmptySeq, ReplyIs
    <3>2. ~CallsOnly
      BY <1>1, <1>3 DEF Gated
    <3>3. CASE Headed
      <4>1. PICK k \in 0..(Words + 1) : acc.text = SubSeq(Reply, 1, k) /\ Len(coming) >= Words + 1 - k
        BY <3>3 DEF Headed
      <4>2. k = Words + 1
        BY <3>1, <4>1
      <4> QED BY <2>2, <4>1, <4>2, ReplyBody
    <3>4. CASE Unheaded
      BY <2>2, <3>1, <3>4 DEF Unheaded
    <3> QED BY <3>2, <3>3, <3>4 DEF Gated
  <2>7. /\ r \in Gates /\ raw \in Seq(Nat) /\ m \in Seq(Nat)
        /\ Body(raw) = m /\ IsPrefix(m, m) /\ IsPrefix(r.public, m)
        /\ r.started = (r.public # <<>>) /\ (r.started => r.allowed = "yes")
        /\ r.public \in Seq(Nat) /\ Len(r.public) \in Nat /\ Len(m) \in Nat
    <3>1. r \in Gates /\ raw \in Seq(Nat) /\ r.public \in Seq(Nat)
      BY <2>1, <2>2 DEF TurnTyped, Gates
    <3>2. m \in Seq(Nat) /\ Body(raw) = m
      BY <2>3, <2>6, ReplyIs, ReplyBody
    <3>3. IsPrefix(m, m)
      BY <3>2, PrefixEnds
    <3>4. IsPrefix(r.public, m) /\ r.started = (r.public # <<>>)
      BY <2>1, <2>3 DEF Shown
    <3>5. r.started => r.allowed = "yes"
      BY <2>1 DEF Gated
    <3> QED BY <3>1, <3>2, <3>3, <3>4, <3>5, LenProperties
  <2>8. PICK next : next = IF r.disabled THEN r ELSE Publishable(r, raw, FALSE, ok, 0)
    OBVIOUS
  <2>9. /\ next \in Gates /\ IsPrefix(next.public, m) /\ Len(r.public) <= Len(next.public)
        /\ next.started = (next.public # <<>>)
    <3>1. CASE r.disabled
      BY <2>7, <2>8, <3>1
    <3>2. CASE ~r.disabled
      <4>1. PICK partial : partial = FALSE
        OBVIOUS
      <4>2. PICK held : held = 0
        OBVIOUS
      <4>3. Len(r.public) <= Len(m)
        BY <2>7, PrefixMeans
      <4>4. /\ m \in Seq(Nat) /\ r \in Gates /\ raw \in Seq(Nat) /\ partial \in BOOLEAN
            /\ ok \in BOOLEAN /\ held \in Nat /\ held <= Len(Body(raw))
            /\ partial => Len(r.public) <= held
            /\ ~partial /\ Parsed(raw) => Len(r.public) <= Len(Body(raw))
            /\ IsPrefix(r.public, m) /\ (Parsed(raw) => IsPrefix(Body(raw), m))
            /\ r.started = (r.public # <<>>) /\ (r.started => r.allowed = "yes")
        <5>1. PICK body : body = Body(raw)
          OBVIOUS
        <5>2. Len(body) = Len(m) /\ IsPrefix(body, m)
          BY <2>7, <5>1
        <5>3. held \in Nat /\ held <= Len(body) /\ Len(r.public) <= Len(body)
          BY <2>7, <4>2, <4>3, <5>2
        <5> QED BY <2>7, <4>1, <5>1, <5>2, <5>3
      <4>5. next = Publishable(r, raw, partial, ok, held)
        BY <2>8, <3>2, <4>1, <4>2
      <4> QED BY <4>4, <4>5, Published
    <3> QED BY <3>1, <3>2
  <2>10. reply' = next
    BY <2>4, <2>8
  <2>11. Shown'
    BY <1>1, <2>1, <2>3, <2>4, <2>9, <2>10, GatePushed
  <2>12. acc'.text = Reply' \/ acc'.text = Json(batch')
    BY <1>1, <2>2, <2>6 DEF Reply
  <2> QED BY <2>5, <2>11, <2>12
<1> QED BY <1>2, <1>3

(* The worker's text is the message, whether it was streamed or not.         *)
LEMMA WorkerPublishes ==
  ASSUME TurnTyped, Shown, acc.text = Reply \/ acc.text = Json(batch),
         \/ Publish(Body(acc.text))
         \/ ~reply.started /\ Publish(Other)
         \/ ~reply.started /\ UNCHANGED <<stream, replies>>
  PROVE  ~stream'.open /\ stream'.shown = replies'
<1>1. CASE Publish(Body(acc.text))
  <2>1. PICK text : text = Body(acc.text)
    OBVIOUS
  <2>2. text = Message(batch)
    BY <2>1, ReplyBody
  <2>3. text \in Seq(Nat) /\ text # <<>>
    BY <2>2, ReplyBody DEF Json
  <2>4. IsPrefix(reply.public, text)
    BY <2>2 DEF Shown
  <2>5. Publish(text)
    BY <1>1, <2>1
  <2> QED BY <2>3, <2>4, <2>5, MessagePublished
<1>2. CASE ~reply.started /\ Publish(Other)
  <2>1. PICK text : text = Other
    OBVIOUS
  <2>2. text \in Seq(Nat) /\ text # <<>>
    BY <2>1 DEF Other
  <2>3. Publish(text)
    BY <1>2, <2>1
  <2> QED BY <1>2, <2>2, <2>3, MessagePublished
<1>3. CASE ~reply.started /\ UNCHANGED <<stream, replies>>
  BY <1>3 DEF Shown
<1> QED BY <1>1, <1>2, <1>3

LEMMA StreamedStart == TurnInit => Streamed
<1> SUFFICES ASSUME TurnInit PROVE Streamed
  OBVIOUS
<1>1. at = "idle" /\ stream = SilentStream(RawIds) /\ replies = <<>>
  BY DEF TurnInit
<1>2. ~stream.open /\ stream.shown = <<>>
  BY <1>1 DEF SilentStream
<1> QED BY <1>1, <1>2 DEF Streamed, ShownOnce

(* What is shown stays as it is.                                             *)
LEMMA ShownKept ==
  ASSUME ShownOnce, UNCHANGED <<batch, stream, replies>> , ~cut PROVE ShownOnce'
BY DEF ShownOnce, Message

LEMMA StreamedStep == TurnTyped /\ Streamed /\ [TurnNext]_turnVars => Streamed'
<1> SUFFICES ASSUME TurnTyped, Streamed, [TurnNext]_turnVars, ~cut' PROVE Streamed'
  BY DEF Streamed
<1>1. TurnTyped'
  BY TurnTypesStep
<1>2. ~cut
  <2>1. UNCHANGED cut \/ cut' = (cut \/ begun)
    BY DEF TurnNext, turnVars, Prepare, BeforeModel, TextDelta, CallDelta, Retry, ModelFails,
           UsageLost, Completed, StartTool, EndTool, ToolFails, YieldResults, Answer, GoOn,
           Block, Refuse, Finish
  <2>2. cut \in BOOLEAN /\ begun \in BOOLEAN
    BY DEF TurnTyped
  <2> QED BY <2>1, <2>2
<1>3. /\ ShownOnce
      /\ at \in {"idle", "before", "tools", "over", "ended"} =>
            ~stream.open /\ stream.shown = replies
      /\ at = "streaming" => Shown /\ Gated
      /\ at = "worker" => Shown /\ (acc.text = Reply \/ acc.text = Json(batch))
  BY <1>2 DEF Streamed
(* The three ways to stay in the invariant.                                  *)
<1>4. ASSUME at' \in {"idle", "before", "tools", "over", "ended"},
             ~stream'.open, stream'.shown = replies'
      PROVE  Streamed'
  BY <1>4 DEF Streamed, ShownOnce
<1>5. ASSUME at' = "worker", acc'.text = Reply' \/ acc'.text = Json(batch'), Shown'
      PROVE  Streamed'
  <2>1. ShownOnce'
    BY <1>1, <1>5, ShownMeans, PTL
  <2> QED BY <1>5, <2>1 DEF Streamed, Json, Message
<1>19. ASSUME at' = "streaming", Shown', Gated' PROVE Streamed'
  <2>1. ShownOnce'
    BY <1>1, <1>19, ShownMeans, PTL
  <2> QED BY <1>19, <2>1 DEF Streamed
<1>6. ASSUME at' = "failed", UNCHANGED <<batch, stream, replies>>
      PROVE  Streamed'
  <2>1. ShownOnce'
    BY <1>2, <1>3, <1>6, ShownKept
  <2> QED BY <1>6, <2>1 DEF Streamed
<1>7. CASE Prepare
  BY <1>3, <1>4, <1>7 DEF Prepare
<1>8. CASE BeforeModel
  <2>1. CASE ~(used < Budget /\ GuardTool(reply))
    BY <1>6, <1>8, <2>1 DEF BeforeModel
  <2>2. CASE used < Budget /\ GuardTool(reply)
    <3>1. /\ at' = "streaming" /\ coming' \in Plans(batch) /\ acc' = NoAnswer
          /\ reply' = [NoReply EXCEPT !.started = reply.started] /\ ~reply.started
          /\ at = "before" /\ UNCHANGED <<batch, stream, replies>>
      BY <1>8, <2>2 DEF BeforeModel, Ask, GuardTool
    <3>2. reply'.raw = <<>> /\ ~reply'.disabled /\ ~reply'.started /\ reply'.public = <<>>
      BY <3>1 DEF NoReply
    <3>3. ~stream'.open /\ stream'.shown = replies'
      BY <1>3, <3>1
    <3>4. Shown' /\ Gated'
      BY <1>1, <3>1, <3>2, <3>3, NothingShown, Requested
    <3> QED BY <1>19, <3>1, <3>4
  <2> QED BY <2>1, <2>2
<1>9. CASE TextDelta
  <2>1. at = "streaming" /\ at' = "streaming"
    BY <1>9 DEF TextDelta
  <2> QED BY <1>3, <1>19, <1>9, <2>1, TextStreamed
<1>10. CASE CallDelta
  <2>1. at = "streaming" /\ batch' = batch /\ replies' = replies
    BY <1>10 DEF CallDelta
  <2>2. CASE at' = "failed"
    <3>1. stream' = stream
      BY <1>10, <2>1, <2>2 DEF CallDelta
    <3> QED BY <1>6, <2>1, <2>2, <3>1
  <2>3. CASE at' # "failed"
    <3>1. at' = "streaming"
      BY <1>10, <2>1, <2>3 DEF CallDelta
    <3> QED BY <1>3, <1>19, <1>10, <2>1, <2>3, <3>1, CallStreamed
  <2> QED BY <2>2, <2>3
<1>11. CASE Retry
  <2>1. /\ at = "streaming" /\ at' = "streaming" /\ coming' \in Plans(batch) /\ ~begun
        /\ UNCHANGED <<batch, acc, reply, stream, replies>>
    BY <1>11 DEF Retry, Ask
  <2>2. acc = NoAnswer /\ ~reply.disabled /\ ~reply.started /\ reply.raw = <<>>
    <3>1. acc = NoAnswer /\ ~reply.disabled /\ ~reply.started /\ reply.raw = acc.text
      BY <1>3, <2>1 DEF Gated
    <3> QED BY <3>1 DEF NoAnswer
  <2>3. Gated'
    BY <1>1, <2>1, <2>2, Requested
  <2>4. Shown'
    BY <1>3, <2>1 DEF Shown, Message
  <2> QED BY <1>19, <2>1, <2>3, <2>4
<1>12. CASE ModelFails \/ UsageLost \/ Refuse \/ \E i \in DOMAIN tools : ToolFails(i)
  <2>1. at' = "failed" /\ UNCHANGED <<batch, stream, replies>>
    BY <1>12 DEF ModelFails, UsageLost, Refuse, ToolFails
  <2> QED BY <1>6, <2>1
<1>13. CASE Completed
  <2>1. at = "streaming"
    BY <1>13 DEF Completed
  <2>2. \/ at' = "tools" /\ ~stream'.open /\ stream'.shown = replies'
        \/ at' = "worker" /\ Shown' /\ (acc'.text = Reply' \/ acc'.text = Json(batch'))
    BY <1>3, <1>13, <2>1, CompletedStreamed
  <2> QED BY <1>4, <1>5, <2>2
<1>14. CASE \E i \in DOMAIN tools : StartTool(i) \/ EndTool(i)
  <2>1. at = "tools" /\ at' = "tools" /\ stream' = stream /\ replies' = replies
    BY <1>14 DEF StartTool, EndTool
  <2> QED BY <1>3, <1>4, <2>1
<1>15. CASE YieldResults
  <2>1. at = "tools" /\ at' = "before" /\ replies' = replies
    BY <1>15 DEF YieldResults
  <2>2. stream'.shown = stream.shown /\ (stream'.open => stream.open)
    BY <1>15, YieldTyped
  <2> QED BY <1>3, <1>4, <2>1, <2>2
<1>16. CASE Answer \/ GoOn \/ Block
  <2>1. at = "worker" /\ at' \in {"idle", "over"}
    BY <1>16 DEF Answer, GoOn, Block
  <2>2. \/ Publish(Body(acc.text))
        \/ ~reply.started /\ Publish(Other)
        \/ ~reply.started /\ UNCHANGED <<stream, replies>>
    BY <1>16 DEF Answer, GoOn, Block
  <2>3. ~stream'.open /\ stream'.shown = replies'
    BY <1>3, <2>1, <2>2, WorkerPublishes
  <2> QED BY <1>4, <2>1, <2>3
<1>17. CASE Finish
  <2>1. at = "over" /\ at' = "ended" /\ replies' = replies /\ stream' = CloseMessage(stream)
    BY <1>17 DEF Finish
  <2>2. ~stream'.open /\ stream'.shown = stream.shown
    BY <2>1, MessageClosed DEF TurnTyped
  <2> QED BY <1>3, <1>4, <2>1, <2>2
<1>18. CASE UNCHANGED turnVars
  <2>1. UNCHANGED <<at, batch, coming, begun, acc, reply, stream, replies>>
    BY <1>18 DEF turnVars
  <2>2. ShownOnce'
    BY <1>2, <1>3, <2>1, ShownKept
  <2> QED BY <1>3, <2>1, <2>2 DEF Streamed, Shown, Gated, CallsOnly, Headed, Unheaded, Textless,
             Reply, Json, Message
<1> QED BY <1>7, <1>8, <1>9, <1>10, <1>11, <1>12, <1>13, <1>14, <1>15, <1>16, <1>17, <1>18
    DEF TurnNext

(* What the gate streams and what the workflow publishes agree: every message *)
(* is shown once and nothing else is, however the deltas, held-back prefixes, *)
(* calls, aggregates and whole retries fall (streaming.py, adk_mapper.py      *)
(* _push_text).                                                              *)
THEOREM MessagesShownOnce == TurnSpec => []ShownOnce
<1>1. TurnInit => TurnTyped /\ Streamed
  BY TurnStart, StreamedStart
<1>2. TurnTyped /\ Streamed /\ [TurnNext]_turnVars => (TurnTyped /\ Streamed)'
  BY TurnTypesStep, StreamedStep
<1>3. TurnTyped /\ Streamed => ShownOnce
  BY DEF Streamed, ShownOnce
<1> QED BY <1>1, <1>2, <1>3, PTL DEF TurnSpec

-----------------------------------------------------------------------------
(* The type invariant: the counters keep their bounds, and spans hang under   *)
(* earlier ones.                                                             *)

Known(t) == t.active \in [TraceKeys -> Seq(1..Len(t.spans))]
Backwards(t) == \A i \in DOMAIN t.spans : t.spans[i].parent \in {NoParent} \cup 1..(i - 1)

LEMMA MoreIds ==
  ASSUME NEW m \in Nat, NEW n \in Nat, m <= n, NEW s \in Seq(1..m)
  PROVE  s \in Seq(1..n)
<1>1. Len(s) \in Nat /\ s \in [1..Len(s) -> 1..m]
  BY LenProperties
<1>2. 1..m \subseteq 1..n
  OBVIOUS
<1>3. s \in [1..Len(s) -> 1..n]
  BY <1>1, <1>2
<1> QED BY <1>1, <1>3, ListTyped

LEMMA IdsRecorded ==
  ASSUME NEW S, NEW t \in Traces(S), NEW span, span.key \in TraceKeys,
         span.phase \in {"start", "end"}, Known(t), Backwards(t),
         NEW next, next = Recorded(t, span)
  PROVE  Known(next) /\ Backwards(next)
<1>1. PICK parent : parent = ParentFor(t, span)
  OBVIOUS
<1>2. PICK new : new = (StoredAt(t, span) = {})
  OBVIOUS
<1>3. PICK id : id = IF new THEN Len(t.spans) + 1 ELSE CHOOSE i \in StoredAt(t, span) : TRUE
  OBVIOUS
<1>4. PICK one : one = [key |-> span.key, phase |-> span.phase, content |-> span.content,
                        owner |-> span.owner, parent |-> parent]
  OBVIOUS
<1>5. PICK kept : kept = IF new THEN [t EXCEPT !.spans = Append(@, one)] ELSE t
  OBVIOUS
<1>6. next = IF span.phase = "start" THEN MarkStart(kept, span, id, new)
             ELSE MarkEnd(kept, span, parent)
  <2>1. CASE StoredAt(t, span) = {}
    <3>1. new = TRUE
      BY <1>2, <2>1
    <3>2. /\ kept = [t EXCEPT !.spans = Append(@, one)] /\ id = Len(t.spans) + 1
      BY <1>3, <1>5, <3>1
    <3>3. next = IF span.phase = "start" THEN MarkStart(kept, span, id, TRUE)
                 ELSE MarkEnd(kept, span, parent)
      BY <1>1, <1>4, <2>1, <3>2 DEF Recorded
    <3> QED BY <3>1, <3>3
  <2>2. CASE StoredAt(t, span) # {}
    <3>1. new = FALSE
      BY <1>2, <2>2
    <3>2. kept = t /\ id = CHOOSE i \in StoredAt(t, span) : TRUE
      BY <1>3, <1>5, <3>1
    <3>3. CASE span.phase = "start"
      <4>1. next = MarkStart(t, span, id, FALSE)
        BY <1>1, <2>2, <3>2, <3>3 DEF Recorded
      <4> QED BY <3>1, <3>2, <3>3, <4>1
    <3>4. CASE span.phase = "end"
      <4>1. next = MarkEnd(t, span, parent)
        BY <1>1, <2>2, <3>2, <3>4 DEF Recorded
      <4> QED BY <3>1, <3>2, <3>4, <4>1
    <3> QED BY <3>3, <3>4
  <2> QED BY <2>1, <2>2
<1>7. /\ t.spans \in Seq(S) /\ Len(t.spans) \in Nat /\ DOMAIN t.spans = 1..Len(t.spans)
      /\ t.active \in [TraceKeys -> Seq(1..Len(t.spans))] /\ t.closed \in SUBSET TraceKeys
  BY LenProperties DEF Traces, Known
<1>8. PICK n : n = Len(kept.spans)
  OBVIOUS
<1>9. parent \in {NoParent} \cup 1..Len(t.spans)
  <2>1. t.active[span.key] \in Seq(1..Len(t.spans))
    BY <1>7
  <2>2. CASE span.phase = "end" /\ t.active[span.key] # <<>>
    <3>1. PICK ids : ids = t.active[span.key]
      OBVIOUS
    <3>2. PICK T : T = 1..Len(t.spans)
      OBVIOUS
    <3>3. ids \in Seq(T) /\ ids # <<>>
      BY <2>1, <2>2, <3>1, <3>2
    <3>4. Head(ids) \in T
      BY <3>3, HeadTyped
    <3> QED BY <1>1, <2>2, <3>1, <3>2, <3>4 DEF ParentFor
  <2> QED BY <1>1, <2>2 DEF ParentFor
<1>10. /\ kept.active = t.active /\ kept.closed = t.closed
       /\ n \in Nat /\ Len(t.spans) <= n /\ id \in 1..n
       /\ Backwards(kept)
       /\ kept = [spans |-> kept.spans, active |-> kept.active,
                    closed |-> kept.closed, missed |-> kept.missed]
  <2>1. CASE new
    <3>1. PICK spans : spans = Append(t.spans, one)
      OBVIOUS
    <3>2. kept = [t EXCEPT !.spans = spans]
      BY <1>5, <2>1, <3>1
    <3>3. kept.spans = spans /\ kept.active = t.active /\ kept.closed = t.closed
          /\ kept = [spans |-> kept.spans, active |-> kept.active,
                    closed |-> kept.closed, missed |-> kept.missed]
      BY <3>2 DEF Traces
    <3>4. /\ Len(spans) = Len(t.spans) + 1 /\ DOMAIN spans = 1..(Len(t.spans) + 1)
          /\ spans[Len(t.spans) + 1] = one
          /\ \A i \in 1..Len(t.spans) : spans[i] = t.spans[i]
      <4>1. DOMAIN spans = DOMAIN t.spans \cup {Len(t.spans) + 1}
            /\ spans[Len(t.spans) + 1] = one
            /\ \A i \in DOMAIN t.spans : spans[i] = t.spans[i]
        BY <1>7, <3>1, SpanAdded
      <4>2. t.spans \in Seq(S \cup {one})
        BY <1>7
      <4>3. Len(spans) = Len(t.spans) + 1
        BY <3>1, <4>2, AppendProperties
      <4> QED BY <1>7, <4>1, <4>3
    <3>5. one.parent = parent
      BY <1>4
    <3>6. Backwards(kept)
      <4> SUFFICES ASSUME NEW i \in 1..(Len(t.spans) + 1)
                   PROVE  spans[i].parent \in {NoParent} \cup 1..(i - 1)
        BY <3>3, <3>4 DEF Backwards
      <4>1. CASE i \in 1..Len(t.spans)
        BY <1>7, <3>4, <4>1 DEF Backwards
      <4>2. CASE i = Len(t.spans) + 1
        <5>1. i - 1 = Len(t.spans)
          BY <1>7, <4>2
        <5> QED BY <1>9, <3>4, <3>5, <4>2, <5>1
      <4> QED BY <1>7, <4>1, <4>2
    <3>7. id = Len(t.spans) + 1
      BY <1>3, <2>1
    <3>8. n = Len(t.spans) + 1
      BY <1>8, <3>3, <3>4
    <3> QED BY <1>7, <3>3, <3>6, <3>7, <3>8
  <2>2. CASE ~new
    <3>1. kept = t
      BY <1>5, <2>2
    <3>2. id \in StoredAt(t, span)
      BY <1>2, <1>3, <2>2
    <3>3. id \in 1..Len(t.spans)
      BY <1>7, <3>2 DEF StoredAt
    <3> QED BY <1>7, <1>8, <3>1, <3>3 DEF Traces
  <2> QED BY <2>1, <2>2
<1>11. PICK ids : ids = kept.active[span.key]
  OBVIOUS
<1>12. PICK T : T = 1..n
  OBVIOUS
<1>13. kept.active \in [TraceKeys -> Seq(T)] /\ ids \in Seq(T) /\ id \in T
  <2>1. \A k \in TraceKeys : kept.active[k] \in Seq(T)
    BY <1>7, <1>10, <1>12, MoreIds
  <2> QED BY <1>7, <1>10, <1>11, <1>12, <2>1
<1>14. next.spans = kept.spans /\ next.active \in [TraceKeys -> Seq(T)]
  <2>1. CASE span.phase = "start"
    <3>1. next = MarkStart(kept, span, id, new)
      BY <1>6, <2>1
    <3>2. PICK more : more = Append(ids, id)
      OBVIOUS
    <3>3. more \in Seq(T)
      BY <1>13, <3>2, AppendProperties
    <3>4. PICK active : active = [kept.active EXCEPT ![span.key] = more]
      OBVIOUS
    <3>5. active \in [TraceKeys -> Seq(T)]
      BY <1>13, <3>3, <3>4
    <3>6. \/ next = kept
          \/ next = [kept EXCEPT !.active = active]
          \/ next = [kept EXCEPT !.closed = @ \ {span.key}, !.active = active]
      BY <1>11, <3>1, <3>2, <3>4 DEF MarkStart
    <3> QED BY <1>10, <1>13, <3>5, <3>6
  <2>2. CASE span.phase = "end"
    <3>1. next = MarkEnd(kept, span, parent)
      BY <1>6, <2>2
    <3>2. PICK rest : rest = IF parent # NoParent THEN Tail(ids) ELSE ids
      OBVIOUS
    <3>3. rest \in Seq(T)
      <4>1. CASE parent # NoParent
        <5>1. ids # <<>>
          BY <1>1, <1>10, <1>11, <4>1 DEF ParentFor
        <5> QED BY <1>13, <3>2, <4>1, <5>1, HeadTyped
      <4> QED BY <1>13, <3>2, <4>1
    <3>4. PICK active : active = [kept.active EXCEPT ![span.key] = rest]
      OBVIOUS
    <3>5. active \in [TraceKeys -> Seq(T)]
      BY <1>13, <3>3, <3>4
    <3>6. PICK shut : shut = kept.closed \cup {span.key}
      OBVIOUS
    <3>7. next = [kept EXCEPT !.active = active, !.closed = shut]
      BY <1>11, <3>1, <3>2, <3>4, <3>6 DEF MarkEnd
    <3> QED BY <1>10, <3>5, <3>7
  <2> QED BY <2>1, <2>2
<1> QED BY <1>8, <1>10, <1>12, <1>14 DEF Known, Backwards

SpansGood == TraceTyped /\ Known(trace) /\ Backwards(trace) /\ trace.missed <= MaxMissed
CallTurns == \A i \in DOMAIN stream.calls : stream.calls[i].turn \in 1..turn
Counted ==
  /\ batch \in 0..MaxBatches /\ turn \in 0..MaxTurns /\ attempt \in 0..Tries
  /\ CallTurns
  /\ Len(replies) <= batch
  /\ at \in {"before", "streaming", "tools", "worker"} => Len(replies) < batch
  /\ used \in 0..turn /\ starts \in 0..turn
  /\ at = "streaming" => turn > 0 /\ starts > 0 /\ used < turn

LEMMA ObservedGood ==
  ASSUME SpansGood, NEW span, span.key \in TraceKeys, span.phase \in {"start", "end"},
         Observe(span)
  PROVE  SpansGood'
<1>1. PICK seen \in BOOLEAN : /\ seen \/ trace.missed < MaxMissed
                              /\ trace' = Observed(trace, span, seen)
  BY DEF Observe
<1>2. PICK S : trace \in Traces(S)
  BY DEF SpansGood, TraceTyped
<1>3. CASE seen
  <2>1. trace' = Recorded(trace, span)
    BY <1>1, <1>3 DEF Observed
  <2>2. PICK t : t = trace
    OBVIOUS
  <2>3. PICK next : next = trace'
    OBVIOUS
  <2>4. TraceTyped' /\ trace'.missed = trace.missed
    BY <2>1, Recording DEF SpansGood
  <2>5. Known(next) /\ Backwards(next)
    <3>1. t \in Traces(S) /\ Known(t) /\ Backwards(t) /\ next = Recorded(t, span)
      BY <1>2, <2>1, <2>2, <2>3 DEF SpansGood
    <3> QED BY <3>1, IdsRecorded
  <2> QED BY <2>3, <2>4, <2>5 DEF SpansGood, Known, Backwards
<1>4. CASE ~seen
  <2>1. PICK n : n = trace.missed + 1
    OBVIOUS
  <2>2. trace' = [trace EXCEPT !.missed = n]
    BY <1>1, <1>4, <2>1 DEF Observed
  <2>3. trace.missed \in Nat /\ n \in Nat /\ n <= MaxMissed
    <3>1. trace.missed \in Nat /\ MaxMissed \in Nat
      BY <1>2, ModelTurnAssumption DEF Traces
    <3> QED BY <1>1, <1>4, <2>1, <3>1
  <2>4. trace' \in Traces(S) /\ trace'.missed = n /\ trace'.spans = trace.spans
        /\ trace'.active = trace.active
    BY <1>2, <2>2, <2>3 DEF Traces
  <2>5. TraceTyped'
    BY <2>4 DEF TraceTyped, Traces, TraceKeys
  <2> QED BY <2>3, <2>4, <2>5 DEF SpansGood, Known, Backwards
<1> QED BY <1>3, <1>4

LEMMA SpansStep == TurnTyped /\ SpansGood /\ [TurnNext]_turnVars => SpansGood'
<1> SUFFICES ASSUME TurnTyped, SpansGood, [TurnNext]_turnVars PROVE SpansGood'
  OBVIOUS
<1>1. ASSUME trace' = trace PROVE SpansGood'
  BY <1>1 DEF SpansGood, Known, Backwards, TraceTyped
<1>2. ASSUME NEW phase \in {"start", "end"}, Observe(ModelSpan(phase)) PROVE SpansGood'
  <2>1. PICK span : span = ModelSpan(phase)
    OBVIOUS
  <2>2. span.key \in TraceKeys /\ span.phase \in {"start", "end"}
    BY <2>1 DEF ModelSpan, TraceKeys
  <2>3. Observe(span)
    BY <1>2, <2>1
  <2> QED BY <2>2, <2>3, ObservedGood
<1>3. ASSUME NEW i \in DOMAIN tools, NEW phase \in {"start", "end"}, NEW result,
             Observe(ToolSpan(tools[i], phase, result))
      PROVE  SpansGood'
  <2>1. PICK span : span = ToolSpan(tools[i], phase, result)
    OBVIOUS
  <2>2. tools[i].raw \in RawIds
    <3>1. tools \in Seq(TurnTools)
      BY DEF TurnTyped
    <3>2. tools[i] \in TurnTools
      BY <3>1, LenProperties, ElementOfSeq
    <3> QED BY <3>2 DEF TurnTools
  <2>3. span.key \in TraceKeys /\ span.phase \in {"start", "end"}
    BY <2>1, <2>2 DEF ToolSpan, TraceKeys
  <2>4. Observe(span)
    BY <1>3, <2>1
  <2> QED BY <2>3, <2>4, ObservedGood
<1>4. CASE BeforeModel \/ ModelFails \/ Completed
  <2>1. trace' = trace \/ Observe(ModelSpan("start")) \/ Observe(ModelSpan("end"))
    BY <1>4 DEF BeforeModel, ModelFails, Completed
  <2> QED BY <1>1, <1>2, <2>1
<1>5. CASE \E i \in DOMAIN tools : StartTool(i) \/ EndTool(i) \/ ToolFails(i)
  <2>1. PICK i \in DOMAIN tools : StartTool(i) \/ EndTool(i) \/ ToolFails(i)
    BY <1>5
  <2>2. \E phase \in {"start", "end"} : \E result : Observe(ToolSpan(tools[i], phase, result))
    <3>1. CASE StartTool(i)
      <4>1. Observe(ToolSpan(tools[i], "start", "none"))
        BY <3>1 DEF StartTool
      <4> QED BY <4>1
    <3>2. CASE EndTool(i)
      <4>1. PICK result \in Results : Observe(ToolSpan(tools[i], "end", result))
        BY <3>2 DEF EndTool
      <4> QED BY <4>1
    <3>3. CASE ToolFails(i)
      <4>1. Observe(ToolSpan(tools[i], "end", "error"))
        BY <3>3 DEF ToolFails
      <4> QED BY <4>1
    <3> QED BY <2>1, <3>1, <3>2, <3>3
  <2> QED BY <1>3, <2>2
<1>6. CASE UNCHANGED turnVars
  BY <1>1, <1>6 DEF turnVars, observed
<1>7. CASE Prepare \/ TextDelta \/ CallDelta \/ Retry \/ UsageLost \/ YieldResults \/ Answer
           \/ GoOn \/ Block \/ Refuse \/ Finish
  <2>1. trace' = trace
    BY <1>7 DEF Prepare, TextDelta, CallDelta, Retry, UsageLost, YieldResults, Answer, GoOn,
                Block, Refuse, Finish, observed
  <2> QED BY <1>1, <2>1
<1> QED BY <1>4, <1>5, <1>6, <1>7 DEF TurnNext

(* Results leave the calls and their turns alone.                            *)
LEMMA TurnsAnswered ==
  ASSUME TurnTyped, CallTurns, NEW s, s[0] = stream,
         \A n \in 1..Len(tools) : s[n] = PushResult(s[n - 1], ResultOf(tools[n]))
  PROVE  LET last == s[Len(tools)] IN
         \A i \in DOMAIN last.calls : last.calls[i].turn \in 1..turn
<1>1. PICK N : N = Len(tools)
  OBVIOUS
<1>2. N \in Nat /\ \A n \in 1..N : tools[n] \in TurnTools
  BY <1>1, LenProperties, ElementOfSeq DEF TurnTyped
<1> DEFINE Good(n) == \A i \in DOMAIN s[n].calls : s[n].calls[i].turn \in 1..turn
<1> DEFINE T == {n \in Nat : n <= N => Good(n)}
<1>3. 0 \in T
  BY DEF CallTurns
<1>4. ASSUME NEW n \in T PROVE n + 1 \in T
  <2> SUFFICES ASSUME n + 1 <= N PROVE Good(n + 1)
    BY <1>4
  <2>1. n \in Nat /\ n <= N /\ n + 1 \in 1..N /\ (n + 1) - 1 = n /\ n \in 0..N
    BY <1>2, <1>4
  <2>2. Good(n)
    BY <1>4, <2>1
  <2>3. PICK r : r = ResultOf(tools[n + 1])
    OBVIOUS
  <2>4. r \in PublicResults
    BY <1>2, <2>1, <2>3, ResultTyped DEF TurnTyped
  <2>5. PICK old : old = s[n]
    OBVIOUS
  <2>6. PICK new : new = PushResult(old, r)
    OBVIOUS
  <2>7. old \in Streams
    BY <1>1, <2>1, <2>5, ResultsTyped DEF TurnTyped
  <2>8. DOMAIN new.calls = DOMAIN old.calls
        /\ \A i \in DOMAIN old.calls : new.calls[i].turn = old.calls[i].turn
    BY <2>4, <2>6, <2>7, ResultPushed
  <2>9. s[n + 1] = new
    BY <1>1, <2>1, <2>3, <2>5, <2>6
  <2> QED BY <2>2, <2>5, <2>8, <2>9
<1>5. T = Nat
  <2>1. T \in SUBSET Nat
    OBVIOUS
  <2> HIDE DEF T
  <2> QED BY <1>3, <1>4, <2>1, InductionOnSet
<1> QED BY <1>1, <1>2, <1>5

LEMMA TurnsStep ==
  ASSUME TurnTyped, Counted, [TurnNext]_turnVars, turn' \in Nat, turn <= turn'
  PROVE  CallTurns'
<1>1. turn \in Nat /\ CallTurns /\ stream \in Streams
  BY DEF Counted, TurnTyped
<1>2. ASSUME stream'.calls = stream.calls PROVE CallTurns'
  BY <1>1, <1>2 DEF CallTurns
<1>3. CASE CallDelta
  <2>1. PICK called : called = Head(Head(coming).calls)
    OBVIOUS
  <2>2. PICK public : public = [raw |-> called.raw, args |-> called.args, turn |-> turn]
    OBVIOUS
  <2>3. coming # <<>> /\ Head(coming).calls # <<>> /\ at = "streaming" /\ turn' = turn
    BY <1>3 DEF CallDelta
  <2>4. public \in [raw : RawIds, args : Args, turn : Nat] /\ public.turn = turn
        /\ public.raw \in RawIds
    <3>1. called \in TurnCalls
      BY <2>1, <2>3, ComingTyped
    <3> QED BY <1>1, <2>2, <3>1 DEF TurnCalls
  <2>5. turn \in 1..turn
    BY <1>1, <2>3 DEF Counted
  <2>6. CASE stream' = stream
    BY <1>2, <2>6
  <2>7. CASE stream' # stream
    <3>1. stream' = PushCall(stream, public)
      BY <1>3, <2>1, <2>2, <2>7 DEF CallDelta
    <3>2. PICK s : s = stream
      OBVIOUS
    <3>3. PICK next : next = PushCall(s, public)
      OBVIOUS
    <3>4. stream' = next /\ s \in Streams
      BY <1>1, <3>1, <3>2, <3>3
    <3>5. PICK new : new = [raw |-> public.raw, args |-> public.args,
                            turn |-> public.turn, answer |-> Unanswered]
      OBVIOUS
    <3>6. next.calls = s.calls \/ next.calls = Append(s.calls, new)
      BY <2>4, <3>3, <3>4, <3>5, CallPushed
    <3>7. CASE next.calls = s.calls
      BY <1>2, <3>2, <3>4, <3>7
    <3>8. CASE next.calls = Append(s.calls, new)
      <4>1. s.calls \in Seq(PublicCalls)
        BY <3>4 DEF Streams
      <4>2. PICK c : c = Append(s.calls, new)
        OBVIOUS
      <4>3. /\ DOMAIN c = DOMAIN s.calls \cup {Len(s.calls) + 1}
            /\ c[Len(s.calls) + 1] = new
            /\ \A i \in DOMAIN s.calls : c[i] = s.calls[i]
        BY <4>1, <4>2, SpanAdded
      <4>4. new.turn = turn
        BY <2>4, <3>5
      <4>5. \A i \in DOMAIN c : c[i].turn \in 1..turn
        BY <1>1, <2>5, <3>2, <4>3, <4>4 DEF CallTurns
      <4> QED BY <2>3, <3>4, <3>8, <4>2, <4>5 DEF CallTurns
    <3> QED BY <3>6, <3>7, <3>8
  <2> QED BY <2>6, <2>7
<1>4. CASE YieldResults
  <2>1. tools \in Seq(TurnTools) /\ turn' = turn
    BY <1>4 DEF TurnTyped, YieldResults
  <2>2. PICK s : /\ s[0] = stream
                 /\ \A n \in 1..Len(tools) : s[n] = PushResult(s[n - 1], ResultOf(tools[n]))
                 /\ stream' = s[Len(tools)]
    BY <1>4, <2>1, ResultsFolded DEF YieldResults
  <2>3. \A i \in DOMAIN stream'.calls : stream'.calls[i].turn \in 1..turn
    BY <1>1, <2>2, TurnsAnswered
  <2> QED BY <2>1, <2>3 DEF CallTurns
<1>5. CASE TextDelta
  <2>1. CASE stream' = stream
    BY <1>2, <2>1
  <2>2. CASE stream' # stream
    <3>1. PICK next : next = reply'
      OBVIOUS
    <3>2. stream' = PushText(stream, Delta(reply, next), TRUE)
      BY <1>5, <2>2, <3>1 DEF TextDelta
    <3>3. PICK text : text = Delta(reply, next)
      OBVIOUS
    <3>4. text \in Seq(Nat)
      <4>1. reply \in Gates /\ next \in Gates
        BY <1>5, <3>1, TextTyped DEF TurnTyped, Gates
      <4> QED BY <3>3, <4>1, DeltaTyped
    <3>5. PICK partial : partial = TRUE
      OBVIOUS
    <3>6. PICK s : s = stream
      OBVIOUS
    <3>7. s \in Streams /\ (s.open => s.shown # <<>>) /\ partial \in BOOLEAN
          /\ stream' = PushText(s, text, partial)
      BY <3>2, <3>3, <3>5, <3>6 DEF TurnTyped
    <3>8. stream'.calls = s.calls
      BY <3>4, <3>7, TextPushed
    <3> QED BY <1>2, <3>6, <3>8
  <2> QED BY <2>1, <2>2
<1>6. CASE Completed
  <2>1. CASE acc.calls # <<>>
    <3>1. stream' = CloseMessage(stream)
      BY <1>6, <2>1 DEF Completed
    <3> QED BY <1>1, <1>2, <3>1, MessageClosed
  <2>2. CASE acc.calls = <<>>
    <3>1. PICK next : next = reply'
      OBVIOUS
    <3>2. stream' = PushText(stream, Delta(reply, next), TRUE)
      BY <1>6, <2>2, <3>1 DEF Completed
    <3>3. PICK text : text = Delta(reply, next)
      OBVIOUS
    <3>4. text \in Seq(Nat)
      <4>1. reply \in Gates /\ next \in Gates
        BY <1>6, <3>1, CompletedTyped DEF TurnTyped, Gates
      <4> QED BY <3>3, <4>1, DeltaTyped
    <3>5. PICK partial : partial = TRUE
      OBVIOUS
    <3>6. PICK s : s = stream
      OBVIOUS
    <3>7. s \in Streams /\ (s.open => s.shown # <<>>) /\ partial \in BOOLEAN
          /\ stream' = PushText(s, text, partial)
      BY <3>2, <3>3, <3>5, <3>6 DEF TurnTyped
    <3>8. stream'.calls = s.calls
      BY <3>4, <3>7, TextPushed
    <3> QED BY <1>2, <3>6, <3>8
  <2> QED BY <2>1, <2>2
<1>7. CASE Answer \/ GoOn \/ Block
  <2>1. Body(acc.text) \in Seq(Nat) /\ Other \in Seq(Nat)
    BY BodyTyped DEF TurnTyped, Other
  <2>2. \/ Publish(Body(acc.text)) \/ Publish(Other) \/ UNCHANGED <<stream, replies>>
    BY <1>7 DEF Answer, GoOn, Block
  <2>3. stream'.calls = stream.calls
    BY <2>1, <2>2, PublishTyped
  <2> QED BY <1>2, <2>3
<1>8. CASE Finish
  <2>1. stream'.calls = stream.calls
    BY <1>1, <1>8, MessageClosed DEF Finish
  <2> QED BY <1>2, <2>1
<1>9. CASE Prepare \/ BeforeModel \/ Retry \/ ModelFails \/ UsageLost \/ Refuse
           \/ \E i \in DOMAIN tools : StartTool(i) \/ EndTool(i) \/ ToolFails(i)
  <2>1. stream' = stream
    BY <1>9 DEF Prepare, BeforeModel, Retry, ModelFails, UsageLost, Refuse, StartTool, EndTool,
                ToolFails
  <2> QED BY <1>2, <2>1
<1>10. CASE UNCHANGED turnVars
  BY <1>2, <1>10 DEF turnVars
<1> QED BY <1>3, <1>4, <1>5, <1>6, <1>7, <1>8, <1>9, <1>10 DEF TurnNext

LEMMA CountedStart == TurnInit => SpansGood /\ Counted
<1> SUFFICES ASSUME TurnInit PROVE SpansGood /\ Counted
  OBVIOUS
<1>1. /\ at = "idle" /\ batch = 0 /\ turn = 0 /\ attempt = 0 /\ used = 0 /\ starts = 0
      /\ replies = <<>> /\ stream.calls = <<>>
  BY DEF TurnInit, SilentStream
<1>2. trace = [spans |-> <<>>, active |-> [k \in TraceKeys |-> <<>>], closed |-> {}, missed |-> 0]
  BY DEF TurnInit, EmptyTrace, TraceKeys
<1>3. trace.spans = <<>> /\ trace.active = [k \in TraceKeys |-> <<>>] /\ trace.missed = 0
  BY <1>2
<1>4. Known(trace)
  <2>1. \A T : <<>> \in Seq(T)
    OBVIOUS
  <2>2. [k \in TraceKeys |-> <<>>] \in [TraceKeys -> Seq(1..Len(trace.spans))]
    BY <2>1
  <2> QED BY <1>3, <2>2 DEF Known
<1>5. Backwards(trace) /\ trace.missed <= MaxMissed
  BY <1>3, ModelTurnAssumption DEF Backwards
<1>6. TraceTyped
  <2>1. trace \in Traces({})
    <3>1. PICK active : active = [k \in TraceKeys |-> <<>>]
      OBVIOUS
    <3>2. active \in [TraceKeys -> Seq(Nat)]
      BY <3>1
    <3>3. trace = [spans |-> <<>>, active |-> active, closed |-> {}, missed |-> 0]
      BY <1>2, <3>1
    <3> QED BY <3>2, <3>3 DEF Traces
  <2> QED BY <2>1 DEF TraceTyped
<1>7. Counted
  <2>1. Len(replies) = 0 /\ DOMAIN stream.calls = {}
    BY <1>1
  <2> QED BY <1>1, <2>1, ModelTurnAssumption DEF Counted, CallTurns
<1> QED BY <1>4, <1>5, <1>6, <1>7 DEF SpansGood

LEMMA CountedStep == TurnTyped /\ Counted /\ [TurnNext]_turnVars => Counted'
<1> SUFFICES ASSUME TurnTyped, Counted, [TurnNext]_turnVars PROVE Counted'
  OBVIOUS
<1>1. /\ batch \in Nat /\ turn \in Nat /\ used \in Nat /\ starts \in Nat /\ attempt \in Nat
      /\ MaxBatches \in Nat /\ MaxTurns \in Nat /\ Tries \in Nat /\ 1 <= Tries
      /\ Len(replies) \in Nat /\ replies \in Seq(Seq(Nat))
  BY LenProperties, ModelTurnAssumption DEF Counted, TurnTyped
<1>2. turn' \in 0..MaxTurns /\ turn <= turn'
  <2>1. CASE BeforeModel
    BY <1>1, <2>1 DEF BeforeModel, Counted
  <2>2. CASE turn' = turn
    BY <1>1, <2>2 DEF Counted
  <2>3. BeforeModel \/ turn' = turn
    BY DEF TurnNext, turnVars, Prepare, TextDelta, CallDelta, Retry, ModelFails, UsageLost,
           Completed, StartTool, EndTool, ToolFails, YieldResults, Answer, GoOn, Block, Refuse,
           Finish
  <2> QED BY <2>1, <2>2, <2>3
<1>3. CallTurns'
  BY <1>1, <1>2, TurnsStep
<1>4. CASE Prepare
  <2>1. /\ at' = "before" /\ batch' = batch + 1 /\ batch < MaxBatches
        /\ turn' = turn /\ attempt' = attempt /\ replies' = replies /\ used' = used
        /\ starts' = starts
    BY <1>4 DEF Prepare, observed
  <2> QED BY <1>1, <1>3, <2>1 DEF Counted
<1>5. CASE BeforeModel
  <2>1. /\ at = "before" /\ turn < MaxTurns /\ turn' = turn + 1 /\ attempt' = 1
        /\ used' = used /\ replies' = replies /\ batch' = batch
        /\ starts' \in {starts, starts + 1}
        /\ (at' = "streaming" => starts' = starts + 1)
        /\ at' \in {"streaming", "failed"}
    BY <1>5 DEF BeforeModel
  <2> QED BY <1>1, <1>2, <1>3, <2>1 DEF Counted
<1>6. CASE TextDelta \/ CallDelta \/ Retry
  <2>1. /\ at = "streaming" /\ at' \in {"streaming", "failed"} /\ attempt' \in 0..Tries
        /\ UNCHANGED <<batch, turn, replies, used, starts>>
    <3>1. CASE Retry
      BY <1>1, <3>1 DEF Retry, observed
    <3>2. CASE TextDelta \/ CallDelta
      BY <3>2 DEF TextDelta, CallDelta, observed, Counted
    <3> QED BY <1>6, <3>1, <3>2
  <2> QED BY <1>1, <1>3, <2>1 DEF Counted
<1>7. CASE ModelFails \/ UsageLost
  <2>1. /\ at = "streaming" /\ at' = "failed" /\ starts' = starts - 1
        /\ UNCHANGED <<batch, turn, attempt, replies, used>>
    BY <1>7 DEF ModelFails, UsageLost
  <2> QED BY <1>1, <1>3, <2>1 DEF Counted
<1>8. CASE Completed
  <2>1. /\ at = "streaming" /\ at' \in {"tools", "failed", "worker"} /\ starts' = starts - 1
        /\ used' = used + 1 /\ attempt' = 0
        /\ UNCHANGED <<batch, turn, replies>>
    BY <1>8 DEF Completed
  <2> QED BY <1>1, <1>3, <2>1 DEF Counted
<1>9. CASE \E i \in DOMAIN tools : StartTool(i) \/ EndTool(i) \/ ToolFails(i)
  <2>1. /\ at = "tools" /\ at' \in {"tools", "failed"}
        /\ UNCHANGED <<batch, turn, attempt, replies, used, starts>>
    BY <1>9 DEF StartTool, EndTool, ToolFails
  <2> QED BY <1>1, <1>3, <2>1 DEF Counted
<1>10. CASE YieldResults
  <2>1. /\ at = "tools" /\ at' = "before"
        /\ UNCHANGED <<batch, turn, attempt, replies, used, starts>>
    BY <1>10 DEF YieldResults, observed
  <2> QED BY <1>1, <1>3, <2>1 DEF Counted
<1>11. CASE Answer \/ GoOn \/ Block
  <2>1. /\ at = "worker" /\ at' \in {"idle", "over"}
        /\ UNCHANGED <<batch, turn, attempt, used, starts>>
    BY <1>11 DEF Answer, GoOn, Block, observed
  <2>2. Len(replies') \in {Len(replies), Len(replies) + 1}
    <3>1. replies' = replies \/ \E text \in Seq(Nat) : replies' = Append(replies, text)
      <4>1. Body(acc.text) \in Seq(Nat) /\ Other \in Seq(Nat)
        BY BodyTyped DEF TurnTyped, Other
      <4> QED BY <1>11, <4>1 DEF Answer, GoOn, Block, Publish
    <3> QED BY <1>1, <3>1, AppendProperties
  <2> QED BY <1>1, <1>3, <2>1, <2>2 DEF Counted
<1>12. CASE Refuse \/ Finish
  <2>1. /\ at' \in {"failed", "ended"}
        /\ UNCHANGED <<batch, turn, attempt, replies, used, starts>>
    BY <1>12 DEF Refuse, Finish, observed
  <2> QED BY <1>1, <1>3, <2>1 DEF Counted
<1>13. CASE UNCHANGED turnVars
  <2>1. UNCHANGED <<at, batch, turn, attempt, replies, used, starts>>
    BY <1>13 DEF turnVars, observed
  <2> QED BY <1>1, <1>3, <2>1 DEF Counted
<1> QED BY <1>4, <1>5, <1>6, <1>7, <1>8, <1>9, <1>10, <1>11, <1>12, <1>13 DEF TurnNext

LEMMA CountedMeans == TurnTyped /\ SpansGood /\ Counted => TurnTypeOK
<1> SUFFICES ASSUME TurnTyped, SpansGood, Counted PROVE TurnTypeOK
  OBVIOUS
<1>1. \A i \in DOMAIN acc.calls : acc.calls[i].raw \in RawIds
  BY CallsInOrder
<1>2. ASSUME NEW i \in DOMAIN tools PROVE tools[i].raw \in RawIds /\ tools[i].args \in Args
  <2>1. tools \in Seq(TurnTools)
    BY DEF TurnTyped
  <2>2. tools[i] \in TurnTools
    BY <2>1, LenProperties, ElementOfSeq
  <2> QED BY <2>2 DEF TurnTools
<1>3. reply.started \in BOOLEAN /\ reply.allowed \in {"unasked", "yes", "no"}
  BY DEF TurnTyped
<1>4. trace.missed \in 0..MaxMissed
        /\ \A i \in DOMAIN trace.spans : trace.spans[i].parent \in {NoParent} \cup 1..(i - 1)
  <2>1. trace.missed \in Nat /\ MaxMissed \in Nat
    BY TraceInOrder, ModelTurnAssumption DEF SpansGood
  <2> QED BY <2>1 DEF SpansGood, Backwards
<1> QED BY <1>1, <1>2, <1>3, <1>4 DEF TurnTypeOK, TurnTyped, Counted, CallTurns

(* The counters of an invocation keep their bounds: one reply per batch, one  *)
(* usage row per model call, and no span hangs under a later one.             *)
THEOREM TurnTypesCorrect == TurnSpec => []TurnTypeOK
<1>1. TurnInit => TurnTyped /\ SpansGood /\ Counted
  BY TurnStart, CountedStart
<1>2. TurnTyped /\ SpansGood /\ Counted /\ [TurnNext]_turnVars => (TurnTyped /\ SpansGood /\ Counted)'
  BY TurnTypesStep, SpansStep, CountedStep
<1> QED BY <1>1, <1>2, CountedMeans, PTL DEF TurnSpec
=============================================================================
