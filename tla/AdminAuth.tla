----------------------------- MODULE AdminAuth -----------------------------
(***************************************************************************)
(* Authentication of the admin endpoints (AdminAuth, oracle/src/api/mod.rs)*)
(* and the limiter of failed attempts (AdminAuthLimiter,                   *)
(* oracle/src/state.rs). A request takes the time once, asks the limiter,  *)
(* compares the token and records the result: the limiter's lock is taken  *)
(* twice, and requests of one client run on several threads.               *)
(*                                                                         *)
(* Times are ages in ticks; Instant::duration_since saturates at zero.     *)
(***************************************************************************)
EXTENDS Integers, FiniteSets

CONSTANTS
  Clients,        \* peer addresses
  Attempts,       \* requests that may be under way at a time
  MaxFailures,    \* MAX_ADMIN_AUTH_FAILURES
  Window,         \* ADMIN_AUTH_WINDOW, in ticks
  MaxTracked,     \* MAX_TRACKED_ADMIN_CLIENTS
  MaxLag          \* bound: ticks between the two uses of the limiter

ASSUME LimiterAssumption ==
  /\ IsFiniteSet(Attempts)
  /\ MaxFailures \in Nat \ {0}
  /\ Window \in Nat \ {0}
  /\ MaxTracked \in Nat
  /\ MaxLag \in Nat

VARIABLES
  failures,  \* AdminAuthLimiter: a count per client, 0 for no entry,
  opened,    \* and the age of the entry's window
  attempt,   \* each request: none, or past is_blocked
  shut       \* history: ticks a client has been blocked without a break

authVars == <<failures, opened, attempt, shut>>

MaxAge == Window + MaxLag    \* ages are counted no further
MaxCount == MaxFailures + Cardinality(Attempts)

NoAttempt == [st |-> "none"]
AttemptSet == {NoAttempt} \cup [st : {"admitted"}, client : Clients, age : 0..MaxLag]

AuthTypeOK ==
  /\ failures \in [Clients -> 0..MaxCount]
  /\ opened \in [Clients -> 0..MaxAge]
  /\ attempt \in [Attempts -> AttemptSet]
  /\ shut \in [Clients -> 0..MaxAge]

AuthInit ==
  /\ failures = [c \in Clients |-> 0]
  /\ opened = [c \in Clients |-> 0]
  /\ attempt = [a \in Attempts |-> NoAttempt]
  /\ shut = [c \in Clients |-> 0]

-----------------------------------------------------------------------------
(* AdminAuthLimiter.                                                       *)

Since(age, lag) == IF age > lag THEN age - lag ELSE 0

(* Mutant: the budget compared off by one.                                 *)
BlockedLate(c) == failures[c] > MaxFailures /\ opened[c] < Window

(* Mutant: the window is not looked at.                                    *)
BlockedForEver(c) == failures[c] >= MaxFailures

(* is_blocked, asked at once.                                              *)
Blocked(c) == failures[c] >= MaxFailures /\ opened[c] < Window

Tracked == {c \in Clients : failures[c] > 0}

(* Mutant: a full map is emptied.                                          *)
ForgetAll(lag) == IF Cardinality(Tracked) >= MaxTracked THEN Tracked ELSE {}

(* The entries a full map drops: those whose window has passed.            *)
Pruned(lag) ==
  IF Cardinality(Tracked) >= MaxTracked
  THEN {c \in Tracked : Since(opened[c], lag) >= Window}
  ELSE {}

(* record_failure: a full map is pruned, then the entry is made or, when   *)
(* its window has passed, reset, then it is counted (beyond the cap, too). *)
RecordFailure(c, lag) ==
  LET kept == [d \in Clients |-> IF d \in Pruned(lag) THEN 0 ELSE failures[d]]
      new  == kept[c] = 0 \/ Since(opened[c], lag) >= Window
  IN  /\ failures' = [kept EXCEPT ![c] = IF new THEN 1 ELSE @ + 1]
      /\ opened' = [d \in Clients |-> IF d = c
                                       THEN (IF new THEN lag ELSE opened[c])
                                       ELSE IF kept[d] = 0 THEN 0 ELSE opened[d]]

RecordSuccess(c) ==
  /\ failures' = [failures EXCEPT ![c] = 0]
  /\ opened' = [opened EXCEPT ![c] = 0]

-----------------------------------------------------------------------------
(* AdminAuth::from_request_parts: 429 for a blocked client, which leaves   *)
(* no trace; the others go on to compare the token.                        *)
Ask(a, c) ==
  /\ attempt[a] = NoAttempt
  /\ ~Blocked(c)
  /\ attempt' = [attempt EXCEPT ![a] = [st |-> "admitted", client |-> c, age |-> 0]]
  /\ UNCHANGED <<failures, opened, shut>>

WrongToken(a) ==
  /\ attempt[a].st = "admitted"
  /\ RecordFailure(attempt[a].client, attempt[a].age)
  /\ attempt' = [attempt EXCEPT ![a] = NoAttempt]
  /\ UNCHANGED shut

RightToken(a) ==
  /\ attempt[a].st = "admitted"
  /\ RecordSuccess(attempt[a].client)
  /\ attempt' = [attempt EXCEPT ![a] = NoAttempt]
  /\ shut' = [shut EXCEPT ![attempt[a].client] = 0]

Older(age) == IF age < MaxAge THEN age + 1 ELSE age

AuthTick ==
  /\ \A a \in Attempts : attempt[a] # NoAttempt => attempt[a].age < MaxLag
  /\ opened' = [c \in Clients |-> IF failures[c] = 0 THEN 0 ELSE Older(opened[c])]
  /\ UNCHANGED failures
  /\ shut' = [c \in Clients |-> IF Blocked(c) /\ Blocked(c)' THEN Older(shut[c]) ELSE 0]
  /\ attempt' = [a \in Attempts |-> IF attempt[a] = NoAttempt THEN NoAttempt
                                     ELSE [attempt[a] EXCEPT !.age = @ + 1]]

AuthNext ==
  \/ \E a \in Attempts, c \in Clients : Ask(a, c)
  \/ \E a \in Attempts : WrongToken(a) \/ RightToken(a)
  \/ AuthTick

-----------------------------------------------------------------------------
(* Properties.                                                             *)

(* A client has no more wrong tokens compared in a window than its budget, *)
(* and one for each further request that was under way when the budget ran *)
(* out (#1214).                                                            *)
GuessesBounded ==
  \A c \in Clients : failures[c] < MaxFailures + Cardinality(Attempts)

(* Nobody gets a fresh budget before the window has passed, unless by the  *)
(* right token: neither the pruning of a full map nor a request that took  *)
(* the time long ago forgets what others have used.                        *)
BudgetKept ==
  [][\A c \in Clients : failures'[c] < failures[c] =>
       \/ opened[c] >= Window
       \/ \E a \in Attempts : RightToken(a) /\ attempt[a].client = c]_authVars

(* A client that is blocked is let in again once the window has passed,    *)
(* whatever it and the requests still under way do meanwhile.              *)
BlockEnds == \A c \in Clients : shut[c] < Window

=============================================================================
