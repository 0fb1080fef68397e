---------------------------- MODULE LoginLockout ----------------------------
(***************************************************************************)
(* AuthService.login of one account: several attempts are under way at     *)
(* once, each a chain of database calls separated by awaits, and the       *)
(* backend may restart between two of them.  The account's row keeps the   *)
(* failed attempts and the end of the lock, seen here as the ticks left    *)
(* (0: the lock is still in the row but has expired).                      *)
(***************************************************************************)
EXTENDS Integers

CONSTANTS Attempts,         \* the login requests that may be under way
          Limit,            \* maxFailedLoginAttempts of most roles
          PrivilegedLimit,  \* and of ADMIN and DUENO
          Window,           \* LOGIN_LOCKOUT_MS, in ticks
          MaxCrashes        \* bound on the restarts of the backend

ASSUME LockoutAssumption == /\ Limit \in Nat \ {0}
                            /\ PrivilegedLimit \in Nat \ {0}
                            /\ Window \in Nat \ {0}
                            /\ MaxCrashes \in Nat

VARIABLES privileged,           \* the role is ADMIN or DUENO
          failedLoginAttempts,
          lock,                 \* lockedUntil, as the ticks left of it
          pc,                   \* where each attempt is
          failures,             \* failures since the last valid login or cleared lock
          crashes

vars == <<privileged, failedLoginAttempts, lock, pc, failures, crashes>>

NoLock == -1
Steps == {"idle", "reopen", "compare", "count", "block", "accept"}
MaxFailed == IF privileged THEN PrivilegedLimit ELSE Limit

Init == /\ privileged \in BOOLEAN
        /\ failedLoginAttempts = 0
        /\ lock = NoLock
        /\ pc = [a \in Attempts |-> "idle"]
        /\ failures = 0
        /\ crashes = 0

At(a, from, to) == pc[a] = from /\ pc' = [pc EXCEPT ![a] = to]

\* Mutant of Count: the lock comes one failure late.
CountPastLimit(a) ==
    /\ At(a, "count", IF failedLoginAttempts >= MaxFailed THEN "block" ELSE "idle")
    /\ failedLoginAttempts' = failedLoginAttempts + 1
    /\ failures' = failures + 1
    /\ UNCHANGED <<privileged, lock, crashes>>

(* The row is read once: a lock in force refuses, an expired one is        *)
(* cleared before the password is compared.                                *)
Begin(a) ==
    /\ lock <= 0
    /\ At(a, "idle", IF lock = 0 THEN "reopen" ELSE "compare")
    /\ UNCHANGED <<privileged, failedLoginAttempts, lock, failures, crashes>>

(* The reset of an expired lock, decided on the row read by Begin.  The    *)
(* ghost keeps the failures of a window whose limit was not reached.       *)
Reopen(a) ==
    /\ At(a, "reopen", "compare")
    /\ failedLoginAttempts' = 0
    /\ lock' = NoLock
    /\ failures' = IF lock = NoLock THEN failures ELSE 0
    /\ UNCHANGED <<privileged, crashes>>

Compare(a) ==
    /\ \E passwordOk \in BOOLEAN : At(a, "compare", IF passwordOk THEN "accept" ELSE "count")
    /\ UNCHANGED <<privileged, failedLoginAttempts, lock, failures, crashes>>

Count(a) ==
    /\ At(a, "count", IF failedLoginAttempts + 1 >= MaxFailed THEN "block" ELSE "idle")
    /\ failedLoginAttempts' = failedLoginAttempts + 1
    /\ failures' = failures + 1
    /\ UNCHANGED <<privileged, lock, crashes>>

Block(a) ==
    /\ At(a, "block", "idle")
    /\ lock' = Window
    /\ UNCHANGED <<privileged, failedLoginAttempts, failures, crashes>>

Accept(a) ==
    /\ At(a, "accept", "idle")
    /\ failedLoginAttempts' = 0
    /\ lock' = NoLock
    /\ failures' = 0
    /\ UNCHANGED <<privileged, crashes>>

Tick ==
    /\ lock > 0
    /\ lock' = lock - 1
    /\ UNCHANGED <<privileged, failedLoginAttempts, pc, failures, crashes>>

(* A restart drops every attempt where it is; the row stays.               *)
Crash ==
    /\ crashes < MaxCrashes
    /\ crashes' = crashes + 1
    /\ pc' = [a \in Attempts |-> "idle"]
    /\ UNCHANGED <<privileged, failedLoginAttempts, lock, failures>>

Next == \/ \E a \in Attempts : \/ Begin(a) \/ Reopen(a) \/ Compare(a)
                               \/ Count(a) \/ Block(a) \/ Accept(a)
        \/ Tick
        \/ Crash

Spec == Init /\ [][Next]_vars /\ WF_vars(Tick)

-----------------------------------------------------------------------------
(* Type invariant of the row and of the attempts.                          *)
LockoutTypeOK ==
    /\ privileged \in BOOLEAN
    /\ failedLoginAttempts \in Nat
    /\ lock \in NoLock..Window
    /\ pc \in [Attempts -> Steps]
    /\ failures \in Nat
    /\ crashes \in 0..MaxCrashes

(* An account whose counter reached the limit is locked, or an attempt is  *)
(* about to lock it: no order of concurrent attempts slips past the limit. *)
(* Only a restart between the count and the lock can leave it open.        *)
FullCounterLocks ==
    failedLoginAttempts >= MaxFailed /\ lock = NoLock =>
        (\E a \in Attempts : pc[a] = "block") \/ crashes > 0

(* A valid login and an ended lock start a new window: the counter never   *)
(* holds a failure from before them.                                       *)
CounterNeverAhead == failedLoginAttempts <= failures

(* A lock always ends: attempts refused while it holds do not extend it,   *)
(* and those already under way can extend it only once each.               *)
LockEnds == (lock > 0) ~> (lock <= 0)

(* The comment of login: failed attempts that have not reached the limit   *)
(* are kept until a valid login (or until a lock ends).                    *)
FailuresKept == failedLoginAttempts >= failures

=============================================================================
