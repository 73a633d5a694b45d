------------------------------ MODULE CxaGuard ------------------------------
(* __cxa_guard_acquire() and __cxa_guard_release() of WeensyOS                *)
(* (src/pset4/k-hardware.cc): the lock the compiler puts around the           *)
(* initialisation of a static variable. Threads call a function with such a   *)
(* variable at the same time; the guard is 0 before, 1 during and 2 after its *)
(* initialisation, and an exchange with 1 is how a caller asks for it.        *)
EXTENDS Integers, FiniteSets

CONSTANTS Threads, Calls   \* the callers, and how often each calls (a bound)

ASSUME GuardAssumption == Calls \in Nat \ {0}

VARIABLES
    guard,        \* the atomic byte: 0, 1 or 2
    at,           \* where each thread is
    callsLeft,    \* calls each thread still makes
    initialized,  \* times the initialisation was completed
    used          \* threads that used the variable before it was initialised

guardVars == <<guard, at, callsLeft, initialized, used>>

Go(t, place) == at' = [at EXCEPT ![t] = place]

\* Uses of the static variable after the acquire returned 0 or the release.
Use(t) == /\ used' = IF initialized = 0 THEN used \cup {t} ELSE used
          /\ Go(t, "out")

Enter(t) == /\ at[t] = "out" /\ callsLeft[t] > 0
           /\ callsLeft' = [callsLeft EXCEPT ![t] = @ - 1]
           /\ Go(t, "load")
           /\ UNCHANGED <<guard, initialized, used>>

\* The relaxed load; on the x86 of the build it reads the byte as it is.
Load(t) == /\ at[t] = "load"
           /\ IF guard = 2 THEN Use(t) ELSE Go(t, "exchange") /\ UNCHANGED used
           /\ UNCHANGED <<guard, callsLeft, initialized>>

\* A mutant: a thread that finds the lock taken takes it as well.
AfterExchange_Taken(old) == IF old = 2 THEN "restore" ELSE "initialize"

\* What exchange(1) makes of the value it found: 1 means pause and try again.
AfterExchange(old) == IF old = 2 THEN "restore" ELSE IF old = 1 THEN "exchange" ELSE "initialize"

Exchange(t) == /\ at[t] = "exchange"
               /\ guard' = 1
               /\ Go(t, AfterExchange(guard))
               /\ UNCHANGED <<callsLeft, initialized, used>>

\* A mutant: nothing is put back.
Restored_Not == guard
Restored == 2

\* It was initialised already: the 2 is put back where the exchange left a 1.
Restore(t) == /\ at[t] = "restore"
              /\ guard' = Restored
              /\ Use(t)
              /\ UNCHANGED <<callsLeft, initialized>>

\* The initialiser of the variable, code of the compiler's (external).
Initialize(t) == /\ at[t] = "initialize"
                 /\ initialized' = initialized + 1
                 /\ Go(t, "release")
                 /\ UNCHANGED <<guard, callsLeft, used>>

StoreRelease(t) == /\ at[t] = "release"
              /\ guard' = 2
              /\ Use(t)
              /\ UNCHANGED <<callsLeft, initialized>>

GuardStep(t) == Load(t) \/ Exchange(t) \/ Restore(t) \/ Initialize(t) \/ StoreRelease(t)

GuardInit == /\ guard = 0
             /\ at = [t \in Threads |-> "out"]
             /\ callsLeft = [t \in Threads |-> Calls]
             /\ initialized = 0 /\ used = {}

GuardNext == \E t \in Threads : Enter(t) \/ GuardStep(t)

\* Every thread that is in a call goes on: the processors run them all.
GuardFairness == \A t \in Threads : WF_guardVars(GuardStep(t))

GuardSpec == GuardInit /\ [][GuardNext]_guardVars /\ GuardFairness

-----------------------------------------------------------------------------
(* Properties *)

GuardTypeOK == /\ guard \in 0..2
               /\ at \in [Threads -> {"out", "load", "exchange", "restore",
                                      "initialize", "release"}]
               /\ callsLeft \in [Threads -> 0..Calls]
               /\ initialized \in Nat
               /\ used \subseteq Threads

\* The variable is initialised once, by one thread, and nobody uses it before:
\* not the threads that came while the guard was 1, and not because a late
\* caller's exchange wrote 1 over the 2.
InitializedOnce == initialized <= 1 /\ used = {}

\* Every call ends: the 1 a late caller leaves is always replaced by a 2, so
\* that the threads spinning on it get through.
EveryCallEnds == \A t \in Threads : at[t] # "out" ~> at[t] = "out"
=============================================================================
