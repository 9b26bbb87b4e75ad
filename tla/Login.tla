-------------------------------- MODULE Login --------------------------------
(***************************************************************************)
(* POST /auth/login (services/users/app/routers/auth.py): each request is  *)
(* checked by its address, then by its user name, verifies a password      *)
(* without any lock, and clears both counters when the password was right. *)
(* Meanwhile other requests may use up the budget of the same address or   *)
(* name: a lockout then begins that the first request has already passed.  *)
(***************************************************************************)
EXTENDS RateLimiter

CONSTANTS
    Addresses,    \* client addresses
    Names,        \* user names
    NoRequest,    \* what a thread that serves no login works on
    MaxRequests   \* bound: the logins of a behaviour

ASSUME LoginAssumption ==
    /\ Ids = Addresses \cup Names
    /\ Addresses \cap Names = {}
    /\ \A i \in Addresses, u \in Names : LimiterOf[i] # LimiterOf[u]
    /\ NoRequest \notin Addresses \X Names
    /\ MaxRequests \in Nat

VARIABLES
    request,    \* the address and the name of each thread's request
    step,       \* where each thread is in login
    begun,      \* bound: the logins begun so far
    overtaken   \* history: the ids locked out since the thread passed their check

loginVars == <<limiterVars, request, step, begun, overtaken>>

Steps == {"idle", "address", "between", "name", "verifying", "resetting"}

Address(t) == request[t][1]
Name(t) == request[t][2]

LoginTypeOK ==
    /\ request \in [Threads -> (Addresses \X Names) \cup {NoRequest}]
    /\ step \in [Threads -> Steps]
    /\ begun \in 0..MaxRequests
    /\ overtaken \in [Threads -> SUBSET Ids]

LoginInit ==
    /\ LimiterInit
    /\ request = [t \in Threads |-> NoRequest]
    /\ step = [t \in Threads |-> "idle"]
    /\ begun = 0
    /\ overtaken = [t \in Threads |-> {}]

\* The ids whose check the request of t has passed and that it has not reset.
Passed(t) ==
    {i \in Addresses : step[t] \in {"between", "name", "verifying"} /\ i = Address(t)}
    \cup {u \in Names : step[t] \in {"verifying", "resetting"} /\ u = Name(t)}
-----------------------------------------------------------------------------
(* Actions *)

To(t, s) == step' = [step EXCEPT ![t] = s]

\* The request is answered.
Done(t) ==
    /\ To(t, "idle")
    /\ request' = [request EXCEPT ![t] = NoRequest]
    /\ UNCHANGED begun

\* The clock runs on.
LoginTick == Tick /\ UNCHANGED <<request, step, begun, overtaken>>

\* _enforce(login_ip_limiter, client_ip) begins.
Begin(t, i, u) ==
    /\ step[t] = "idle"
    /\ begun < MaxRequests
    /\ begun' = begun + 1
    /\ Call(t, i)
    /\ To(t, "address")
    /\ request' = [request EXCEPT ![t] = <<i, u>>]
    /\ UNCHANGED overtaken

AddressPasses(t) ==
    /\ step[t] = "address"
    /\ Admit(t, Address(t))
    /\ To(t, "between")
    /\ UNCHANGED <<request, begun, overtaken>>

\* _enforce(login_username_limiter, username) begins.
CallName(t) ==
    /\ step[t] = "between"
    /\ Call(t, Name(t))
    /\ To(t, "name")
    /\ UNCHANGED <<request, begun, overtaken>>

\* Variant: a name that is locked out does not end the request.
NamePassesLocked(t) ==
    /\ step[t] = "name"
    /\ Admit(t, Name(t)) \/ RefuseLocked(t, Name(t))
    /\ To(t, "verifying")
    /\ UNCHANGED <<request, begun, overtaken>>

NamePasses(t) ==
    /\ step[t] = "name"
    /\ Admit(t, Name(t))
    /\ To(t, "verifying")
    /\ UNCHANGED <<request, begun, overtaken>>

\* The id t is about to be checked by.
Checked(t) == IF step[t] = "address" THEN Address(t) ELSE Name(t)

\* 429: the id is locked out already.
Refused(t) ==
    /\ step[t] \in {"address", "name"}
    /\ RefuseLocked(t, Checked(t))
    /\ Done(t)
    /\ overtaken' = [overtaken EXCEPT ![t] = {}]

\* 429: the attempt starts a lockout, which overtakes those who passed before.
LocksOut(t) ==
    /\ step[t] \in {"address", "name"}
    /\ LockOut(t, Checked(t))
    /\ Done(t)
    /\ overtaken' = [u \in Threads |-> IF u = t THEN {}
                                       ELSE overtaken[u] \cup ({Checked(t)} \cap Passed(u))]

\* 401: no such user, or a wrong password.
Rejected(t) ==
    /\ step[t] = "verifying"
    /\ Done(t)
    /\ overtaken' = [overtaken EXCEPT ![t] = {}]
    /\ UNCHANGED limiterVars

\* The password was right: login_ip_limiter.reset(client_ip).
ResetAddress(t) ==
    /\ step[t] = "verifying"
    /\ Reset(Address(t))
    /\ To(t, "resetting")
    /\ UNCHANGED <<request, begun, overtaken>>

\* login_username_limiter.reset(username), and the token is returned.
ResetName(t) ==
    /\ step[t] = "resetting"
    /\ Reset(Name(t))
    /\ Done(t)
    /\ overtaken' = [overtaken EXCEPT ![t] = {}]

LoginNext ==
    \/ LoginTick
    \/ \E t \in Threads :
        \/ \E i \in Addresses, u \in Names : Begin(t, i, u)
        \/ AddressPasses(t)
        \/ CallName(t)
        \/ NamePasses(t)
        \/ Refused(t)
        \/ LocksOut(t)
        \/ Rejected(t)
        \/ ResetAddress(t)
        \/ ResetName(t)

LoginSpec == LoginInit /\ [][LoginNext]_loginVars
-----------------------------------------------------------------------------
(* Properties *)

\* A lockout that runs is neither prolonged nor replaced, and is cut short only
\* by a login that had passed its check before the lockout began and whose
\* password was right (auth.py:97-98, 122-123): no request that came later
\* gets as far as clearing the counters.
OnlyOvertakenLoginsForgive ==
    [][\A k \in Ids : clock < lockEnd[k] /\ lockEnd'[k] # lockEnd[k]
            => \E t \in Threads : k \in overtaken[t] /\ (ResetAddress(t) \/ ResetName(t))]_loginVars

\* What a thread waits for is what its request has it check.
ChecksMatch ==
    \A t \in Threads :
        /\ step[t] # "idle" => request[t] # NoRequest
        /\ checking[t] = CASE step[t] = "address" -> Address(t)
                           [] step[t] = "name" -> Name(t)
                           [] OTHER -> "idle"

\* Whoever is past the check of an id that is locked out was there first.
LateLockouts ==
    \A t \in Threads : \A k \in Passed(t) : clock < lockEnd[k] => k \in overtaken[t]

LoginInv == LimiterInv /\ LoginTypeOK /\ ChecksMatch /\ LateLockouts
=============================================================================
