----------------------------- MODULE FencedLock -----------------------------
(***************************************************************************)
(* What the domain lock promises its users: a lock per domain that is      *)
(* granted with an ever larger fencing token, is kept alive by its owner,   *)
(* may lapse, and changes hands only when it was given up or has lapsed.    *)
(* DomainLock implements it with rows of the `domain_locks` table;          *)
(* CourseOrchestration uses it as the lease of a course, and the drives of  *)
(* HitchOrchestrator use the lock of their domain as it allows.            *)
(***************************************************************************)
EXTENDS Integers

CONSTANTS
    Clients,   \* who asks for the lock
    Names,     \* what is locked
    Nobody     \* no owner

ASSUME NobodyAssumption == Nobody \notin Clients

VARIABLES
    owner,     \* the client a lock was granted to, until the grant is ended
    token,     \* the fencing token of that grant, 0 when there is none
    live,      \* the lease of the grant has not lapsed
    issued     \* the largest token granted so far, over all locks

fenceVars == <<owner, token, live, issued>>

FenceInit ==
    /\ owner = [n \in Names |-> Nobody]
    /\ token = [n \in Names |-> 0]
    /\ live = [n \in Names |-> FALSE]
    /\ issued = 0

\* What a client can check: the grant with this token is still its own.
Holds(c, n, t) == owner[n] = c /\ token[n] = t /\ live[n]

\* A lock that nobody owns, or whose owner let the lease lapse, is granted
\* with a token larger than every token before it.
Grant(c, n) ==
    /\ owner[n] = Nobody \/ ~live[n]
    /\ issued' = issued + 1
    /\ owner' = [owner EXCEPT ![n] = c]
    /\ token' = [token EXCEPT ![n] = issued + 1]
    /\ live' = [live EXCEPT ![n] = TRUE]

\* The owner renews its lease, also a lapsed one nobody has taken.
Renew(c, n, t) ==
    /\ owner[n] = c /\ token[n] = t
    /\ live' = [live EXCEPT ![n] = TRUE]
    /\ UNCHANGED <<owner, token, issued>>

\* The grant is ended, by its owner or by the operator.
End(n) ==
    /\ owner[n] # Nobody
    /\ owner' = [owner EXCEPT ![n] = Nobody]
    /\ token' = [token EXCEPT ![n] = 0]
    /\ live' = [live EXCEPT ![n] = FALSE]
    /\ UNCHANGED issued

\* Time passes: leases that were not renewed lapse.
Lapse(lapsed) ==
    /\ \A n \in lapsed : owner[n] # Nobody /\ live[n]
    /\ live' = [n \in Names |-> live[n] /\ n \notin lapsed]
    /\ UNCHANGED <<owner, token, issued>>

FenceNext ==
    \/ \E c \in Clients, n \in Names : Grant(c, n)
    \/ \E c \in Clients, n \in Names : Renew(c, n, token[n])
    \/ \E n \in Names : End(n)
    \/ \E lapsed \in SUBSET Names : Lapse(lapsed)

FenceSpec == FenceInit /\ [][FenceNext]_fenceVars
=============================================================================
