----------------------------- MODULE RateLimiter -----------------------------
(***************************************************************************)
(* The in-memory rate limiter (rate_limit.rs): one counter per address and  *)
(* fixed window, which login, registration, the OIDC token endpoint and     *)
(* LDAP binds each keep one of.  check takes the time and the write lock    *)
(* with nothing but the lock between them, so one step does both.           *)
(* record_failure has no caller outside its tests and is left out.          *)
(***************************************************************************)
EXTENDS Integers, Sequences

CONSTANTS
    Addresses,    \* peer addresses
    MaxRequests,  \* RateLimitConfig.max_requests
    Window,       \* RateLimitConfig.window
    MaxClock      \* bound: time stops here

\* A limiter that allows no request at all is left out.
ASSUME LimiterAssumption ==
    {MaxRequests, Window, MaxClock} \subseteq Nat \ {0}

VARIABLES
    clock,    \* Instant::now()
    entries,  \* RateLimiter.entries
    admitted  \* history: when each address was let in since the process started

limiterVars == <<clock, entries, admitted>>

NoEntry == [count |-> 0, window_start |-> -1]
RateLimitEntry == [count : 0..MaxRequests, window_start : -1..MaxClock]

LimiterInit ==
    /\ clock = 0
    /\ entries = [a \in Addresses |-> NoEntry]
    /\ admitted = [a \in Addresses |-> <<>>]

LimiterTypeOK ==
    /\ clock \in 0..MaxClock
    /\ entries \in [Addresses -> RateLimitEntry]
    /\ admitted \in [Addresses -> Seq(0..MaxClock)]

\* The entry's window has not ended.
Fresh(e) == clock - e.window_start < Window

\* The entry check works on: inserted if there is none, reset if its window ended.
Current(a) ==
    IF entries[a] = NoEntry \/ ~Fresh(entries[a])
    THEN [count |-> 0, window_start |-> clock]
    ELSE entries[a]

Allowed(a) == Current(a).count < MaxRequests

\* RateLimiter::check: a refused request still inserts or resets the entry.
Check(a) ==
    /\ entries' = [entries EXCEPT ![a] =
                      IF Allowed(a) THEN [Current(a) EXCEPT !.count = @ + 1] ELSE Current(a)]
    /\ admitted' = IF Allowed(a) THEN [admitted EXCEPT ![a] = Append(@, clock)] ELSE admitted
    /\ UNCHANGED clock

\* Mutant: the sweep forgets every entry.
RetainedNone(e) == FALSE

Retained(e) == Fresh(e)

\* RateLimiter::cleanup, from the loop of main.rs.
Cleanup ==
    /\ entries' = [a \in Addresses |->
                      IF Retained(entries[a]) THEN entries[a] ELSE NoEntry]
    /\ UNCHANGED <<clock, admitted>>

\* The process starts anew with an empty limiter.
ClearLimiter ==
    /\ entries' = [a \in Addresses |-> NoEntry]
    /\ admitted' = [a \in Addresses |-> <<>>]
    /\ UNCHANGED clock

Passage == clock < MaxClock /\ clock' = clock + 1 /\ UNCHANGED <<entries, admitted>>

\* Of one address fewer than twice MaxRequests attempts are let in within a Window,
\* wherever it begins, however cleanup, refusals and reconnections fall: a burst
\* over the end of a counted window gets all of the next one but, before it, at
\* least one less ("keeping a socket open cannot bypass the limit", handle_bind).
BindRateBounded ==
    \A a \in Addresses : \A i, j \in DOMAIN admitted[a] :
        j = i + 2 * MaxRequests - 1 => admitted[a][j] - admitted[a][i] >= Window

=============================================================================
