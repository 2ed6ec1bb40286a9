------------------------------ MODULE Throttler ------------------------------
(***************************************************************************)
(* The storage behind ThrottlerGuard: one bucket per client and route, two *)
(* keys in Redis that one Lua script reads and writes atomically.          *)
(*                                                                         *)
(* The guard (a library) passes the ttl as the duration of a block, and    *)
(* answers 429 with Retry-After iff the script says blocked.               *)
(***************************************************************************)
EXTENDS Integers

CONSTANTS
    Limit,   \* how many hits a window admits
    Ttl,     \* how long a window, and a block, lasts
    Second   \* the clock's ticks in the unit of Retry-After

ASSUME ThrottlerAssumption ==
    /\ Limit \in Nat \ {0}
    /\ Ttl \in Nat \ {0}
    /\ Second \in Nat \ {0}

\* hits and hitsEnd: the value and the expiry of the first key; blockEnd: the
\* expiry of the second.  A key that does not exist has expiry 0 and value 0.
Bucket == [hits : Nat, hitsEnd : Nat, blockEnd : Nat]
Empty == [hits |-> 0, hitsEnd |-> 0, blockEnd |-> 0]

\* Redis keeps a key up to and including the millisecond of its expiry.
Swept(b, t) ==
    [hits     |-> IF b.hitsEnd < t THEN 0 ELSE b.hits,
     hitsEnd  |-> IF b.hitsEnd < t THEN 0 ELSE b.hitsEnd,
     blockEnd |-> IF b.blockEnd < t THEN 0 ELSE b.blockEnd]

\* Mutant: every hit prolongs the window.
CountedSliding(b, t) == [b EXCEPT !.hits = @ + 1, !.hitsEnd = t + Ttl]

\* INCR, then PEXPIRE if that made the key.
Counted(b, t) ==
    [b EXCEPT !.hits = @ + 1, !.hitsEnd = IF b.hits = 0 THEN t + Ttl ELSE @]

Blocked(b, t) == b.blockEnd > t

\* Mutants of the next definition.
ExceedsEarly(b) == b.hits >= Limit
ExceedsLate(b) == b.hits > Limit + 1

\* A block that runs is left alone, while the hits go on counting.
Exceeds(b) == b.hits > Limit

Increment(b, t) ==
    LET c == Counted(Swept(b, t), t)
    IN  IF ~Blocked(c, t) /\ Exceeds(c) THEN [c EXCEPT !.blockEnd = t + Ttl] ELSE c

\* Mutant: rounded down.
RetryAfterFloor(b, t) == ((b.blockEnd - t) \div Second) * Second

\* What the client is told to wait, in ticks: whole seconds, rounded up.
RetryAfter(b, t) == ((b.blockEnd - t + Second - 1) \div Second) * Second

=============================================================================
