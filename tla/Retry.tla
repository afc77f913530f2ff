-------------------------------- MODULE Retry --------------------------------
(***************************************************************************)
(* When a job that failed runs again: the policy of core/retry.go, the     *)
(* fields that handleSuccess, handleFailure and CloneForRetry carry from   *)
(* one execution to the next (core/scheduler.go, core/job.go), the retry   *)
(* by hand of api/handlers.go, and the change of the policy at run time.   *)
(* Who runs the job and when is Scheduler's; here an execution is the one  *)
(* step that ends it.  A snapshot keeps all these fields, so a restart     *)
(* changes nothing.                                                        *)
(*                                                                         *)
(* A time.Duration has Width bits; a product that does not fit wraps.      *)
(***************************************************************************)
EXTENDS Integers

CONSTANTS
    Width,        \* bits of a Duration, 64 in Go
    Bases,        \* RetryDelay as submitted; one below zero parses as well
    MaxDelays,    \* the limits a configuration may set, 0 for none
    MaxRetries,   \* the largest number of retries submitted
    MaxByHand     \* bound: retries by hand

Pow2(n) == 2 ^ n

\* The smallest Duration is -Half, the largest Half - 1.
Half == Pow2(Width - 1)

\* A limit leaves room for its own jitter (243 years).
ASSUME RetryAssumption ==
    /\ Width \in Nat \ {0, 1} /\ Bases \subseteq -Half..Half - 1
    /\ {MaxRetries, MaxByHand} \subseteq Nat
    /\ \A m \in MaxDelays : m \in Nat /\ m + m \div 5 < Half

VARIABLES
    retried,    \* the fields of the job that decide on its next execution
    maxDelay,   \* ExponentialBackoffRetry.MaxDelay, replaced as a whole
    byHand,     \* retries by hand so far
    asked,      \* the delay submitted, and the doublings since (history)
    waited      \* the last wait, and from what it was computed (history)

retryVars == <<retried, maxDelay, byHand, asked, waited>>

Wrap(x) == ((x + Half) % (2 * Half)) - Half

\* createJob and the job files: any delay that parses, any number of retries.
RetryInit ==
    /\ retried \in [delay : Bases, count : {0}, max : 0..MaxRetries,
                  repeats : BOOLEAN, status : {"pending"}]
    /\ maxDelay \in MaxDelays /\ byHand = 0
    /\ asked = [base |-> retried.delay, doublings |-> 0]
    /\ waited = [count |-> 0, limit |-> 0, fits |-> FALSE, product |-> 0, wait |-> 0]

\* The delay, and up to a fifth of it at random on top.
Limited(d) == IF maxDelay > 0 /\ d > maxDelay THEN maxDelay ELSE d
Jittered(d) ==
    {Wrap(d + x) : x \in IF d >= 0 THEN 0..(d \div 5) ELSE -((-d) \div 5)..0}

\* time.Duration(math.Pow(2, count)): of what does not fit, what the machine makes,
\* the smallest value on some and the largest on others.
Factor(count) == IF count < Width - 1 THEN {Pow2(count)} ELSE {-Half, Half - 1}

Products == {Wrap(retried.delay * f) : f \in Factor(retried.count)}

\* NextRetry, from the product to the wait; and one that forgets the limit.
NextRetryUnlimited(product) == Jittered(product)
NextRetry(product) == Jittered(Limited(product))

\* A retry is no repeating job any more.
CloneForRetry ==
    [retried EXCEPT !.count = @ + 1, !.delay = Wrap(2 * @), !.repeats = FALSE]

\* Whether the delay asked for makes sense and nothing has wrapped on the way.
ProductFits ==
    /\ asked.base >= 0
    /\ 6 * (asked.base * Pow2(asked.doublings + retried.count)) < 5 * Half

HandleFailure ==
    /\ retried.status = "pending" /\ retried.count < retried.max
    /\ retried' = CloneForRetry
    /\ \E p \in Products : \E w \in NextRetry(p) :
        waited' = [count |-> retried.count, limit |-> maxDelay,
                   fits |-> ProductFits, product |-> p, wait |-> w]
    /\ asked' = [asked EXCEPT !.doublings = @ + 1]
    /\ UNCHANGED <<maxDelay, byHand>>

\* The retries are used up, or the error says that they are of no use.
MarkFailed ==
    /\ retried.status = "pending"
    /\ retried' = [retried EXCEPT !.status = "failed"]
    /\ UNCHANGED <<maxDelay, byHand, asked, waited>>

\* The next round of a repeating job lists its fields one by one, without the delay.
HandleSuccess ==
    /\ retried.status = "pending"
    /\ retried' = IF retried.repeats THEN [retried EXCEPT !.count = 0, !.delay = 0]
                                 ELSE [retried EXCEPT !.status = "success"]
    /\ asked' = IF retried.repeats THEN [base |-> 0, doublings |-> 0] ELSE asked
    /\ UNCHANGED <<maxDelay, byHand, waited>>

\* The count starts again, the delay stays where the retries have brought it.
RetryJob ==
    /\ retried.status = "failed" /\ byHand < MaxByHand
    /\ retried' = [retried EXCEPT !.count = 0, !.status = "pending"]
    /\ byHand' = byHand + 1
    /\ UNCHANGED <<maxDelay, asked, waited>>

SetRetryPolicy ==
    /\ maxDelay' \in MaxDelays
    /\ UNCHANGED <<retried, byHand, asked, waited>>

RetryNext ==
    HandleFailure \/ MarkFailed \/ HandleSuccess \/ RetryJob \/ SetRetryPolicy

RetrySpec == RetryInit /\ [][RetryNext]_retryVars
-----------------------------------------------------------------------------
\* "指数退避: delay * 2^retryCount + jitter", and "单次重试延迟上限" of core/config.go -
\* through retries, retries by hand and changes of the limit: a wait is never
\* longer than the limit and its jitter, unless the jitter on a product that is
\* almost the smallest Duration wraps; and it is at least what the delay as
\* submitted asks for, or the limit, unless that was below zero or a product has
\* wrapped.  (The delay of the next round of a repeating job counts as submitted:
\* it is 0.)
BackoffHolds ==
    /\ waited.limit > 0 /\ 6 * waited.product >= -5 * Half =>
        waited.wait <= waited.limit + waited.limit \div 5
    /\ waited.fits =>
        LET due == asked.base * Pow2(waited.count) IN
        waited.wait >= due \/ (waited.limit > 0 /\ waited.wait >= waited.limit)
=============================================================================
