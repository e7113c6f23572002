----------------------------- MODULE RateLimiter -----------------------------
(***************************************************************************)
(* A rate limit: enforceRateLimitWithSubject (internal/http/rate_limit.go)  *)
(* over RedisRateLimiter.Allow (internal/security/ratelimiter.go).          *)
(*                                                                          *)
(* A script in Redis counts the calls of a key, and the key expires one     *)
(* window after the first.  Keys do not touch each other: this is one key,  *)
(* with a limit that is not zero (zero switches the limit off).  A call     *)
(* that Redis does not answer is sent again, and admitted at last.          *)
(***************************************************************************)
EXTENDS Integers, Functions

CONSTANTS
    Caller,       \* requests of one subject
    Limit,        \* how many a window admits
    Window,       \* its length
    MaxRetries,   \* go-redis: how often a call is sent again
    MaxTime,      \* bound: the clock
    MaxCount      \* bound: calls counted in a window

Time == 0..MaxTime

VARIABLES
    now,
    limiter,    \* whether Redis answered the ping when the server started
    counter,    \* the key: its value, and when it expires
    call,       \* calls under way: how often they were sent again; -1 for none
    began,      \* history: when the key was created
    admitted,   \* history: at each time, the calls counted then and admitted
    told        \* history: the times when refusals said that a window ends

vars == <<now, limiter, counter, call, began, admitted, told>>

Init ==
    /\ now = 0
    /\ limiter \in BOOLEAN
    /\ counter = [count |-> 0, ends |-> 0]
    /\ call = [c \in Caller |-> -1]
    /\ began = 0
    /\ admitted = [t \in Time |-> 0]
    /\ told = {}

-----------------------------------------------------------------------------
(* Without a limiter, or once a call has failed, the request is admitted    *)
(* and nothing is counted.                                                  *)
Ask(c) ==
    /\ limiter
    /\ call[c] = -1
    /\ call' = [call EXCEPT ![c] = 0]
    /\ UNCHANGED <<now, limiter, counter, began, admitted, told>>

Expired == counter.count = 0 \/ now >= counter.ends

(* Not the code: each call extends the window.                              *)
BugExtended == [count |-> IF Expired THEN 1 ELSE counter.count + 1, ends |-> now + Window]

(* INCR, and PEXPIRE after the first: one script, so one step.              *)
Counted == IF Expired THEN [count |-> 1, ends |-> now + Window]
           ELSE [counter EXCEPT !.count = @ + 1]

CountCall ==
    /\ Expired \/ counter.count < MaxCount
    /\ counter' = Counted
    /\ began' = IF Expired THEN now ELSE began

(* Not the code: one more than the limit is admitted.                       *)
BugOneMore(count) == count > Limit + 1

Over(count) == count > Limit

(* The script has run, and its answer arrives.                              *)
Answer(c) ==
    /\ call[c] >= 0
    /\ CountCall
    /\ IF Over(counter'.count)
       THEN told' = told \cup {counter'.ends} /\ UNCHANGED admitted
       ELSE admitted' = [admitted EXCEPT ![now] = @ + 1] /\ UNCHANGED told
    /\ call' = [call EXCEPT ![c] = -1]
    /\ UNCHANGED <<now, limiter>>

(* The connection fails, before or after the script has run.                *)
Fail(c) ==
    /\ call[c] >= 0
    /\ CountCall \/ UNCHANGED <<counter, began>>
    /\ call' = [call EXCEPT ![c] = IF @ < MaxRetries THEN @ + 1 ELSE -1]
    /\ UNCHANGED <<now, limiter, admitted, told>>

Tick ==
    /\ now < MaxTime
    /\ now' = now + 1
    /\ UNCHANGED <<limiter, counter, call, began, admitted, told>>

(* Redis runs without persistence: the key is lost, and history with it.    *)
RestartRedis ==
    /\ counter' = [count |-> 0, ends |-> 0]
    /\ admitted' = [t \in Time |-> 0]
    /\ told' = {}
    /\ UNCHANGED <<now, limiter, call, began>>

RestartServer ==
    /\ limiter' \in BOOLEAN
    /\ call' = [c \in Caller |-> -1]
    /\ UNCHANGED <<now, counter, began, admitted, told>>

Next == (\E c \in Caller : Ask(c) \/ Answer(c) \/ Fail(c)) \/ Tick \/ RestartRedis \/ RestartServer

Spec == Init /\ [][Next]_vars

-----------------------------------------------------------------------------
(* Properties.                                                              *)

(* The shape of every variable; no call is sent more than MaxRetries times  *)
(* again.                                                                   *)
TypeOK ==
    /\ now \in Time
    /\ limiter \in BOOLEAN
    /\ counter \in [count : 0..MaxCount, ends : 0..MaxTime + Window]
    /\ call \in [Caller -> -1..MaxRetries]
    /\ began \in Time
    /\ admitted \in [Time -> Nat]
    /\ told \subseteq 0..MaxTime + Window

(* While Redis runs, any stretch as long as a window sees fewer counted     *)
(* calls admitted than two limits: it meets two windows at most, and the    *)
(* first call of the earlier one lies before it.                            *)
AdmittedWithinWindows ==
    \A t \in Time :
        SumFunctionOnSet(admitted, {i \in Time : t <= i /\ i < t + Window}) < 2 * Limit

(* A refusal does not outlast its window: from the time it named on, the    *)
(* count is of calls made since, however often the subject has asked and    *)
(* been refused, and however often a call was sent again.                   *)
RefusalsEnd == \A t \in told : t <= now /\ ~Expired => began >= t
=============================================================================
