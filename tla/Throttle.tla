------------------------------ MODULE Throttle ------------------------------
(***************************************************************************)
(* Requests to a public server: the slots that wait_for_slot books         *)
(* (overpass.rs), and the retry loops of make_request (overpass.rs) and    *)
(* geocode (geocoding.rs), which are the same loop.                        *)
(*                                                                         *)
(* Times are relative to now, in ticks.  The Option<Instant> `last` is     *)
(* kept as next, the time left until last + min_interval, which is 0 when  *)
(* there is no last or the time has passed: nothing else of last is read.  *)
(* Names such as ThrottleInit and phase keep apart from those of module    *)
(* XmlCache, which makes the requests of one kind.                         *)
(***************************************************************************)
EXTENDS Integers, FiniteSets

CONSTANTS
    Request,        \* concurrent calls, of one process
    MinInterval,    \* 1 s for Nominatim, 250 ms for Overpass
    MaxLate,        \* how late a sleeper may send after its slot
    MaxRetries,     \* MAX_RETRIES, and the 2 of geocode
    Backoff,        \* 500 ms
    RetryAfter,     \* the delays a Retry-After header may ask for
    Status          \* the HTTP statuses a response can have

ASSUME TimeAssumption ==
    /\ MinInterval \in Nat \ {0}
    /\ MaxLate \in Nat
    /\ MaxLate < MinInterval
    /\ Backoff \in Nat
    /\ RetryAfter \subseteq Nat

ASSUME RequestAssumption == IsFiniteSet(Request)

ASSUME RetryAssumption == MaxRetries \in Nat /\ Status \subseteq 100 .. 999

VARIABLES
    next,       \* ticks until a new request may go
    wait,       \* wait[t]: ticks until the time t waits for; negative when past
    attempt,    \* attempt[t]: the loop's counter
    status,     \* status[t]: the last status t was answered with, 0 for none
    quiet,      \* history: ticks since the last send, MinInterval at most
    phase       \* "idle", "slot", "wait", "sent", "backoff", "done", "failed",
                \* "panic" (unwound), "dropped"

throttleVars == <<next, wait, attempt, status, quiet, phase>>

Ended == {"idle", "done", "failed", "panic", "dropped"}

\* The calls that hold a slot and have not sent yet.
Waiting == {t \in Request : phase[t] = "wait"}

\* Those whose slot is still ahead, also when nobody waits for it any more.
Booking == {t \in Request : phase[t] \in {"wait", "dropped"} /\ wait[t] > 0}

\* status.is_success().
Success(s) == s \in 200 .. 299

\* response.error_for_status() is an error for these, and only for these.
ErrorStatus(s) == s \in 400 .. 599

\* is_retryable_status.
Retryable(s) == s \in {429, 502, 503, 504}

\* Mutant of RetriesLeft: one attempt too many.
OneMore(t) == attempt[t] <= MaxRetries

\* attempt < MAX_RETRIES.
RetriesLeft(t) == attempt[t] < MaxRetries

\* Mutant of NextAttempt: a `while` loop that forgets to count.
SameAttempt(t) == attempt[t]

\* `for attempt in 0..=MAX_RETRIES`.
NextAttempt(t) == attempt[t] + 1

\* retry_delay: what the header asks for, or the fallback.
RetryDelays(t) == RetryAfter \cup {Backoff * (attempt[t] + 1)}

\* Mutant of Remaining: a subtraction that is not checked.
Unchecked == next - 1

\* checked_duration_since(now).unwrap_or_default(), one tick later.
Remaining == IF next > 0 THEN next - 1 ELSE 0

\* Mutants of Booked: `*last = Some(now)`; a slot left free after each.
BookedNow == MinInterval
BookedTwice == next + 2 * MinInterval

\* The next slot after `*last = Some(now + delay)`, where the delay is next.
Booked == next + MinInterval

----------------------------------------------------------------------------

ThrottleInit ==
    /\ next = 0
    /\ wait = [t \in Request |-> 0]
    /\ attempt = [t \in Request |-> 0]
    /\ status = [t \in Request |-> 0]
    /\ quiet = MinInterval
    /\ phase = [t \in Request |-> "idle"]

\* A name is used for another call when its slot, if any, has passed.
Start(t) ==
    /\ phase[t] \in Ended /\ wait[t] <= 0
    /\ phase' = [phase EXCEPT ![t] = "slot"]
    /\ attempt' = [attempt EXCEPT ![t] = 0]
    /\ status' = [status EXCEPT ![t] = 0]
    /\ UNCHANGED <<next, wait, quiet>>

\* wait_for_slot up to the sleep, under the mutex.
Reserve(t) ==
    /\ phase[t] = "slot"
    /\ wait' = [wait EXCEPT ![t] = next]
    /\ next' = Booked
    /\ phase' = [phase EXCEPT ![t] = "wait"]
    /\ UNCHANGED <<attempt, status, quiet>>

\* The sleep is over, at once if the delay is zero, and the request is sent.
Send(t) ==
    /\ phase[t] = "wait"
    /\ wait[t] <= 0
    /\ wait' = [wait EXCEPT ![t] = 0]
    /\ quiet' = 0
    /\ phase' = [phase EXCEPT ![t] = "sent"]
    /\ UNCHANGED <<next, attempt, status>>

\* A response arrives: a success; or, of a status that is not an error either,
\* the panic of unwrap_err, which comes before the test of the attempt; or an
\* error, after which the loop waits for its next turn or returns it.
Answer(t) ==
    /\ phase[t] = "sent"
    /\ \E s \in Status :
        /\ status' = [status EXCEPT ![t] = s]
        /\ \/ /\ Success(s)
              /\ phase' = [phase EXCEPT ![t] = "done"]
              /\ UNCHANGED wait
           \/ /\ ~Success(s) /\ ~ErrorStatus(s)
              /\ phase' = [phase EXCEPT ![t] = "panic"]
              /\ UNCHANGED wait
           \/ /\ ErrorStatus(s) /\ RetriesLeft(t) /\ Retryable(s)
              /\ phase' = [phase EXCEPT ![t] = "backoff"]
              /\ \E d \in RetryDelays(t) : wait' = [wait EXCEPT ![t] = d]
           \/ /\ ErrorStatus(s) /\ ~(RetriesLeft(t) /\ Retryable(s))
              /\ phase' = [phase EXCEPT ![t] = "failed"]
              /\ UNCHANGED wait
    /\ UNCHANGED <<next, attempt, quiet>>

\* send() fails, or reading the body does, and the error is returned.
Break(t) ==
    /\ phase[t] = "sent"
    /\ status' = [status EXCEPT ![t] = 0]
    /\ phase' = [phase EXCEPT ![t] = "failed"]
    /\ UNCHANGED <<next, wait, attempt, quiet>>

\* The retry delay is over: the next turn of the loop, or the code after it,
\* which is unreachable!() in make_request and an expect in geocode.
Retry(t) ==
    /\ phase[t] = "backoff"
    /\ wait[t] <= 0
    /\ IF NextAttempt(t) <= MaxRetries
         THEN /\ attempt' = [attempt EXCEPT ![t] = NextAttempt(t)]
              /\ phase' = [phase EXCEPT ![t] = "slot"]
         ELSE phase' = [phase EXCEPT ![t] = "panic"] /\ UNCHANGED attempt
    /\ wait' = [wait EXCEPT ![t] = 0]
    /\ UNCHANGED <<next, status, quiet>>

\* The caller drops the future at an await: a slot it has booked stays booked.
Drop(t) ==
    /\ phase[t] \notin Ended
    /\ phase' = [phase EXCEPT ![t] = "dropped"]
    /\ wait' = [wait EXCEPT ![t] = IF t \in Booking THEN wait[t] ELSE 0]
    /\ UNCHANGED <<next, attempt, status, quiet>>

\* Time passes, but not beyond the lateness allowed to a call with a slot.
Tick ==
    /\ \A t \in Waiting : wait[t] > -MaxLate
    /\ next' = Remaining
    /\ wait' = [t \in Request |->
                  IF phase[t] = "wait" \/ wait[t] > 0 THEN wait[t] - 1 ELSE wait[t]]
    /\ quiet' = IF quiet < MinInterval THEN quiet + 1 ELSE quiet
    /\ UNCHANGED <<attempt, status, phase>>

CallStep(t) == Reserve(t) \/ Send(t) \/ Answer(t) \/ Break(t) \/ Retry(t)

ThrottleNext == Tick \/ \E t \in Request : Start(t) \/ CallStep(t) \/ Drop(t)

ThrottleSpec == ThrottleInit /\ [][ThrottleNext]_throttleVars

\* Time passes, a runnable call runs, and a request that was sent is answered or
\* breaks.  The last is up to the server: the client sets no timeout.
FairThrottleSpec ==
    /\ ThrottleSpec
    /\ WF_throttleVars(Tick)
    /\ \A t \in Request : WF_throttleVars(CallStep(t))

----------------------------------------------------------------------------

ThrottleTypeOK ==
    /\ next \in Nat
    /\ wait \in [Request -> Int]
    /\ attempt \in [Request -> 0 .. MaxRetries]
    /\ status \in [Request -> Status \cup {0}]
    /\ quiet \in 0 .. MinInterval
    /\ phase \in [Request -> {"slot", "wait", "sent", "backoff"} \cup Ended]

\* Whatever requests come, retry, wake up late and are dropped, two sends of a process are at
\* least the interval less the lateness apart, first attempts and retries alike.
SendsSpaced ==
    [][\A t \in Request : Send(t) => quiet >= MinInterval - MaxLate]_throttleVars

\* Nobody waits longer than for the slots booked ahead of it, which leave no gap;
\* those of dropped calls are among them.
NoNeedlessWait == next <= MinInterval * (1 + Cardinality(Booking))

\* A call fails on a transient status only after the last attempt, and panics only
\* in unwrap_err (overpass.rs:174, geocoding.rs:36), on a status that is neither a
\* success nor an error: the code after the loop is never reached with none of
\* the two to return (overpass.rs:183, geocoding.rs:50).
RetriesUsedUp ==
    \A t \in Request :
        /\ phase[t] = "failed" /\ Retryable(status[t]) => attempt[t] = MaxRetries
        /\ phase[t] = "panic" => ~Success(status[t]) /\ ~ErrorStatus(status[t])

\* Every call ends: retries run out and booked slots are reached.
CallsEnd == \A t \in Request : phase[t] \notin Ended ~> phase[t] \in Ended

=============================================================================
