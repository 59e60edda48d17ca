----------------------------- MODULE OptionChain ----------------------------
(***************************************************************************)
(* The option chain endpoint of LiveFeedService: the handlers of           *)
(* api/routes/option_chain.py around OptionChainClient._rate_limited_post. *)
(*                                                                         *)
(* A handler makes one call (an expiry list, or a chain for a given        *)
(* expiry) or two (the list, then the chain of its first expiry).  Time is *)
(* counted in units of the pause, and only up to Interval of them.         *)
(***************************************************************************)
EXTENDS Integers, Sequences

CONSTANTS
  Callers,   \* concurrent HTTP handlers
  Interval   \* _MIN_INTERVAL_S

ASSUME OptionChainAssumption == Interval \in Nat \ {0}

VARIABLES
  pc,           \* pc[c]: where handler c stands
  calls,        \* calls[c]: calls that c still has to make
  lock,         \* asyncio.Lock: its holder, then the waiters in order
  age,          \* time.monotonic() - _last_call_at
  sleepLeft,    \* what is left of the holder's asyncio.sleep
  sinceAnswer   \* time since a request was last answered (history variable)

times == <<age, sleepLeft, sinceAnswer>>
vars  == <<pc, calls, lock, times>>

Places == {"idle", "waiting", "sleeping", "headers", "posting"}

TypeOK ==
  /\ pc \in [Callers -> Places]
  /\ calls \in [Callers -> 0 .. 2]
  /\ lock \in Seq(Callers)
  /\ age \in 0 .. Interval /\ sleepLeft \in 0 .. Interval
  /\ sinceAnswer \in 0 .. Interval

Holds(c) == lock # <<>> /\ Head(lock) = c

GoTo(c, place) == pc' = [pc EXCEPT ![c] = place]

Init ==
  /\ pc = [c \in Callers |-> "idle"]
  /\ calls = [c \in Callers |-> 0]
  /\ lock = <<>>
  /\ age = Interval /\ sleepLeft = 0
  /\ sinceAnswer = Interval

Older(t) == IF t < Interval THEN t + 1 ELSE t

Tick ==
  /\ age' = Older(age)
  /\ sinceAnswer' = Older(sinceAnswer)
  /\ sleepLeft' = IF sleepLeft > 0 THEN sleepLeft - 1 ELSE 0
  /\ UNCHANGED <<pc, calls, lock>>

\* A request arrives whose symbol has a Dhan id; the handler makes n calls.
Arrive(c, n) ==
  /\ pc[c] = "idle"
  /\ GoTo(c, "waiting")
  /\ calls' = [calls EXCEPT ![c] = n]
  /\ lock' = Append(lock, c)
  /\ UNCHANGED times

\* What is missing of the pause.
Pause == Interval - age

\* The lock is taken: sleep for the rest of the pause.
Acquire(c) ==
  /\ pc[c] = "waiting" /\ Holds(c)
  /\ IF age < Interval
       THEN GoTo(c, "sleeping") /\ sleepLeft' = Pause
       ELSE GoTo(c, "headers") /\ UNCHANGED sleepLeft
  /\ UNCHANGED <<calls, lock, age, sinceAnswer>>

Wake(c) ==
  /\ pc[c] = "sleeping" /\ sleepLeft = 0
  /\ GoTo(c, "headers")
  /\ UNCHANGED <<calls, lock, times>>

\* The token is read and the request leaves.
Post(c) ==
  /\ pc[c] = "headers"
  /\ GoTo(c, "posting")
  /\ UNCHANGED <<calls, lock, times>>

\* Mutant: an exception leaves the lock held.
NoRelease(c, more) == IF more THEN lock' = Append(Tail(lock), c) ELSE UNCHANGED lock

\* Leaving "async with": the lock goes to the first waiter; a handler with
\* another call to make queues up again.
Release(c, more) == lock' = IF more THEN Append(Tail(lock), c) ELSE Tail(lock)

\* The handler is done: it returns a result, or 404, or 502.
Return(c) ==
  /\ GoTo(c, "idle")
  /\ calls' = [calls EXCEPT ![c] = 0]
  /\ Release(c, FALSE)

\* Mutant: the time of the call is stamped only on a usable answer.
StampUsable(usable) == age' = IF usable THEN 0 ELSE age

\* _last_call_at = time.monotonic(), before the status code is looked at.
Stamp(usable) == age' = 0

\* An answer of the server.  One that is not usable (429, an error status, an
\* empty list) ends the handler.
Answer(c, usable) ==
  /\ pc[c] = "posting"
  /\ Stamp(usable)
  /\ sinceAnswer' = 0
  /\ IF usable /\ calls[c] = 2
       THEN /\ GoTo(c, "waiting")
            /\ calls' = [calls EXCEPT ![c] = 1]
            /\ Release(c, TRUE)
       ELSE Return(c)
  /\ UNCHANGED sleepLeft

\* No answer: the token store or the request raises (a timeout, a connection
\* that fails or is cut), and 502 is returned.
Raise(c) ==
  /\ pc[c] \in {"headers", "posting"}
  /\ Return(c)
  /\ UNCHANGED times

Step(c) ==
  \/ Acquire(c)
  \/ Wake(c)
  \/ Post(c)
  \/ \E usable \in BOOLEAN : Answer(c, usable)
  \/ Raise(c)

Next ==
  \/ Tick
  \/ \E c \in Callers : Step(c) \/ \E n \in {1, 2} : Arrive(c, n)

\* Time passes, and the event loop runs every task that can run; the client's
\* timeout ends every request.
Fairness == WF_vars(Tick) /\ \A c \in Callers : WF_vars(Step(c))

Spec == Init /\ [][Next]_vars /\ Fairness

-----------------------------------------------------------------------------
(* Properties.                                                             *)

\* The client implements the rate limit: whoever calls, in any interleaving of
\* waiting, sleeping and failing handlers, one request is out at a time and an
\* answered request is followed by a full pause.
Limit == INSTANCE RateLimit WITH
           inFlight <- \E c \in Callers : pc[c] = "posting",
           quiet    <- sinceAnswer

ImplementsRateLimit == Limit!Spec

\* No handler hangs: the lock comes round to everyone who waits, failing calls
\* and handlers with two calls included.
EveryHandlerReturns == \A c \in Callers : pc[c] = "waiting" ~> pc[c] = "idle"
=============================================================================
