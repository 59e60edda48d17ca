--------------------------- MODULE FeedConnections --------------------------
(***************************************************************************)
(* The Dhan WebSocket connections of LiveFeedService: SubscriptionManager  *)
(* start(), reconnect_all() and stop(), the feed loop of                   *)
(* DhanWebSocketClient, and POST /token, which stores a token and          *)
(* reconnects.                                                             *)
(*                                                                         *)
(* One asyncio loop runs the managers (start() and the POST /token         *)
(* handlers) and one task per created connection; nothing locks _tasks.    *)
(* An await ends an action.  Task ids are reused once nothing refers to    *)
(* the task; back-off delays and the ticks themselves are left out.        *)
(***************************************************************************)
EXTENDS Naturals

CONSTANTS
  NumClients,   \* DhanWebSocketClients, started in order
  Updates,      \* concurrent POST /token handlers
  MaxTasks,     \* bound: WebSocket tasks at a time
  MaxToken,     \* bound: the last token that is posted
  Serialized    \* TRUE: start(), stop() and the POST /token do not overlap

ASSUME FeedAssumption ==
  /\ NumClients \in Nat \ {0} /\ MaxToken \in Nat
  /\ MaxTasks \in Nat /\ Serialized \in BOOLEAN
  /\ Updates \cap {"start", "stop"} = {}

Clients  == 0 .. NumClients - 1
Tasks    == 1 .. MaxTasks
Managers == Updates \cup {"start", "stop"}

VARIABLES
  token,      \* the token in Redis, numbered in the order of the posts
  firstValid, \* the server refuses the tokens before this one: they expired
  pc,         \* pc[m]: where a manager stands
  idx,        \* idx[m]: the client whose turn it is in the manager's loop
  old,        \* old[m]: the tasks reconnect_all cancelled and gathers
  wanted,     \* wanted[m]: the token a POST /token handler stored
  state,      \* state[t]: where WebSocket task t stands, "free" when unused
  owner,      \* owner[t]: its client
  tok,        \* tok[t]: the token its connection was opened with
  cancelled,  \* tasks with a cancel() not yet delivered
  listed,     \* the WebSocket tasks in SubscriptionManager._tasks
  connected,  \* connected[c]: the event client.connected is set
  running,    \* running[c]: client._running
  stoppedAt   \* the token when stop() was called (history variable)

managerVars == <<pc, idx, old, wanted>>
taskVars    == <<state, owner, tok, cancelled>>
vars == <<token, firstValid, stoppedAt, managerVars, taskVars, listed, connected, running>>

\* "init": before _initialise made the manager; "spawn": in the loop, about to
\* create the next task; "waiting": in connected.wait(); "woken": the event was
\* set meanwhile; "done": start() or stop() has returned.
Places == {"init", "idle", "stored", "gather", "spawn", "waiting", "woken", "done"}
States == {"free", "new", "token", "dial", "up", "backoff"}

TypeOK ==
  /\ token \in 0 .. MaxToken
  /\ firstValid \in 0 .. MaxToken + 1
  /\ pc \in [Managers -> Places]
  /\ idx \in [Managers -> 0 .. NumClients]
  /\ old \in [Managers -> SUBSET Tasks]
  /\ wanted \in [Managers -> 0 .. MaxToken]
  /\ state \in [Tasks -> States]
  /\ owner \in [Tasks -> Clients]
  /\ tok \in [Tasks -> 0 .. MaxToken]
  /\ cancelled \in SUBSET Tasks
  /\ listed \in SUBSET Tasks
  /\ connected \in [Clients -> BOOLEAN]
  /\ running \in [Clients -> BOOLEAN]
  /\ stoppedAt \in 0 .. MaxToken

Live(t) == state[t] # "free"

Init ==
  /\ token = 0 /\ firstValid = 0
  /\ pc = [m \in Managers |-> IF m = "start" THEN "init" ELSE "idle"]
  /\ idx = [m \in Managers |-> 0]
  /\ old = [m \in Managers |-> {}]
  /\ wanted = [m \in Managers |-> 0]
  /\ state = [t \in Tasks |-> "free"]
  /\ owner = [t \in Tasks |-> 0]
  /\ tok = [t \in Tasks |-> 0]
  /\ cancelled = {} /\ listed = {}
  /\ connected = [c \in Clients |-> FALSE]
  /\ running = [c \in Clients |-> FALSE]
  /\ stoppedAt = 0

\* No coroutine is in the middle of a step: the next one may run.
LoopFree == \A m \in Managers : pc[m] # "spawn"

GoTo(m, place) == pc' = [pc EXCEPT ![m] = place]

-----------------------------------------------------------------------------
(* start() and reconnect_all().                                            *)

\* _initialise built the manager and calls start().
Launch ==
  /\ LoopFree
  /\ pc["start"] = "init"
  /\ GoTo("start", "spawn")
  /\ UNCHANGED <<token, firstValid, stoppedAt, idx, old, wanted, taskVars, listed, connected, running>>

Return(m) ==
  /\ GoTo(m, IF m \in Updates THEN "idle" ELSE "done")
  /\ idx' = [idx EXCEPT ![m] = 0]
  /\ wanted' = [wanted EXCEPT ![m] = 0]

Unused(t) == ~Live(t) /\ t \notin listed /\ \A n \in Managers : t \notin old[n]

ClientLeft(m) == idx[m] < NumClients

\* The body of the loop: a task for client idx, then connected.wait(), which
\* does not suspend when the event is already set.
Spawn(m, t) ==
  /\ pc[m] = "spawn" /\ ClientLeft(m)
  /\ Unused(t) /\ \A u \in Tasks : Unused(u) => t <= u
  /\ state' = [state EXCEPT ![t] = "new"]
  /\ owner' = [owner EXCEPT ![t] = idx[m]]
  /\ tok' = [tok EXCEPT ![t] = 0]
  /\ listed' = listed \cup {t}
  /\ IF idx[m] \in {c \in Clients : connected[c]}
       THEN idx' = [idx EXCEPT ![m] = @ + 1] /\ UNCHANGED pc
       ELSE GoTo(m, "waiting") /\ UNCHANGED idx
  /\ UNCHANGED <<token, firstValid, stoppedAt, old, wanted, cancelled, connected, running>>

LoopEnds(m) ==
  /\ pc[m] = "spawn" /\ ~ClientLeft(m)
  /\ Return(m)
  /\ UNCHANGED <<token, firstValid, stoppedAt, old, taskVars, listed, connected, running>>

\* connected.wait() returns to a waiter that was woken, whatever the event is
\* by now.
Resume(m) ==
  /\ LoopFree
  /\ pc[m] = "woken"
  /\ GoTo(m, "spawn")
  /\ idx' = [idx EXCEPT ![m] = @ + 1]
  /\ UNCHANGED <<token, firstValid, stoppedAt, old, wanted, taskVars, listed, connected, running>>

NoUpdate == \A v \in Updates : pc[v] = "idle"

\* POST /token: the token is written to Redis, also when stop() has returned
\* (the HTTP server outlives a feed whose _main_loop has failed) ...
StoreToken(u) ==
  /\ LoopFree
  /\ pc[u] = "idle" /\ token < MaxToken
  /\ Serialized => pc["start"] = "done" /\ pc["stop"] # "gather" /\ NoUpdate
  /\ token' = token + 1
  /\ wanted' = [wanted EXCEPT ![u] = token + 1]
  /\ GoTo(u, "stored")
  /\ UNCHANGED <<firstValid, stoppedAt, idx, old, taskVars, listed, connected, running>>

CancelListed(m) ==
  /\ old' = [old EXCEPT ![m] = listed]
  /\ cancelled' = cancelled \cup {t \in listed : Live(t)}
  /\ GoTo(m, "gather")
  /\ UNCHANGED <<idx, wanted>>

\* ... and reconnect_all, if there is a manager, cancels the tasks it knows.
CancelAll(u) ==
  /\ LoopFree
  /\ pc[u] = "stored"
  /\ IF pc["start"] = "init"
       THEN Return(u) /\ UNCHANGED <<old, cancelled>>
       ELSE CancelListed(u)
  /\ UNCHANGED <<token, firstValid, stoppedAt, state, owner, tok, listed, connected, running>>

\* Mutant: the cancelled tasks are not awaited.
GatheredAtOnce(u) == TRUE

\* asyncio.gather has all results.
Gathered(u) == \A t \in old[u] : ~Live(t)

\* Every "dhan-ws-" task is taken off the list and the loop begins.
Restart(u) ==
  /\ LoopFree
  /\ pc[u] = "gather" /\ Gathered(u)
  /\ listed' = {}
  /\ old' = [old EXCEPT ![u] = {}]
  /\ GoTo(u, "spawn")
  /\ UNCHANGED <<token, firstValid, stoppedAt, idx, wanted, taskVars, connected, running>>

\* _main_loop ended, by shutdown or by an exception: "finally" calls stop().
Stop ==
  /\ LoopFree
  /\ pc["stop"] = "idle" /\ pc["start"] = "done"
  /\ Serialized => NoUpdate
  /\ CancelListed("stop")
  /\ stoppedAt' = token
  /\ UNCHANGED <<token, firstValid, state, owner, tok, listed, connected, running>>

FinishStop ==
  /\ LoopFree
  /\ pc["stop"] = "gather" /\ Gathered("stop")
  /\ listed' = {}
  /\ old' = [old EXCEPT !["stop"] = {}]
  /\ GoTo("stop", "done")
  /\ UNCHANGED <<token, firstValid, stoppedAt, idx, wanted, taskVars, connected, running>>

-----------------------------------------------------------------------------
(* A WebSocket task: DhanWebSocketClient.run and run_feed_loop.            *)

Move(t, place) == state' = [state EXCEPT ![t] = place]

\* Free to run: the loop is, and no cancellation is pending for the task.
Runs(t) == LoopFree /\ t \notin cancelled

\* The task returns or is cancelled; "finally" resets client._running.
Ends(t) ==
  /\ Move(t, "free")
  /\ owner' = [owner EXCEPT ![t] = 0]
  /\ tok' = [tok EXCEPT ![t] = 0]

Begin(t) ==
  /\ Runs(t) /\ state[t] = "new"
  /\ running' = [running EXCEPT ![owner[t]] = TRUE]
  /\ Move(t, "token")
  /\ UNCHANGED <<token, firstValid, stoppedAt, managerVars, owner, tok, cancelled, listed, connected>>

ReadToken(t) ==
  /\ Runs(t) /\ state[t] = "token"
  /\ tok' = [tok EXCEPT ![t] = token]
  /\ Move(t, "dial")
  /\ UNCHANGED <<token, firstValid, stoppedAt, managerVars, owner, cancelled, listed, connected, running>>

\* Mutant: the event is not set, nobody is woken.
WakeNobody(c) == UNCHANGED <<connected, pc>>

\* connected.set() wakes everyone who waits for this client.
Wake(c) ==
  /\ connected' = [connected EXCEPT ![c] = TRUE]
  /\ pc' = [m \in Managers |->
              IF pc[m] = "waiting" /\ idx[m] = c THEN "woken" ELSE pc[m]]

Connect(t) ==
  /\ Runs(t) /\ state[t] = "dial"
  /\ tok[t] >= firstValid
  /\ Move(t, "up")
  /\ Wake(owner[t])
  /\ UNCHANGED <<token, firstValid, stoppedAt, idx, old, wanted, owner, tok, cancelled, listed, running>>

\* Mutant: a failing connection leaves the event set.
EventKept(t) == UNCHANGED connected

\* connected.clear()
ClearEvent(t) == connected' = [connected EXCEPT ![owner[t]] = FALSE]

\* Any exception of the token store, the handshake or the feed.
Fail(t) ==
  /\ Runs(t) /\ state[t] \in {"token", "dial", "up"}
  /\ ClearEvent(t)
  /\ Move(t, "backoff")
  /\ UNCHANGED <<token, firstValid, stoppedAt, managerVars, owner, tok, cancelled, listed, running>>

\* A token lives for a day: the one in Redis expires.
Expire ==
  /\ LoopFree
  /\ firstValid <= token
  /\ firstValid' = token + 1
  /\ UNCHANGED <<token, stoppedAt, managerVars, taskVars, listed, connected, running>>

\* The server refuses a token that has expired.
Refused(t) == state[t] = "dial" /\ tok[t] < firstValid /\ Fail(t)

\* The delay is over; is_running() decides on another round.
Retry(t) ==
  /\ Runs(t) /\ state[t] = "backoff" /\ running[owner[t]]
  /\ Move(t, "token")
  /\ UNCHANGED <<token, firstValid, stoppedAt, managerVars, owner, tok, cancelled, listed, connected, running>>

\* The loop ends without an error: after a tick or a delay, is_running() is
\* false.
Quit(t) ==
  /\ Runs(t) /\ state[t] \in {"up", "backoff"} /\ ~running[owner[t]]
  /\ Ends(t)
  /\ UNCHANGED <<token, firstValid, stoppedAt, managerVars, cancelled, listed, connected, running>>

\* CancelledError at the task's await.  A task that never ran touches nothing.
Cancel(t) ==
  /\ LoopFree
  /\ t \in cancelled
  /\ cancelled' = cancelled \ {t}
  /\ IF state[t] \in {"token", "dial", "up"} THEN ClearEvent(t) ELSE UNCHANGED connected
  /\ running' = IF state[t] = "new" THEN running ELSE [running EXCEPT ![owner[t]] = FALSE]
  /\ Ends(t)
  /\ UNCHANGED <<token, firstValid, stoppedAt, managerVars, listed>>

-----------------------------------------------------------------------------

ManagerStep(m) ==
  \/ \E t \in Tasks : Spawn(m, t)
  \/ LoopEnds(m)
  \/ Resume(m)

UpdateStep(u) == CancelAll(u) \/ Restart(u)

TaskStep(t) == Begin(t) \/ ReadToken(t) \/ Refused(t) \/ Retry(t) \/ Quit(t) \/ Cancel(t)

Next ==
  \/ Launch \/ Stop \/ FinishStop \/ Expire
  \/ \E m \in Managers : ManagerStep(m)
  \/ \E u \in Updates : StoreToken(u) \/ UpdateStep(u)
  \/ \E t \in Tasks : TaskStep(t) \/ Connect(t) \/ Fail(t)

\* The loop runs every coroutine that can run; reading the token, and a
\* connection attempt with a valid one, succeed if repeated often enough.
Fairness ==
  /\ WF_vars(Launch) /\ WF_vars(FinishStop)
  /\ \A m \in Managers : WF_vars(ManagerStep(m))
  /\ \A u \in Updates : WF_vars(UpdateStep(u))
  /\ \A t \in Tasks : WF_vars(TaskStep(t)) /\ SF_vars(ReadToken(t)) /\ SF_vars(Connect(t))

Spec == Init /\ [][Next]_vars /\ Fairness

-----------------------------------------------------------------------------
(* Properties.                                                             *)

\* DhanWebSocketClient: "a single WebSocket connection".  A second task would
\* deliver every tick of the client's instruments twice.
OneConnectionPerClient ==
  \A t, u \in Tasks : state[t] = "up" /\ state[u] = "up" /\ owner[t] = owner[u] => t = u

\* start() and reconnect_all() go on to the next client when the event is set:
\* it tells the truth, and a connected client is one the manager can cancel.
EventMeansUp ==
  \A c \in Clients :
    connected[c] <=> \E t \in listed : owner[t] = c /\ state[t] = "up"

\* reconnect_all "picks up new token": when POST /token returns no connection
\* is open that an older token opened.
NoStaleConnection ==
  [][\A u \in Updates : pc[u] # "idle" /\ pc'[u] = "idle" =>
       \A t \in Tasks : state[t] = "up" => tok[t] >= wanted[u]]_vars

\* A feed loop ends only when it is cancelled: client._running is shared by the
\* tasks of a client, and no leftover "finally" may switch a new one off.
NoSilentEnd ==
  [][\A t \in Tasks : Live(t) /\ state'[t] = "free" => t \in cancelled]_vars

\* stop(): "all connections stopped".  What runs after it has returned was
\* started by a later POST /token, and its connections by that token: stop()
\* left none behind that nobody would cancel.
StoppedMeansClosed ==
  pc["stop"] = "done" =>
    \A t \in Tasks :
      /\ Live(t) => token > stoppedAt
      /\ state[t] = "up" => tok[t] > stoppedAt

\* The feed was stopped and no POST /token has come since.
Stopped == pc["stop"] # "idle" /\ token = stoppedAt

\* While the token in Redis is valid every client gets connected again and
\* again, whatever fails, and a reconnect waits for no client for ever.
EveryClientConnects ==
  \A c \in Clients :
    pc["start"] # "init"
      ~> \/ \E t \in Tasks : owner[t] = c /\ state[t] = "up"
         \/ token < firstValid \/ Stopped

\* POST /token is answered, whatever else reconnects or fails meanwhile, unless
\* stop() is called while it runs.
EveryPostReturns ==
  \A u \in Updates :
    pc[u] = "stored" ~> \/ pc[u] = "idle"
                        \/ token < firstValid \/ pc["stop"] = "gather"
=============================================================================
