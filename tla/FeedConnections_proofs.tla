----------------------- MODULE FeedConnections_proofs -----------------------
(***************************************************************************)
(* What the WebSocket connections guarantee for every number of clients,   *)
(* POST /token handlers, tasks and tokens.                                 *)
(***************************************************************************)
EXTENDS FeedConnections, TLAPS

-----------------------------------------------------------------------------
(* Type correctness: whoever waits in the loop waits for a client.         *)

WaitsForClient == \A m \in Managers : pc[m] \in {"waiting", "woken"} => ClientLeft(m)

TypeInv == TypeOK /\ WaitsForClient

LEMMA TypeInit == Init => TypeInv
BY FeedAssumption DEF Init, TypeInv, TypeOK, WaitsForClient, Managers, Places, States, Clients

LEMMA TypeNext == ASSUME TypeInv, [Next]_vars PROVE TypeInv'
<1> USE FeedAssumption DEF TypeInv, TypeOK, WaitsForClient, Places, States, GoTo, ClientLeft
<1>1. CASE Launch
  BY <1>1 DEF Launch, taskVars
<1>2. CASE Stop
  BY <1>2 DEF Stop, CancelListed, Managers
<1>3. CASE FinishStop
  BY <1>3 DEF FinishStop, taskVars, Managers
<1>4. CASE Expire
  BY <1>4 DEF Expire, managerVars, taskVars
<1>5. ASSUME NEW m \in Managers, NEW t \in Tasks, Spawn(m, t) PROVE TypeInv'
  <2>1. idx[m] \in Clients /\ idx[m] + 1 \in 0 .. NumClients /\ idx[m] < NumClients
    BY <1>5 DEF Spawn, Clients
  <2>2. /\ state' \in [Tasks -> States] /\ owner' \in [Tasks -> Clients]
        /\ tok' \in [Tasks -> 0 .. MaxToken] /\ listed' \in SUBSET Tasks
    BY <1>5, <2>1 DEF Spawn
  <2>3. /\ pc' \in [Managers -> Places] /\ idx' \in [Managers -> 0 .. NumClients]
        /\ WaitsForClient'
    BY <1>5, <2>1 DEF Spawn
  <2>4. QED BY <1>5, <2>2, <2>3 DEF Spawn
<1>6. ASSUME NEW m \in Managers, LoopEnds(m) PROVE TypeInv'
  BY <1>6 DEF LoopEnds, Return, taskVars
<1>7. ASSUME NEW m \in Managers, Resume(m) PROVE TypeInv'
  BY <1>7 DEF Resume, taskVars
<1>8. ASSUME NEW u \in Updates, StoreToken(u) PROVE TypeInv'
  BY <1>8 DEF StoreToken, taskVars, Managers
<1>9. ASSUME NEW u \in Updates, CancelAll(u) PROVE TypeInv'
  BY <1>9 DEF CancelAll, Return, CancelListed, Managers
<1>10. ASSUME NEW u \in Updates, Restart(u) PROVE TypeInv'
  BY <1>10 DEF Restart, taskVars, Managers
<1> USE DEF managerVars, Move
<1>11. ASSUME NEW t \in Tasks, Begin(t) PROVE TypeInv'
  BY <1>11 DEF Begin
<1>12. ASSUME NEW t \in Tasks, ReadToken(t) PROVE TypeInv'
  BY <1>12 DEF ReadToken
<1>13. ASSUME NEW t \in Tasks, Connect(t) PROVE TypeInv'
  BY <1>13 DEF Connect, Wake
<1>14. ASSUME NEW t \in Tasks, Fail(t) PROVE TypeInv'
  BY <1>14 DEF Fail, ClearEvent
<1>15. ASSUME NEW t \in Tasks, Retry(t) PROVE TypeInv'
  BY <1>15 DEF Retry
<1>16. ASSUME NEW t \in Tasks, Quit(t) PROVE TypeInv'
  BY <1>16 DEF Quit, Ends, Clients
<1>17. ASSUME NEW t \in Tasks, Cancel(t) PROVE TypeInv'
  <2>1. /\ state' \in [Tasks -> States] /\ owner' \in [Tasks -> Clients]
        /\ tok' \in [Tasks -> 0 .. MaxToken]
    BY <1>17 DEF Cancel, Ends, Clients
  <2>2. connected' \in [Clients -> BOOLEAN] /\ running' \in [Clients -> BOOLEAN]
    BY <1>17 DEF Cancel, ClearEvent
  <2>3. QED BY <1>17, <2>1, <2>2 DEF Cancel
<1>18. CASE UNCHANGED vars
  BY <1>18 DEF vars, taskVars
<1>19. QED
  BY <1>1, <1>2, <1>3, <1>4, <1>5, <1>6, <1>7, <1>8, <1>9, <1>10, <1>11, <1>12, <1>13,
     <1>14, <1>15, <1>16, <1>17, <1>18
  DEF Next, ManagerStep, UpdateStep, TaskStep, Refused

\* Every variable keeps its type, whatever overlaps.
THEOREM TypeCorrect == Spec => []TypeOK
<1>1. TypeInv => TypeOK
  BY DEF TypeInv
<1>2. QED
  BY <1>1, TypeInit, TypeNext, PTL DEF Spec

-----------------------------------------------------------------------------
(* One manager at a time.  The invariant says which manager may be at work *)
(* and what it knows: a live task is always on the list, so a reconnect    *)
(* that has gathered the list has ended every task, and the tasks that its *)
(* loop creates then belong to the clients it has come to.                 *)

InLoop(m) == pc[m] \in {"spawn", "waiting", "woken"}
Busy(m)   == InLoop(m) \/ pc[m] \in {"stored", "gather"}
AllIdle   == NoUpdate /\ pc["stop"] = "idle"

ManagerInv ==
  /\ \A m, n \in Managers : Busy(m) /\ Busy(n) => m = n
  /\ pc["start"] \in {"init", "done"} \/ InLoop("start")
  /\ pc["stop"] \in {"idle", "gather", "done"}
  /\ \A u \in Updates : pc[u] = "idle" \/ Busy(u)
  /\ pc["start"] # "done" => AllIdle
  /\ \A m \in Managers : pc[m] = "gather" => old[m] = listed

Used(t) == state[t] \in {"token", "dial", "up", "backoff"}

TaskInv ==
  /\ \A t \in Tasks : Live(t) => t \in listed
  /\ \A t \in cancelled : Live(t)
  /\ \A t, u \in Tasks : Live(t) /\ Live(u) /\ owner[t] = owner[u] => t = u
  /\ \A t \in Tasks : Used(t) => running[owner[t]]
  /\ pc["start"] = "init" => \A t \in Tasks : ~Live(t)

\* Once stop() has returned, whatever is at work or runs came with a later token.
StopInv ==
  /\ stoppedAt <= token
  /\ pc["stop"] = "done" =>
       /\ \A u \in Updates : Busy(u) => token > stoppedAt
       /\ \A t \in Tasks : Live(t) => token > stoppedAt
       /\ \A t \in Tasks : state[t] \in {"dial", "up"} => tok[t] > stoppedAt

LoopInv ==
  \A m \in Managers : InLoop(m) =>
    \A t \in Tasks : Live(t) =>
      owner[t] < idx[m] \/ (pc[m] # "spawn" /\ owner[t] = idx[m])

TokenInv ==
  \A u \in Updates : Busy(u) =>
    /\ wanted[u] = token
    /\ InLoop(u) => \A t \in Tasks : state[t] \in {"dial", "up"} => tok[t] = token

IInv == TypeInv /\ ManagerInv /\ TaskInv /\ StopInv /\ LoopInv /\ TokenInv /\ EventMeansUp

LEMMA IInvInit == Init => IInv
BY TypeInit, FeedAssumption
DEF Init, IInv, ManagerInv, TaskInv, StopInv, LoopInv, TokenInv, EventMeansUp, Busy, InLoop, AllIdle, NoUpdate,
    Managers, Live, Used, Clients

\* What a step of a connected client's task, or of one that is about to be, may
\* do: it ends only when it was cancelled, and client._running and the event
\* change for its own client only.
TaskChange(t) ==
  /\ UNCHANGED <<token, stoppedAt, idx, old, wanted, listed>>
  /\ \A m \in Managers : pc'[m] = pc[m] \/ (pc[m] = "waiting" /\ pc'[m] = "woken")
  /\ \A u \in Tasks \ {t} : state'[u] = state[u] /\ owner'[u] = owner[u] /\ tok'[u] = tok[u]
  /\ Live(t)
  /\ \/ ~Live(t)' /\ t \in cancelled /\ cancelled' = cancelled \ {t}
     \/ /\ Live(t)' /\ owner'[t] = owner[t] /\ cancelled' = cancelled
        /\ Used(t)' => running'[owner[t]]
  /\ state'[t] \in {"dial", "up"} =>
       tok'[t] = token \/ (tok'[t] = tok[t] /\ state[t] \in {"dial", "up"})
  /\ \A c \in Clients \ {owner[t]} : running'[c] = running[c] /\ connected'[c] = connected[c]
  /\ connected'[owner[t]] <=> state'[t] = "up"

LEMMA TaskStepChanges ==
  ASSUME IInv, NEW t \in Tasks, TaskStep(t) \/ Connect(t) \/ Fail(t)
  PROVE  TaskChange(t)
<1> USE DEF Live, Used, Move, managerVars
<1>t. /\ pc \in [Managers -> Places] /\ state \in [Tasks -> States]
      /\ owner \in [Tasks -> Clients] /\ tok \in [Tasks -> 0 .. MaxToken]
      /\ cancelled \in SUBSET Tasks /\ connected \in [Clients -> BOOLEAN]
      /\ running \in [Clients -> BOOLEAN]
  BY DEF IInv, TypeInv, TypeOK
<1>u. Live(t) => (connected[owner[t]] <=> state[t] = "up")
  <2>1. ASSUME NEW u \in listed, owner[u] = owner[t], state[u] = "up", Live(t) PROVE u = t
    BY <2>1 DEF IInv, TaskInv, TypeInv, TypeOK
  <2>2. QED BY <1>t, <2>1 DEF IInv, EventMeansUp, TaskInv
<1>r. Used(t) => running[owner[t]]
  BY DEF IInv, TaskInv
<1>1. CASE Begin(t)
  BY <1>1, <1>t, <1>u DEF Begin, TaskChange
<1>2. CASE ReadToken(t)
  BY <1>2, <1>t, <1>u, <1>r DEF ReadToken, TaskChange
<1>3. CASE Connect(t)
  BY <1>3, <1>t, <1>r DEF Connect, Wake, TaskChange
<1>4. CASE Fail(t)
  BY <1>4, <1>t, <1>r DEF Fail, ClearEvent, TaskChange
<1>5. CASE Retry(t)
  BY <1>5, <1>t, <1>u, <1>r DEF Retry, TaskChange
<1>6. CASE Quit(t)
  BY <1>6, <1>r DEF Quit
<1>7. CASE Cancel(t)
  <2>1. Live(t)
    BY <1>7 DEF Cancel, IInv, TaskInv
  <2>2. /\ UNCHANGED <<token, stoppedAt, idx, old, wanted, listed, pc>>
        /\ \A u \in Tasks \ {t} : state'[u] = state[u] /\ owner'[u] = owner[u] /\ tok'[u] = tok[u]
        /\ state'[t] = "free" /\ t \in cancelled /\ cancelled' = cancelled \ {t}
    BY <1>7, <1>t DEF Cancel, Ends
  <2>3. /\ \A c \in Clients \ {owner[t]} : running'[c] = running[c] /\ connected'[c] = connected[c]
        /\ connected'[owner[t]] = FALSE
    BY <1>7, <1>t, <1>u, <2>1 DEF Cancel, ClearEvent, States
  <2>4. QED BY <2>1, <2>2, <2>3 DEF TaskChange
<1>8. QED
  BY <1>1, <1>2, <1>3, <1>4, <1>5, <1>6, <1>7 DEF TaskStep, Refused

LEMMA TaskStepKeeps ==
  ASSUME IInv, TypeInv', NEW t \in Tasks, TaskChange(t) PROVE IInv'
<1>t. /\ TypeInv /\ pc \in [Managers -> Places] /\ state \in [Tasks -> States]
      /\ owner \in [Tasks -> Clients] /\ listed \in SUBSET Tasks
      /\ idx \in [Managers -> 0 .. NumClients]
  BY DEF IInv, TypeInv, TypeOK
<1>1. /\ {"start", "stop"} \subseteq Managers /\ Updates \subseteq Managers
      /\ \A m \in Managers : InLoop(m)' <=> InLoop(m)
      /\ \A m \in Managers : Busy(m)' <=> Busy(m)
      /\ \A m \in Managers, p \in {"init", "idle", "stored", "gather", "spawn", "done"} :
           pc'[m] = p <=> pc[m] = p
      /\ UNCHANGED <<token, stoppedAt, idx, old, wanted, listed>>
  BY DEF TaskChange, InLoop, Busy, Managers
<1>2. \A u \in Tasks : Live(u)' => Live(u) /\ owner'[u] = owner[u]
  BY DEF TaskChange, Live
<1>3. ManagerInv'
  BY <1>1 DEF IInv, ManagerInv, AllIdle, NoUpdate, Managers
<1>4. TaskInv'
  <2>1. \A u \in Tasks : Used(u)' => running'[owner'[u]]
    <3> SUFFICES ASSUME NEW u \in Tasks, u # t, Used(u)' PROVE running'[owner'[u]]
      BY DEF TaskChange, Used, Live
    <3>1. Used(u) /\ Live(u) /\ Live(t) /\ owner'[u] = owner[u]
      BY DEF TaskChange, Used, Live
    <3>2. running[owner[u]] /\ owner[u] # owner[t]
      BY <3>1 DEF IInv, TaskInv
    <3>3. QED BY <1>t, <3>1, <3>2 DEF TaskChange
  <2>2. \A u \in cancelled' : Live(u)'
    BY DEF IInv, TaskInv, TaskChange, Live, TypeInv, TypeOK
  <2>3. QED BY <1>1, <1>2, <2>1, <2>2 DEF IInv, TaskInv
<1>5. LoopInv'
  BY <1>1, <1>2 DEF IInv, LoopInv
<1>6. TokenInv'
  BY <1>1 DEF IInv, TokenInv, TaskChange
<1>7. EventMeansUp'
  <2> SUFFICES ASSUME NEW c \in Clients
               PROVE  connected'[c] <=> \E u \in listed : owner'[u] = c /\ state'[u] = "up"
    BY <1>1 DEF EventMeansUp
  <2>1. CASE c = owner[t]
    <3>1. ASSUME NEW u \in listed, owner'[u] = c, state'[u] = "up" PROVE u = t
      <4>1. Live(u) /\ Live(t) /\ owner[u] = owner[t]
        BY <1>2, <1>t, <2>1, <3>1 DEF Live, TaskChange
      <4>2. QED BY <1>t, <4>1 DEF IInv, TaskInv
    <3>2. state'[t] = "up" => owner'[t] = c /\ t \in listed
      BY <2>1 DEF TaskChange, Live, IInv, TaskInv
    <3>3. QED BY <2>1, <3>1, <3>2 DEF TaskChange
  <2>2. CASE c # owner[t]
    <3>1. connected'[c] = connected[c]
      BY <2>2 DEF TaskChange
    <3>2. \A u \in listed : owner'[u] = c /\ state'[u] = "up" <=> owner[u] = c /\ state[u] = "up"
      <4>1. owner'[t] = c => state'[t] # "up"
        BY <1>2, <2>2 DEF Live
      <4>2. QED BY <1>t, <2>2, <4>1 DEF TaskChange
    <3>3. QED BY <3>1, <3>2 DEF IInv, EventMeansUp
  <2>3. QED BY <2>1, <2>2
<1>8. StopInv'
  <2>1. /\ token' = token /\ stoppedAt' = stoppedAt /\ token \in Nat /\ stoppedAt \in Nat
        /\ \A u \in Tasks : tok[u] \in Nat
    BY DEF TaskChange, IInv, TypeInv, TypeOK
  <2>2. \A u \in Tasks : state'[u] \in {"dial", "up"} =>
          Live(u) /\ (tok'[u] = token \/ (tok'[u] = tok[u] /\ state[u] \in {"dial", "up"}))
    BY <1>2 DEF TaskChange, Live
  <2>3. pc'["stop"] = "done" <=> pc["stop"] = "done"
    BY <1>1
  <2>4. stoppedAt <= token
    BY DEF IInv, StopInv
  <2>5. ASSUME pc["stop"] = "done", NEW u \in Updates, Busy(u)'
        PROVE  token > stoppedAt
    BY <1>1, <2>5 DEF IInv, StopInv
  <2>6. ASSUME pc["stop"] = "done", NEW u \in Tasks, Live(u)'
        PROVE  token > stoppedAt
    BY <1>2, <2>6 DEF IInv, StopInv
  <2>7. ASSUME pc["stop"] = "done", NEW u \in Tasks, state'[u] \in {"dial", "up"}
        PROVE  tok'[u] > stoppedAt
    BY <2>1, <2>2, <2>7 DEF IInv, StopInv
  <2> QED
    BY <2>1, <2>3, <2>4, <2>5, <2>6, <2>7 DEF StopInv
<1>9. QED
  BY <1>3, <1>4, <1>5, <1>6, <1>7, <1>8 DEF IInv

\* A step of a manager that leaves the tasks alone and sends no one into a loop.
LEMMA ManagerStepKeeps ==
  ASSUME IInv, TypeInv', ManagerInv', NEW n \in Managers,
         UNCHANGED <<state, owner, tok, connected, running>>,
         \A m \in Managers \ {n} : pc'[m] = pc[m] /\ idx'[m] = idx[m],
         \A t \in Tasks : Live(t) => t \in listed',
         \A t \in cancelled' : Live(t),
         InLoop(n)' => \A t \in Tasks : Live(t) =>
                         owner[t] < idx'[n] \/ (pc'[n] # "spawn" /\ owner[t] = idx'[n]),
         pc'["start"] = "init" => \A t \in Tasks : ~Live(t),
         StopInv', TokenInv'
  PROVE  IInv'
<1>1. TaskInv'
  BY DEF IInv, TaskInv, Live, Used
<1>2. LoopInv'
  BY DEF IInv, LoopInv, InLoop, Live
<1>3. EventMeansUp'
  <2>1. \A c \in Clients : (\E t \in listed' : owner[t] = c /\ state[t] = "up")
                           <=> (\E t \in listed : owner[t] = c /\ state[t] = "up")
    BY DEF IInv, TaskInv, TypeInv, TypeOK, Live
  <2>2. QED BY <2>1 DEF IInv, EventMeansUp
<1>4. QED
  BY <1>1, <1>2, <1>3 DEF IInv

\* A step of a manager that is not the return of stop(), nor a new POST /token.
LEMMA StopStable ==
  ASSUME StopInv, UNCHANGED <<token, stoppedAt, state, tok>>,
         pc'["stop"] = "done" => pc["stop"] = "done",
         \A u \in Updates : Busy(u)' => Busy(u)
  PROVE  StopInv'
BY DEF StopInv, Live

LEMMA SpawnKeeps ==
  ASSUME IInv, TypeInv', NEW m \in Managers, NEW t \in Tasks, Spawn(m, t) PROVE IInv'
<1>t. /\ TypeInv /\ pc \in [Managers -> Places] /\ state \in [Tasks -> States]
      /\ owner \in [Tasks -> Clients] /\ listed \in SUBSET Tasks
      /\ idx \in [Managers -> 0 .. NumClients] /\ tok \in [Tasks -> 0 .. MaxToken]
      /\ {"start", "stop"} \subseteq Managers /\ Updates \subseteq Managers
      /\ NumClients \in Nat
  BY FeedAssumption DEF IInv, TypeInv, TypeOK, Managers
<1>1. /\ InLoop(m) /\ pc[m] = "spawn" /\ idx[m] < NumClients /\ idx[m] \in Clients
      /\ ~Live(t) /\ t \notin listed /\ listed' = listed \cup {t}
      /\ state' = [state EXCEPT ![t] = "new"] /\ owner' = [owner EXCEPT ![t] = idx[m]]
      /\ tok' = [tok EXCEPT ![t] = 0]
      /\ UNCHANGED <<token, stoppedAt, old, wanted, cancelled, connected, running>>
      /\ \/ idx' = [idx EXCEPT ![m] = @ + 1] /\ pc' = pc
         \/ pc' = [pc EXCEPT ![m] = "waiting"] /\ idx' = idx
  BY <1>t DEF Spawn, Unused, GoTo, InLoop, ClientLeft, Clients
<1>2. \A n \in Managers : n # m => pc[n] \notin {"spawn", "waiting", "woken", "gather", "stored"}
  BY <1>1 DEF IInv, ManagerInv, Busy, InLoop
<1>3. \A u \in Tasks : Live(u) => owner[u] < idx[m]
  BY <1>1 DEF IInv, LoopInv
<1>4. \A u \in Tasks : Live(u)' => u = t \/ (u # t /\ Live(u) /\ owner'[u] = owner[u])
  BY <1>t, <1>1 DEF Live
<1>5. ManagerInv'
  <2>1. /\ \A n \in Managers : (InLoop(n)' <=> InLoop(n)) /\ (Busy(n)' <=> Busy(n))
        /\ \A n \in Managers, p \in {"init", "idle", "stored", "gather", "done"} :
             pc'[n] = p <=> pc[n] = p
    BY <1>t, <1>1 DEF InLoop, Busy
  <2>2. \A n \in Managers : pc[n] # "gather"
    BY <1>1, <1>2
  <2>3. QED BY <1>t, <2>1, <2>2 DEF IInv, ManagerInv, AllIdle, NoUpdate
<1>6. TaskInv'
  <2>1. \A u, v \in Tasks : Live(u)' /\ Live(v)' /\ owner'[u] = owner'[v] => u = v
    <3>1. owner'[t] = idx[m] /\ idx[m] \in Nat /\ \A u \in Tasks : owner[u] \in Nat
      BY <1>t, <1>1 DEF Clients
    <3>2. \A u \in Tasks : u # t /\ Live(u)' => owner'[u] # owner'[t]
      BY <1>3, <1>4, <3>1
    <3>3. QED BY <1>4, <3>2 DEF IInv, TaskInv
  <2>2. \A u \in Tasks : Used(u)' => running'[owner'[u]]
    BY <1>t, <1>1 DEF IInv, TaskInv, Used
  <2>3. \A u \in cancelled' : Live(u)'
    BY <1>t, <1>1 DEF IInv, TaskInv, Live, TypeInv, TypeOK
  <2>4. pc'["start"] # "init"
    BY <1>t, <1>1, <1>2 DEF IInv, ManagerInv, InLoop, AllIdle, NoUpdate, Managers
  <2>5. \A u \in Tasks : Live(u)' => u \in listed'
    BY <1>1, <1>4 DEF IInv, TaskInv
  <2>6. QED BY <2>1, <2>2, <2>3, <2>4, <2>5 DEF TaskInv
<1>7. LoopInv'
  <2> SUFFICES ASSUME NEW n \in Managers, InLoop(n)', NEW u \in Tasks, Live(u)'
               PROVE  owner'[u] < idx'[n] \/ (pc'[n] # "spawn" /\ owner'[u] = idx'[n])
    BY DEF LoopInv
  <2>1. n = m
    BY <1>t, <1>1, <1>2 DEF InLoop
  <2>2. owner'[u] < idx[m] \/ owner'[u] = idx[m]
    BY <1>t, <1>1, <1>3, <1>4
  <2>3. idx[m] \in Nat /\ owner'[u] \in Nat
    BY <1>t DEF Clients, TypeInv, TypeOK
  <2>4. QED BY <1>t, <1>1, <2>1, <2>2, <2>3
<1>8. TokenInv'
  <2>1. \A u \in Updates : (InLoop(u)' <=> InLoop(u)) /\ (Busy(u)' <=> Busy(u))
    BY <1>t, <1>1 DEF InLoop, Busy
  <2>2. \A u \in Tasks : state'[u] \in {"dial", "up"} => state[u] = state'[u] /\ tok'[u] = tok[u]
    BY <1>t, <1>1
  <2>3. QED BY <1>1, <2>1, <2>2 DEF IInv, TokenInv
<1>9. EventMeansUp'
  <2>1. \A u \in listed' : state'[u] = "up" <=> u \in listed /\ u # t /\ state[u] = "up"
    BY <1>t, <1>1
  <2>2. \A u \in listed : u # t => owner'[u] = owner[u]
    BY <1>t, <1>1
  <2>3. QED BY <1>1, <2>1, <2>2 DEF IInv, EventMeansUp
<1>10. StopInv'
  <2>1. /\ pc'["stop"] = "done" <=> pc["stop"] = "done"
        /\ \A u \in Updates : Busy(u)' <=> Busy(u)
    BY <1>t, <1>1 DEF InLoop, Busy
  <2>2. \A u \in Tasks : state'[u] \in {"dial", "up"} => state[u] = state'[u] /\ tok'[u] = tok[u]
    BY <1>t, <1>1
  <2>3. pc["stop"] = "done" => token > stoppedAt
    <3>1. CASE m = "start"
      BY <1>1, <3>1 DEF IInv, ManagerInv, InLoop, AllIdle
    <3>2. CASE m = "stop"
      BY <1>1, <3>2
    <3>3. CASE m \in Updates
      BY <1>1, <3>3 DEF IInv, StopInv, Busy
    <3> QED
      BY <3>1, <3>2, <3>3 DEF Managers
  <2> QED
    BY <1>1, <2>1, <2>2, <2>3 DEF IInv, StopInv
<1>11. QED
  BY <1>5, <1>6, <1>7, <1>8, <1>9, <1>10 DEF IInv

LEMMA IInvNext == ASSUME Serialized, IInv, [Next]_vars PROVE IInv'
<1>t. /\ TypeInv /\ TypeInv' /\ pc \in [Managers -> Places] /\ state \in [Tasks -> States]
      /\ owner \in [Tasks -> Clients] /\ listed \in SUBSET Tasks
      /\ idx \in [Managers -> 0 .. NumClients] /\ old \in [Managers -> SUBSET Tasks]
      /\ wanted \in [Managers -> 0 .. MaxToken] /\ cancelled \in SUBSET Tasks
      /\ Managers = Updates \cup {"start", "stop"}
      /\ "start" \notin Updates /\ "stop" \notin Updates
      /\ token \in Nat /\ stoppedAt \in Nat
  BY TypeNext, FeedAssumption DEF IInv, TypeInv, TypeOK, Managers
<1>i. ManagerInv /\ TaskInv /\ StopInv /\ LoopInv /\ TokenInv
  BY DEF IInv
<1> USE DEF GoTo, ClientLeft, taskVars
<1>1. CASE Launch
  <2>1. /\ UNCHANGED <<token, stoppedAt, idx, old, wanted, state, owner, tok, cancelled, listed, connected, running>>
        /\ pc["start"] = "init" /\ pc' = [pc EXCEPT !["start"] = "spawn"]
    BY <1>1 DEF Launch
  <2>2. ManagerInv'
    BY <1>t, <1>i, <2>1 DEF ManagerInv, Busy, InLoop, AllIdle, NoUpdate
  <2>3. TokenInv'
    BY <1>t, <1>i, <2>1 DEF TokenInv, Busy, InLoop
  <2>4. \A t \in Tasks : ~Live(t)
    BY <1>i, <2>1 DEF TaskInv
  <2>5. \A t \in cancelled : Live(t)
    BY <1>i DEF TaskInv
  <2>6. StopInv'
    BY <1>t, <1>i, <2>1 DEF ManagerInv, StopInv, Busy, InLoop, AllIdle, NoUpdate
  <2>7. QED BY <1>t, <2>1, <2>2, <2>3, <2>4, <2>5, <2>6, ManagerStepKeeps
<1>2. CASE Stop
  <2>1. /\ UNCHANGED <<token, idx, wanted, state, owner, tok, listed, connected, running>>
        /\ stoppedAt' = token /\ pc["stop"] = "idle" /\ pc["start"] = "done" /\ AllIdle
        /\ pc' = [pc EXCEPT !["stop"] = "gather"]
        /\ old' = [old EXCEPT !["stop"] = listed]
        /\ cancelled' = cancelled \cup {t \in listed : Live(t)}
    BY <1>2 DEF Stop, CancelListed, AllIdle
  <2>2. ManagerInv'
    BY <1>t, <1>i, <2>1 DEF ManagerInv, Busy, InLoop, AllIdle, NoUpdate
  <2>3. TokenInv'
    BY <1>t, <1>i, <2>1 DEF TokenInv, Busy, InLoop
  <2>4. \A t \in Tasks : Live(t) => t \in listed
    BY <1>i DEF TaskInv
  <2>5. \A t \in cancelled' : Live(t)
    BY <1>i, <2>1 DEF TaskInv
  <2>6. ~InLoop("stop")' /\ pc'["start"] = "done" /\ pc'["stop"] = "gather"
    BY <1>t, <2>1 DEF InLoop
  <2>7. StopInv'
    BY <1>t, <1>i, <2>1 DEF StopInv, Busy, InLoop
  <2>8. QED BY <1>t, <2>1, <2>2, <2>3, <2>4, <2>5, <2>6, <2>7, ManagerStepKeeps
<1>3. CASE FinishStop
  <2>1. /\ UNCHANGED <<token, stoppedAt, idx, wanted, state, owner, tok, cancelled, connected, running>>
        /\ pc["stop"] = "gather" /\ pc' = [pc EXCEPT !["stop"] = "done"]
        /\ old' = [old EXCEPT !["stop"] = {}] /\ Gathered("stop")
    BY <1>3 DEF FinishStop
  <2>2. ManagerInv'
    BY <1>t, <1>i, <2>1 DEF ManagerInv, Busy, InLoop, AllIdle, NoUpdate
  <2>3. TokenInv'
    BY <1>t, <1>i, <2>1 DEF TokenInv, Busy, InLoop
  <2>4. \A t \in Tasks : ~Live(t)
    BY <1>t, <1>i, <2>1 DEF ManagerInv, TaskInv, Gathered
  <2>5. \A t \in cancelled' : Live(t)
    BY <1>i, <2>1 DEF TaskInv
  <2>6. StopInv'
    <3>1. \A u \in Updates : ~Busy(u)'
      BY <1>t, <1>i, <2>1 DEF ManagerInv, Busy, InLoop
    <3>2. \A t \in Tasks : state'[t] = "free"
      BY <2>1, <2>4 DEF Live
    <3>3. stoppedAt' <= token'
      BY <1>i, <2>1 DEF StopInv
    <3>4. QED BY <3>1, <3>2, <3>3 DEF StopInv, Live
  <2>7. QED BY <1>t, <2>1, <2>2, <2>3, <2>4, <2>5, <2>6, ManagerStepKeeps
<1>4. CASE Expire
  BY <1>t, <1>4
  DEF Expire, managerVars, IInv, ManagerInv, TaskInv, StopInv, LoopInv, TokenInv, EventMeansUp,
      Busy, InLoop, AllIdle, NoUpdate, Live, Used
<1>5. ASSUME NEW m \in Managers, NEW t \in Tasks, Spawn(m, t) PROVE IInv'
  BY <1>t, <1>5, SpawnKeeps
<1>6. ASSUME NEW m \in Managers, LoopEnds(m) PROVE IInv'
  <2>1. /\ UNCHANGED <<token, stoppedAt, old, state, owner, tok, cancelled, listed, connected, running>>
        /\ pc[m] = "spawn" /\ idx' = [idx EXCEPT ![m] = 0] /\ wanted' = [wanted EXCEPT ![m] = 0]
        /\ pc' = [pc EXCEPT ![m] = IF m \in Updates THEN "idle" ELSE "done"]
    BY <1>6 DEF LoopEnds, Return
  <2>2. m # "stop"
    BY <1>t, <1>i, <2>1 DEF ManagerInv, InLoop, AllIdle, NoUpdate
  <2>3. ManagerInv'
    BY <1>t, <1>i, <2>1, <2>2 DEF ManagerInv, Busy, InLoop, AllIdle, NoUpdate
  <2>4. TokenInv'
    BY <1>t, <1>i, <2>1 DEF TokenInv, Busy, InLoop
  <2>5. pc'["start"] # "init" /\ ~InLoop(m)'
    BY <1>t, <1>i, <2>1, <2>2 DEF ManagerInv, InLoop, AllIdle, NoUpdate
  <2>6. \A t \in Tasks : Live(t) => t \in listed
    BY <1>i DEF TaskInv
  <2>7. \A t \in cancelled' : Live(t)
    BY <1>i, <2>1 DEF TaskInv
  <2>8. StopInv'
    <3>1. pc'["stop"] = "done" => pc["stop"] = "done"
      BY <1>t, <2>1, <2>2
    <3>2. \A v \in Updates : Busy(v)' => Busy(v)
      BY <1>t, <2>1, <2>2 DEF Busy, InLoop
    <3>3. QED BY <1>i, <2>1, <3>1, <3>2, StopStable
  <2>9. QED BY <1>t, <2>1, <2>3, <2>4, <2>5, <2>6, <2>7, <2>8, ManagerStepKeeps
<1>7. ASSUME NEW m \in Managers, Resume(m) PROVE IInv'
  <2>1. /\ UNCHANGED <<token, stoppedAt, old, wanted, state, owner, tok, cancelled, listed, connected, running>>
        /\ pc[m] = "woken" /\ idx' = [idx EXCEPT ![m] = @ + 1]
        /\ pc' = [pc EXCEPT ![m] = "spawn"]
    BY <1>7 DEF Resume
  <2>2. ManagerInv'
    BY <1>t, <1>i, <2>1 DEF ManagerInv, Busy, InLoop, AllIdle, NoUpdate
  <2>3. TokenInv'
    BY <1>t, <1>i, <2>1 DEF TokenInv, Busy, InLoop
  <2>4. \A t \in Tasks : Live(t) => owner[t] < idx'[m]
    <3>1. \A t \in Tasks : owner[t] \in Nat /\ idx[m] \in Nat
      BY <1>t DEF Clients
    <3>2. QED BY <1>t, <1>i, <2>1, <3>1 DEF LoopInv, InLoop
  <2>5. pc'["start"] = "init" => \A t \in Tasks : ~Live(t)
    BY <1>t, <1>i, <2>1 DEF TaskInv
  <2>6. \A t \in Tasks : Live(t) => t \in listed
    BY <1>i DEF TaskInv
  <2>7. \A t \in cancelled' : Live(t)
    BY <1>i, <2>1 DEF TaskInv
  <2>8. StopInv'
    <3>1. pc'["stop"] = "done" => pc["stop"] = "done"
      BY <1>t, <2>1
    <3>2. \A v \in Updates : Busy(v)' => Busy(v)
      BY <1>t, <2>1 DEF Busy, InLoop
    <3>3. QED BY <1>i, <2>1, <3>1, <3>2, StopStable
  <2>9. QED BY <1>t, <2>1, <2>2, <2>3, <2>4, <2>5, <2>6, <2>7, <2>8, ManagerStepKeeps
<1>8. ASSUME NEW u \in Updates, StoreToken(u) PROVE IInv'
  <2>1. /\ UNCHANGED <<stoppedAt, idx, old, state, owner, tok, cancelled, listed, connected, running>>
        /\ pc[u] = "idle" /\ pc["start"] = "done" /\ pc["stop"] # "gather" /\ NoUpdate /\ token' = token + 1
        /\ wanted' = [wanted EXCEPT ![u] = token + 1] /\ pc' = [pc EXCEPT ![u] = "stored"]
    BY <1>8 DEF StoreToken
  <2>2. ManagerInv'
    BY <1>t, <1>i, <2>1 DEF ManagerInv, Busy, InLoop, AllIdle, NoUpdate
  <2>3. TokenInv'
    BY <1>t, <1>i, <2>1 DEF TokenInv, Busy, InLoop, AllIdle, NoUpdate
  <2>4. pc'["start"] = "done" /\ ~InLoop(u)'
    BY <1>t, <2>1 DEF InLoop
  <2>5. \A t \in Tasks : Live(t) => t \in listed
    BY <1>i DEF TaskInv
  <2>6. \A t \in cancelled' : Live(t)
    BY <1>i, <2>1 DEF TaskInv
  <2>7. StopInv'
    <3>1. token' > stoppedAt' /\ stoppedAt' <= token'
      BY <1>t, <1>i, <2>1 DEF StopInv
    <3>2. pc'["stop"] = "done" => pc["stop"] = "done"
      BY <1>t, <2>1
    <3>3. state' = state /\ tok' = tok
      BY <2>1
    <3>4. QED BY <1>i, <3>1, <3>2, <3>3, <2>1 DEF StopInv, Live
  <2>8. QED BY <1>t, <2>1, <2>2, <2>3, <2>4, <2>5, <2>6, <2>7, ManagerStepKeeps
<1>9. ASSUME NEW u \in Updates, CancelAll(u) PROVE IInv'
  <2>1. pc[u] = "stored" /\ pc["start"] = "done" /\ pc["stop"] # "gather"
    BY <1>t, <1>i, <1>9 DEF CancelAll, ManagerInv, Busy, AllIdle, NoUpdate
  <2>2. /\ UNCHANGED <<token, stoppedAt, idx, wanted, state, owner, tok, listed, connected, running>>
        /\ pc' = [pc EXCEPT ![u] = "gather"]
        /\ old' = [old EXCEPT ![u] = listed]
        /\ cancelled' = cancelled \cup {t \in listed : Live(t)}
    BY <1>9, <2>1 DEF CancelAll, CancelListed
  <2>3. ManagerInv'
    BY <1>t, <1>i, <2>1, <2>2 DEF ManagerInv, Busy, InLoop, AllIdle, NoUpdate
  <2>4. TokenInv'
    BY <1>t, <1>i, <2>1, <2>2 DEF TokenInv, Busy, InLoop
  <2>5. pc'["start"] = "done" /\ ~InLoop(u)'
    BY <1>t, <2>1, <2>2 DEF InLoop
  <2>6. \A t \in Tasks : Live(t) => t \in listed
    BY <1>i DEF TaskInv
  <2>7. \A t \in cancelled' : Live(t)
    BY <1>i, <2>2 DEF TaskInv
  <2>8. StopInv'
    BY <1>t, <1>i, <2>1, <2>2 DEF StopInv, Busy, InLoop
  <2>9. QED BY <1>t, <2>2, <2>3, <2>4, <2>5, <2>6, <2>7, <2>8, ManagerStepKeeps
<1>10. ASSUME NEW u \in Updates, Restart(u) PROVE IInv'
  <2>1. /\ UNCHANGED <<token, stoppedAt, idx, wanted, state, owner, tok, cancelled, connected, running>>
        /\ pc[u] = "gather" /\ pc' = [pc EXCEPT ![u] = "spawn"]
        /\ old' = [old EXCEPT ![u] = {}] /\ Gathered(u)
    BY <1>10 DEF Restart
  <2>2. \A t \in Tasks : ~Live(t)
    BY <1>t, <1>i, <2>1 DEF ManagerInv, TaskInv, Gathered
  <2>3. ManagerInv'
    BY <1>t, <1>i, <2>1 DEF ManagerInv, Busy, InLoop, AllIdle, NoUpdate
  <2>4. TokenInv'
    BY <1>t, <1>i, <2>1, <2>2 DEF TokenInv, Busy, InLoop, Live
  <2>5. \A t \in cancelled' : Live(t)
    BY <1>i, <2>1 DEF TaskInv
  <2>6. StopInv'
    BY <1>t, <1>i, <2>1, <2>2 DEF StopInv, Busy, InLoop
  <2>7. QED BY <1>t, <2>1, <2>2, <2>3, <2>4, <2>5, <2>6, ManagerStepKeeps
<1>11. ASSUME NEW t \in Tasks, TaskStep(t) \/ Connect(t) \/ Fail(t) PROVE IInv'
  BY <1>t, <1>11, TaskStepChanges, TaskStepKeeps
<1>12. CASE UNCHANGED vars
  BY <1>t, <1>12
  DEF vars, managerVars, IInv, ManagerInv, TaskInv, StopInv, LoopInv, TokenInv, EventMeansUp,
      Busy, InLoop, AllIdle, NoUpdate, Live, Used
<1>13. QED
  BY <1>1, <1>2, <1>3, <1>4, <1>5, <1>6, <1>7, <1>8, <1>9, <1>10, <1>11, <1>12
  DEF Next, ManagerStep, UpdateStep

LEMMA IInvHolds == ASSUME Serialized PROVE Spec => []IInv
BY IInvInit, IInvNext, PTL DEF Spec

-----------------------------------------------------------------------------
(* What follows while no POST /token, start() and stop() overlap.          *)

\* No client ever has two open connections.
THEOREM OneConnection == ASSUME Serialized PROVE Spec => []OneConnectionPerClient
<1>1. IInv => OneConnectionPerClient
  BY DEF IInv, TaskInv, Live, OneConnectionPerClient
<1>2. QED
  BY <1>1, IInvHolds, PTL

\* The event of a client tells the truth, and a connected client is on the list
\* that the next reconnect cancels.
THEOREM EventTellsTheTruth == ASSUME Serialized PROVE Spec => []EventMeansUp
<1>1. IInv => EventMeansUp
  BY DEF IInv
<1>2. QED
  BY <1>1, IInvHolds, PTL

\* What runs when stop() has returned came with a later POST /token: no task and
\* no connection of an older token is left.
THEOREM StopCloses == ASSUME Serialized PROVE Spec => []StoppedMeansClosed
<1>1. IInv => StoppedMeansClosed
  BY DEF IInv, StopInv, StoppedMeansClosed
<1>2. QED
  BY <1>1, IInvHolds, PTL

\* A feed loop ends only because it was cancelled.
THEOREM NoLoopEndsSilently == ASSUME Serialized PROVE Spec => NoSilentEnd
<1> DEFINE Ended == \A t \in Tasks : Live(t) /\ state'[t] = "free" => t \in cancelled
<1>1. IInv /\ [Next]_vars => [Ended]_vars
  <2> SUFFICES ASSUME IInv, Next, NEW t \in Tasks, Live(t), state'[t] = "free"
               PROVE  t \in cancelled
    OBVIOUS
  <2>1. CASE \E u \in Tasks : TaskStep(u) \/ Connect(u) \/ Fail(u)
    BY <2>1, TaskStepChanges DEF TaskChange, Live
  <2>2. CASE \E m \in Managers, u \in Tasks : Spawn(m, u)
    <3>1. PICK u \in Tasks : state' = [state EXCEPT ![u] = "new"]
      BY <2>2 DEF Spawn
    <3>2. QED BY <3>1 DEF Live, IInv, TypeInv, TypeOK
  <2>3. CASE UNCHANGED state
    BY <2>3 DEF Live
  <2>4. QED
    BY <2>1, <2>2, <2>3
    DEF Next, Launch, Stop, FinishStop, Expire, ManagerStep, LoopEnds, Resume, StoreToken,
        UpdateStep, CancelAll, Restart, taskVars
<1>2. QED
  BY <1>1, IInvHolds, PTL DEF Spec, NoSilentEnd

\* When POST /token returns, no connection that an older token opened is open.
THEOREM NoConnectionIsStale == ASSUME Serialized PROVE Spec => NoStaleConnection
<1> DEFINE Fresh == \A u \in Updates : pc[u] # "idle" /\ pc'[u] = "idle" =>
                      \A t \in Tasks : state[t] = "up" => tok[t] >= wanted[u]
<1>1. IInv /\ [Next]_vars => [Fresh]_vars
  <2> SUFFICES ASSUME IInv, Next, NEW u \in Updates, pc[u] # "idle", pc'[u] = "idle",
                      NEW t \in Tasks, state[t] = "up"
               PROVE  tok[t] >= wanted[u]
    OBVIOUS
  <2>1. pc \in [Managers -> Places] /\ u \in Managers /\ Updates \subseteq Managers
    BY DEF IInv, TypeInv, TypeOK, Managers
  <2>2. /\ ManagerInv /\ TokenInv /\ Busy(u) /\ pc["start"] = "done"
    BY <2>1 DEF IInv, ManagerInv, AllIdle, NoUpdate
  <2>3. LoopEnds(u)
    <3>1. ASSUME NEW v \in Tasks, TaskStep(v) \/ Connect(v) \/ Fail(v) PROVE FALSE
      BY <2>1, <3>1, TaskStepChanges DEF TaskChange
    <3>2. QED
      BY <2>1, <2>2, <3>1, FeedAssumption
      DEF Next, Launch, Stop, FinishStop, CancelListed, Expire, ManagerStep, Spawn, LoopEnds,
          Return, Resume, StoreToken, UpdateStep, CancelAll, Restart, GoTo, managerVars, Managers
  <2>4. InLoop(u)
    BY <2>3 DEF LoopEnds, InLoop
  <2>5. tok[t] = token /\ wanted[u] = token /\ token \in Nat
    BY <2>2, <2>4 DEF TokenInv, IInv, TypeInv, TypeOK
  <2>6. QED BY <2>5
<1>2. QED
  BY <1>1, IInvHolds, PTL DEF Spec, NoStaleConnection
=============================================================================
