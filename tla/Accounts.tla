------------------------------- MODULE Accounts -----------------------------
(***************************************************************************)
(* The Accounts panel (useAccountsData): three requests load its data; a   *)
(* saved account, a sync and an import of history change the server's data *)
(* and load again; nothing keeps these operations apart.                   *)
(*                                                                         *)
(* Data is a number, that of the change at the server that it has seen.    *)
(***************************************************************************)
EXTENDS Naturals

CONSTANTS
  None,
  MaxLoads,  \* bound: loads
  MaxOps     \* bound: saves, syncs and imports

AccountsAssumption == MaxLoads \in Nat \ {0} /\ MaxOps \in Nat

VARIABLES
  data,      \* the server's data
  shown,     \* of each part: accounts, dashboard, trades
  message, loading,
  loads,     \* on the way: [id, parts], a part None until it is served
  ops,       \* on the way: [id, kind, step]
  begun, started, \* loads and operations so far
  own,       \* history: the last change made through this panel and answered
  showing,   \* history: the load shown last
  stuck      \* history: a sync was rejected and nothing was loaded since

accountsVars == <<data, shown, message, loading, loads, ops, begun, started, own, showing, stuck>>

Parts == {"accounts", "dashboard", "trades"}

Kinds == {"save", "sync", "import"}

Messages == {None, "failed", "refused", "done", "login"}

TypeOK ==
  /\ data \in Nat /\ shown \in [Parts -> 0 .. data] /\ own \in 0 .. data
  /\ message \in Messages /\ loading \in BOOLEAN /\ stuck \in BOOLEAN
  /\ loads \subseteq [id : 1 .. MaxLoads, parts : [Parts -> (0 .. data) \union {None}]]
  /\ ops \subseteq [id : 1 .. MaxOps, kind : Kinds, step : {"sent", "made"}]
  /\ begun \in 0 .. MaxLoads /\ started \in 0 .. MaxOps /\ showing \in 0 .. begun

NewLoad(n) == [id |-> n, parts |-> [p \in Parts |-> None]]

\* The panel mounts, and loads.
Init ==
  /\ data = 0 /\ shown = [p \in Parts |-> 0] /\ message = None /\ loading = TRUE
  /\ loads = {NewLoad(1)} /\ begun = 1 /\ ops = {} /\ started = 0
  /\ own = 0 /\ showing = 0 /\ stuck = FALSE

-----------------------------------------------------------------------------
(* Loading.                                                                *)

BeginLoad ==
  /\ begun < MaxLoads /\ begun' = begun + 1
  /\ loads' = loads \union {NewLoad(begun')} /\ loading' = TRUE

\* Refresh, and Generate Links.
Refresh == BeginLoad /\ UNCHANGED <<data, shown, message, ops, started, own, showing, stuck>>

\* The login window tells how it went.
LoginMessage == BeginLoad /\ message' = "login" /\ UNCHANGED <<data, shown, ops, started, own, showing, stuck>>

ServePart(l, p) ==
  /\ l \in loads /\ l.parts[p] = None
  /\ loads' = (loads \ {l}) \union {[l EXCEPT !.parts[p] = data]}
  /\ UNCHANGED <<data, shown, message, loading, ops, begun, started, own, showing, stuck>>

LoadAnswer(l) ==
  /\ l \in loads /\ \A p \in Parts : l.parts[p] # None
  /\ loads' = loads \ {l} /\ shown' = l.parts
  /\ message' = None /\ loading' = FALSE
  /\ showing' = l.id /\ stuck' = FALSE
  /\ UNCHANGED <<data, ops, begun, started, own>>

\* One of the three is an error, or rejected.
LoadFails(l) ==
  /\ l \in loads /\ loads' = loads \ {l}
  /\ message' = "failed" /\ loading' = FALSE
  /\ stuck' = FALSE
  /\ UNCHANGED <<data, shown, ops, begun, started, own, showing>>

-----------------------------------------------------------------------------
(* Operations.                                                             *)

\* Sync Now waits for the end of a load, the others do not.
Start(kind) ==
  /\ started < MaxOps /\ started' = started + 1
  /\ kind = "sync" => ~loading
  /\ ops' = ops \union {[id |-> started', kind |-> kind, step |-> "sent"]}
  /\ loading' = (loading \/ kind = "sync")
  /\ UNCHANGED <<data, shown, message, loads, begun, own, showing, stuck>>

\* The server's part.
Make(o) ==
  /\ o \in ops /\ o.step = "sent"
  /\ data' = data + 1 /\ ops' = (ops \ {o}) \union {[o EXCEPT !.step = "made"]}
  /\ UNCHANGED <<shown, message, loading, loads, begun, started, own, showing, stuck>>

\* Mutant: what a save changed is not loaded.
LoadUnlessSave(kind) == IF kind = "save" THEN UNCHANGED <<begun, loads, loading>> ELSE BeginLoad

LoadAfter(kind) == BeginLoad

Done(o) ==
  /\ o \in ops /\ o.step = "made" /\ ops' = ops \ {o}
  /\ message' = "done" /\ own' = data
  /\ LoadAfter(o.kind)
  /\ UNCHANGED <<data, shown, started, showing, stuck>>

\* An error status.  A sync does not look at it.
Refused(o) ==
  /\ o \in ops /\ ops' = ops \ {o}
  /\ IF o.kind = "sync" THEN message' = "done" /\ BeginLoad
     ELSE message' = "refused" /\ UNCHANGED <<begun, loads, loading>>
  /\ UNCHANGED <<data, shown, started, own, showing, stuck>>

\* No answer: the exception passes every handler, and a sync still "loads".
Rejected(o) ==
  /\ o \in ops /\ ops' = ops \ {o}
  /\ stuck' = (stuck \/ o.kind = "sync")
  /\ UNCHANGED <<data, shown, message, loading, loads, begun, started, own, showing>>

Next ==
  \/ Refresh \/ LoginMessage
  \/ \E l \in loads : LoadAnswer(l) \/ LoadFails(l) \/ \E p \in Parts : ServePart(l, p)
  \/ \E kind \in Kinds : Start(kind)
  \/ \E o \in ops : Make(o) \/ Done(o) \/ Refused(o) \/ Rejected(o)

Spec == Init /\ [][Next]_accountsVars

-----------------------------------------------------------------------------
(* Properties.                                                             *)

\* With nothing on the way the panel does not stay "loading", Sync Now disabled,
\* except after a sync that got no answer; and when it shows the load begun last,
\* all its parts have every change that was made here.
AccountsSettled ==
  loads = {} /\ ops = {} =>
    /\ loading => stuck
    /\ showing = begun => \A p \in Parts : shown[p] >= own
=============================================================================
