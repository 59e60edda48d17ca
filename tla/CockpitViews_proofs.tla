------------------------- MODULE CockpitViews_proofs ------------------------
(***************************************************************************)
(* What the views of the cockpit promise, for every set of symbols,        *)
(* accounts' operations and settings, and whatever the server answers.     *)
(*                                                                         *)
(* The views share no state: a step of the cockpit is a step of the view   *)
(* the argument is about, or leaves its variables alone.                   *)
(***************************************************************************)
EXTENDS CockpitViews, Arrangement, FiniteSetTheorems, SequenceTheorems, TLAPS

-----------------------------------------------------------------------------
(* The accounts.                                                           *)

\* "Loading" has a reason: a load, or a sync, on the way, or a sync that was
\* rejected.
LoadingInv ==
  accountsLoading =>
    stuck \/ loads # {} \/ \E o \in ops : o.kind = "sync"

\* The newest load, on the way or shown, is later than every change made here.
NewestInv ==
  /\ accountData \in Nat /\ own \in Nat /\ own <= accountData
  /\ begun \in Nat /\ showing \in Nat /\ showing <= begun
  /\ \A l \in loads : l.id \in Nat /\ l.id <= begun
  /\ \A l \in loads : \A p \in Accounts!Parts :
       l.id = begun /\ l.parts[p] # None => l.parts[p] \in Nat /\ own <= l.parts[p]
  /\ showing = begun =>
       \A p \in Accounts!Parts : shown[p] \in Nat /\ own <= shown[p]

\* A load keeps what it is: an id and one answer for each part.
LoadsInv == \A l \in loads : l = [id |-> l.id, parts |-> [p \in Accounts!Parts |-> l.parts[p]]]

AccountsInv == LoadingInv /\ NewestInv /\ LoadsInv

\* Before the first load ends the panel is loading and shows nothing.
LEMMA AccountsInit == Accounts!Init => AccountsInv
BY DEF Accounts!Init, AccountsInv, LoadingInv, NewestInv, LoadsInv, Accounts!NewLoad, Accounts!Parts

\* A new load has no answers yet, and comes after what is shown.
LEMMA BeginKeeps ==
  ASSUME AccountsInv, Accounts!BeginLoad, accountData' = accountData, shown' = shown,
         showing' = showing, own' \in Nat, own' <= accountData
  PROVE  NewestInv' /\ LoadsInv' /\ loads' # {}
<1>1. /\ begun' = begun + 1 /\ begun \in Nat /\ showing \in Nat /\ showing <= begun
      /\ loads' = loads \union {Accounts!NewLoad(begun')}
  BY DEF Accounts!BeginLoad, AccountsInv, NewestInv
<1>2. begun' \in Nat /\ showing' \in Nat /\ showing' <= begun' /\ showing' # begun'
  BY <1>1
<1>3. ASSUME NEW l \in loads'
      PROVE  /\ l.id \in Nat /\ l.id <= begun'
             /\ \A p \in Accounts!Parts : l.id = begun' => l.parts[p] = None
             /\ l = [id |-> l.id, parts |-> [p \in Accounts!Parts |-> l.parts[p]]]
  <2>1. CASE l \in loads
    <3>1. /\ l.id \in Nat /\ l.id <= begun
          /\ l = [id |-> l.id, parts |-> [p \in Accounts!Parts |-> l.parts[p]]]
      BY <2>1 DEF AccountsInv, NewestInv, LoadsInv
    <3> QED
      BY <1>1, <3>1
  <2>2. CASE l = Accounts!NewLoad(begun')
    BY <1>2, <2>2 DEF Accounts!NewLoad
  <2> QED
    BY <1>1, <2>1, <2>2
<1>4. loads' # {}
  BY <1>1
<1> QED
  BY <1>2, <1>3, <1>4 DEF AccountsInv, NewestInv, LoadsInv

\* Every step of the panel and of the server keeps the invariant.
LEMMA AccountsNext == AccountsInv /\ [Accounts!Next]_(Accounts!accountsVars) => AccountsInv'
<1> SUFFICES ASSUME AccountsInv, [Accounts!Next]_(Accounts!accountsVars)
             PROVE  AccountsInv'
  OBVIOUS
<1>0. /\ accountData \in Nat /\ own \in Nat /\ own <= accountData
  BY DEF AccountsInv, NewestInv
<1>1. CASE Accounts!Refresh \/ Accounts!LoginMessage
  <2>1. /\ Accounts!BeginLoad /\ accountData' = accountData /\ shown' = shown
        /\ showing' = showing /\ own' = own
    BY <1>1 DEF Accounts!Refresh, Accounts!LoginMessage
  <2>2. NewestInv' /\ LoadsInv' /\ loads' # {}
    BY <1>0, <2>1, BeginKeeps
  <2> QED
    BY <2>2 DEF AccountsInv, LoadingInv
<1>2. ASSUME NEW l \in loads, NEW p \in Accounts!Parts, Accounts!ServePart(l, p)
      PROVE  AccountsInv'
  <2>1. /\ loads' = (loads \ {l}) \union {[l EXCEPT !.parts[p] = accountData]}
        /\ l.parts[p] = None
        /\ UNCHANGED <<accountData, shown, accountsLoading, ops, begun, own, showing, stuck>>
    BY <1>2 DEF Accounts!ServePart
  <2>2. l = [id |-> l.id, parts |-> [q \in Accounts!Parts |-> l.parts[q]]]
    BY DEF AccountsInv, LoadsInv
  <2> DEFINE m == [l EXCEPT !.parts[p] = accountData]
  <2>3. /\ m.id = l.id /\ m.parts[p] = accountData
        /\ \A q \in Accounts!Parts \ {p} : m.parts[q] = l.parts[q]
        /\ m = [id |-> m.id, parts |-> [q \in Accounts!Parts |-> m.parts[q]]]
    BY <2>2
  <2> HIDE DEF m
  <2>4. LoadingInv'
    BY <2>1 DEF AccountsInv, LoadingInv
  <2>5. LoadsInv'
    BY <2>1, <2>3 DEF AccountsInv, LoadsInv, m
  <2>6. NewestInv'
    <3>1. \A k \in loads' : k \in loads \/ k = m
      BY <2>1 DEF m
    <3> QED
      BY <1>0, <2>1, <2>3, <3>1 DEF AccountsInv, NewestInv
  <2> QED
    BY <2>4, <2>5, <2>6 DEF AccountsInv
<1>3. ASSUME NEW l \in loads, Accounts!LoadAnswer(l)
      PROVE  AccountsInv'
  BY <1>3 DEF Accounts!LoadAnswer, AccountsInv, LoadingInv, NewestInv, LoadsInv
<1>4. ASSUME NEW l \in loads, Accounts!LoadFails(l)
      PROVE  AccountsInv'
  BY <1>4 DEF Accounts!LoadFails, AccountsInv, LoadingInv, NewestInv, LoadsInv
<1>5. ASSUME NEW kind \in Accounts!Kinds, Accounts!Start(kind)
      PROVE  AccountsInv'
  <2>1. /\ ops' = ops \union {[id |-> started', kind |-> kind, step |-> "sent"]}
        /\ accountsLoading' = (accountsLoading \/ kind = "sync")
        /\ UNCHANGED <<accountData, shown, loads, begun, own, showing, stuck>>
    BY <1>5 DEF Accounts!Start
  <2>2. LoadingInv'
    <3>1. kind = "sync" => \E o \in ops' : o.kind = "sync"
      <4>1. PICK o : o = [id |-> started', kind |-> kind, step |-> "sent"]
        OBVIOUS
      <4>2. o \in ops' /\ o.kind = kind
        BY <2>1, <4>1
      <4> QED
        BY <4>2
    <3>2. accountsLoading' = (accountsLoading \/ kind = "sync")
      BY <1>5 DEF Accounts!Start
    <3>3. ops \subseteq ops' /\ stuck' = stuck /\ loads' = loads
      BY <2>1
    <3> QED
      BY <3>1, <3>2, <3>3 DEF AccountsInv, LoadingInv
  <2>3. NewestInv' /\ LoadsInv'
    BY <2>1 DEF AccountsInv, NewestInv, LoadsInv
  <2> QED
    BY <2>2, <2>3 DEF AccountsInv
<1>6. ASSUME NEW o \in ops, Accounts!Make(o)
      PROVE  AccountsInv'
  <2>1. /\ ops' = (ops \ {o}) \union {[o EXCEPT !.step = "made"]}
        /\ accountData' = accountData + 1
        /\ UNCHANGED <<shown, accountsLoading, loads, begun, own, showing, stuck>>
    BY <1>6 DEF Accounts!Make
  <2>2. LoadingInv'
    <3>1. [o EXCEPT !.step = "made"] \in ops' /\ [o EXCEPT !.step = "made"].kind = o.kind
      BY <2>1
    <3> QED
      BY <2>1, <3>1 DEF AccountsInv, LoadingInv
  <2>3. NewestInv' /\ LoadsInv'
    BY <2>1 DEF AccountsInv, NewestInv, LoadsInv
  <2> QED
    BY <2>2, <2>3 DEF AccountsInv
<1>7. ASSUME NEW o \in ops, Accounts!Done(o)
      PROVE  AccountsInv'
  <2>1. /\ Accounts!BeginLoad /\ accountData' = accountData /\ own' = accountData
        /\ shown' = shown /\ showing' = showing
    BY <1>7 DEF Accounts!Done, Accounts!LoadAfter
  <2>2. NewestInv' /\ LoadsInv' /\ loads' # {}
    BY <1>0, <2>1, BeginKeeps
  <2> QED
    BY <2>2 DEF AccountsInv, LoadingInv
<1>8. ASSUME NEW o \in ops, Accounts!Refused(o)
      PROVE  AccountsInv'
  <2>1. /\ accountData' = accountData /\ own' = own /\ shown' = shown /\ showing' = showing
        /\ stuck' = stuck /\ ops' = ops \ {o}
    BY <1>8 DEF Accounts!Refused
  <2>2. CASE o.kind = "sync"
    <3>1. NewestInv' /\ LoadsInv' /\ loads' # {}
      BY <1>0, <1>8, <2>1, <2>2, BeginKeeps DEF Accounts!Refused
    <3> QED
      BY <3>1 DEF AccountsInv, LoadingInv
  <2>3. CASE o.kind # "sync"
    <3>1. begun' = begun /\ loads' = loads /\ accountsLoading' = accountsLoading
      BY <1>8, <2>3 DEF Accounts!Refused
    <3> QED
      BY <2>1, <2>3, <3>1 DEF AccountsInv, LoadingInv, NewestInv, LoadsInv
  <2> QED
    BY <2>2, <2>3
<1>9. ASSUME NEW o \in ops, Accounts!Rejected(o)
      PROVE  AccountsInv'
  <2>1. /\ stuck' = (stuck \/ o.kind = "sync") /\ ops' = ops \ {o}
        /\ UNCHANGED <<accountData, shown, accountsLoading, loads, begun, own, showing>>
    BY <1>9 DEF Accounts!Rejected
  <2> QED
    BY <2>1 DEF AccountsInv, LoadingInv, NewestInv, LoadsInv
<1>10. CASE UNCHANGED Accounts!accountsVars
  BY <1>10 DEF Accounts!accountsVars, AccountsInv, LoadingInv, NewestInv, LoadsInv
<1> QED
  BY <1>1, <1>2, <1>3, <1>4, <1>5, <1>6, <1>7, <1>8, <1>9, <1>10 DEF Accounts!Next

\* A step of the cockpit is one of the accounts, or none.
LEMMA AccountsStep == [Next]_vars => [Accounts!Next]_(Accounts!accountsVars)
BY DEF Next, vars, ListSteps, ChartSteps, ModalSteps, RegimeSteps, MetricsSteps, AccountsSteps,
       ConfigSteps, accountsVars, Accounts!accountsVars

(***************************************************************************)
(* useAccountsData: with nothing on the way the panel does not stay        *)
(* "loading", unless a sync got no answer; and the load begun last, once   *)
(* it is shown, has every change that was made through the panel, in       *)
(* whatever order loads, saves, syncs and imports are answered.            *)
(***************************************************************************)
THEOREM AccountsComeToRest == Spec => []AccountsSettled
<1>1. Init => AccountsInv
  BY AccountsInit DEF Init
<1>2. AccountsInv /\ [Next]_vars => AccountsInv'
  BY AccountsNext, AccountsStep
<1>3. AccountsInv => AccountsSettled
  BY DEF AccountsInv, LoadingInv, NewestInv, AccountsSettled, Accounts!AccountsSettled
<1> QED
  BY <1>1, <1>2, <1>3, PTL DEF Spec

-----------------------------------------------------------------------------
(* The settings of a service.                                              *)

\* What an answer shows is what is applied, or was changed after it; a PATCH need
\* not speak of a setting.
Told(settings, since, but) ==
  \A k \in ConfigKeys \ but : version[k] > since \/ settings[k] \in {None, applied[k]}

AnswerOK(a) == a \in Config!Answer /\ a.seen <= served /\ Told(a.config, a.seen, {})

ServerInv ==
  /\ applied \in Config!Settings /\ stored \in Config!Overrides
  /\ served \in Nat /\ version \in [ConfigKeys -> Nat]

PageInv ==
  /\ initial # None => AnswerOK(initial)
  /\ config # None =>
       config \in Config!Settings /\ seen \in Nat /\ seen <= served /\ Told(config, seen, edited)
  /\ \A r \in configLoads :
       /\ r = [id |-> r.id, answer |-> r.answer]
       /\ r.answer # None => AnswerOK(r.answer)

PatchType == [id : Nat, mine : BOOLEAN, body : Config!Overrides, edited : SUBSET ConfigKeys, seen : Nat,
              step : {"sent", "saved", "done"}, answer : Config!Answer \union {None}]

PatchesInv ==
  \A r \in patches :
    /\ r \in PatchType /\ r.seen <= served
    /\ r.step # "done" => Told(r.body, r.seen, r.edited)
    /\ r.step = "done" => AnswerOK(r.answer)

ConfigInv == ServerInv /\ PageInv /\ PatchesInv

\* What is given over settings, and what a restart comes to, are settings.
LEMMA OverIs ==
  ASSUME NEW body \in Config!Overrides, NEW settings \in Config!Settings
  PROVE  Config!Over(body, settings) \in Config!Settings
BY DEF Config!Over, Config!Given, Config!Overrides, Config!Settings

LEMMA EffectiveIs ==
  ASSUME NEW body \in Config!Overrides
  PROVE  Config!Effective(body) \in Config!Settings
BY CockpitViewsAssumption, OverIs DEF Config!Effective, Config!Settings, Config!ServiceConfigAssumption

\* Nothing is stored or shown; a page may have got the settings as they are.
LEMMA ConfigInit == Config!Init => ConfigInv
<1> SUFFICES ASSUME Config!Init
             PROVE  ConfigInv
  OBVIOUS
<1>1. /\ stored = [k \in ConfigKeys |-> None] /\ applied = Config!Effective(stored)
      /\ served = 0 /\ version = [k \in ConfigKeys |-> 0]
      /\ initial \in {None, Config!Tunable} /\ config = None /\ configLoads = {} /\ patches = {}
  BY DEF Config!Init
<1>2. applied \in Config!Settings
  BY <1>1, EffectiveIs DEF Config!Overrides
<1>3. ServerInv
  BY <1>1, <1>2 DEF ServerInv, Config!Overrides
<1>4. AnswerOK(Config!Tunable)
  BY <1>1, <1>2 DEF AnswerOK, Config!Tunable, Config!Answer, Told
<1>5. PageInv /\ PatchesInv
  BY <1>1, <1>4 DEF PageInv, PatchesInv
<1> QED
  BY <1>3, <1>5 DEF ConfigInv

\* The settings as they are now are an answer that tells the truth.
LEMMA TunableOK == ServerInv => AnswerOK(Config!Tunable)
BY DEF ServerInv, AnswerOK, Config!Tunable, Config!Answer, Told

\* What was told stays true, or the setting is changed after it.
LEMMA ToldLater ==
  ASSUME ServerInv, NEW settings \in Config!Settings, Config!Become(settings),
         NEW c, NEW s \in Nat, s <= served, NEW but, Told(c, s, but)
  PROVE  Told(c, s, but)' /\ s <= served'
<1>1. /\ applied' = settings /\ served' = served + 1 /\ served \in Nat
      /\ version' = [k \in ConfigKeys |-> IF settings[k] # applied[k] THEN served' ELSE version[k]]
  BY DEF Config!Become, ServerInv
<1>2. ASSUME NEW k \in ConfigKeys \ but
      PROVE  version'[k] > s \/ c[k] \in {None, applied'[k]}
  <2>1. version[k] > s \/ c[k] \in {None, applied[k]}
    BY DEF Told
  <2>2. CASE settings[k] # applied[k]
    BY <1>1, <2>2
  <2>3. CASE settings[k] = applied[k]
    BY <1>1, <2>1, <2>3
  <2> QED
    BY <2>2, <2>3
<1>3. s <= served'
  BY <1>1
<1> QED
  BY <1>2, <1>3 DEF Told

\* An answer on the way stays true of the settings when they are changed.
LEMMA AnswerLater ==
  ASSUME ServerInv, NEW settings \in Config!Settings, Config!Become(settings),
         NEW a, AnswerOK(a)
  PROVE  AnswerOK(a)'
<1>1. a \in Config!Answer /\ a.seen \in Nat /\ a.seen <= served /\ Told(a.config, a.seen, {})
  BY DEF AnswerOK, Config!Answer
<1>2. PICK c, s : c = a.config /\ s = a.seen
  OBVIOUS
<1>3. Told(c, s, {})' /\ s <= served'
  BY <1>1, <1>2, ToldLater
<1> QED
  BY <1>1, <1>2, <1>3 DEF AnswerOK, Told

\* The server changes its settings, and says so in the answer.
LEMMA BecomeKeeps ==
  ASSUME ConfigInv, NEW settings \in Config!Settings, Config!Become(settings)
  PROVE  /\ applied' \in Config!Settings /\ served' \in Nat /\ version' \in [ConfigKeys -> Nat]
         /\ \A c, s : c = applied' /\ s = served' => AnswerOK([config |-> c, seen |-> s])'
<1>1. /\ applied' = settings /\ served' = served + 1 /\ served \in Nat
      /\ version' = [k \in ConfigKeys |-> IF settings[k] # applied[k] THEN served' ELSE version[k]]
      /\ version \in [ConfigKeys -> Nat]
  BY DEF Config!Become, ConfigInv, ServerInv
<1>2. served' \in Nat /\ version' \in [ConfigKeys -> Nat]
  BY <1>1
<1>3. ASSUME NEW c, NEW s, c = applied', s = served'
      PROVE  AnswerOK([config |-> c, seen |-> s])'
  BY <1>1, <1>2, <1>3 DEF AnswerOK, Config!Answer, Told
<1> QED
  BY <1>1, <1>2, <1>3

\* The answers on the way, to others and to a page, are later answers.
LEMMA PageLater ==
  ASSUME ConfigInv, NEW settings \in Config!Settings, Config!Become(settings),
         initial' = initial, config' = config, seen' = seen, edited' = edited,
         configLoads' = configLoads
  PROVE  PageInv'
<1>1. initial' # None => AnswerOK(initial)'
  <2>1. PICK a : a = initial
    OBVIOUS
  <2>2. a # None => AnswerOK(a)'
    BY <2>1, AnswerLater DEF ConfigInv, PageInv
  <2> QED
    BY <2>1, <2>2 DEF AnswerOK, Told
<1>2. config' # None =>
        /\ config' \in Config!Settings /\ seen' \in Nat /\ seen' <= served'
        /\ Told(config, seen, edited)'
  <2>1. PICK c, s, but : c = config /\ s = seen /\ but = edited
    OBVIOUS
  <2>2. c # None => c \in Config!Settings /\ s \in Nat /\ s <= served /\ Told(c, s, but)
    BY <2>1 DEF ConfigInv, PageInv
  <2>3. c # None => Told(c, s, but)' /\ s <= served'
    BY <2>2, ToldLater DEF ConfigInv
  <2> QED
    BY <2>1, <2>2, <2>3 DEF Told
<1>3. \A r \in configLoads : r = [id |-> r.id, answer |-> r.answer] /\ (r.answer # None => AnswerOK(r.answer)')
  <2>1. ASSUME NEW r \in configLoads, r.answer # None
        PROVE  AnswerOK(r.answer)'
    BY <2>1, AnswerLater DEF ConfigInv, PageInv
  <2> QED
    BY <2>1 DEF ConfigInv, PageInv
<1> QED
  BY <1>1, <1>2, <1>3 DEF PageInv

\* So does a PATCH that is being served, and the answer of one that is done.
LEMMA PatchLater ==
  ASSUME ConfigInv, NEW settings \in Config!Settings, Config!Become(settings), NEW r \in patches
  PROVE  /\ r \in PatchType /\ r.seen <= served'
         /\ r.step # "done" => Told(r.body, r.seen, r.edited)'
         /\ r.step = "done" => AnswerOK(r.answer)'
<1>1. /\ r \in PatchType /\ r.seen <= served /\ r.seen \in Nat
      /\ r.step # "done" => Told(r.body, r.seen, r.edited)
      /\ r.step = "done" => AnswerOK(r.answer)
  BY DEF ConfigInv, PatchesInv, PatchType
<1>2. served' = served + 1 /\ served \in Nat
  BY DEF Config!Become, ConfigInv, ServerInv
<1>3. r.seen <= served'
  BY <1>1, <1>2
<1>4. r.step # "done" => Told(r.body, r.seen, r.edited)'
  BY <1>1, ToldLater DEF ConfigInv
<1>5. r.step = "done" => AnswerOK(r.answer)'
  BY <1>1, AnswerLater DEF ConfigInv
<1> QED
  BY <1>1, <1>3, <1>4, <1>5

\* After the await of patch_config: the settings given become those of the body.
LEMMA ApplyKeeps ==
  ASSUME ConfigInv, NEW r \in patches, Config!ServeApply(r)
  PROVE  ConfigInv'
<1>0. PICK over : over = Config!Over(r.body, applied)
  OBVIOUS
<1>1. /\ r.step = "saved" /\ Config!Become(over)
      /\ patches' = (patches \ {r}) \union
           {[r EXCEPT !.step = "done", !.answer = [config |-> applied', seen |-> served']] : x \in {y \in {r} : r.mine}}
      /\ stored' = stored /\ initial' = initial /\ config' = config
      /\ seen' = seen /\ edited' = edited /\ configLoads' = configLoads
  BY <1>0 DEF Config!ServeApply, Config!paneVars, Config!pageVars
<1>2. r \in PatchType /\ r.seen \in Nat /\ over \in Config!Settings
  BY <1>0, <1>1, OverIs DEF ConfigInv, ServerInv, PatchesInv, PatchType
<1>3. /\ applied' \in Config!Settings /\ served' \in Nat /\ version' \in [ConfigKeys -> Nat]
      /\ \A c, s : c = applied' /\ s = served' => AnswerOK([config |-> c, seen |-> s])'
  BY <1>1, <1>2, BecomeKeeps
<1>4. PageInv'
  BY <1>1, <1>2, PageLater
<1>5. ServerInv'
  BY <1>1, <1>3 DEF ConfigInv, ServerInv
<1>6. PatchesInv'
  <2> DEFINE new == [r EXCEPT !.step = "done", !.answer = [config |-> applied', seen |-> served']]
  <2>1. /\ new.step = "done" /\ new.seen = r.seen /\ new.answer = [config |-> applied', seen |-> served']
        /\ new \in PatchType
    <3>1. [config |-> applied', seen |-> served'] \in Config!Answer
      BY <1>3 DEF Config!Answer
    <3> QED
      BY <1>2, <3>1 DEF PatchType
  <2>2. PICK n : n = new
    OBVIOUS
  <2>3. n.step = "done" /\ n.seen = r.seen /\ n \in PatchType /\ AnswerOK(n.answer)'
    BY <1>3, <2>1, <2>2
  <2>4. \A p \in patches' : p \in patches \/ p = n
    BY <1>1, <2>2
  <2>5. ASSUME NEW p \in patches
        PROVE  /\ p \in PatchType /\ p.seen <= served'
               /\ p.step # "done" => Told(p.body, p.seen, p.edited)'
               /\ p.step = "done" => AnswerOK(p.answer)'
    BY <1>1, <1>2, PatchLater DEF ConfigInv, PatchesInv
  <2>6. n.seen <= served'
    BY <2>3, <2>5
  <2> HIDE DEF new
  <2> QED
    BY <2>3, <2>4, <2>5, <2>6 DEF PatchesInv
<1> QED
  BY <1>4, <1>5, <1>6 DEF ConfigInv

\* A restart: the settings become what is stored, and nothing is being served.
LEMMA RestartKeeps ==
  ASSUME ConfigInv, Config!Restart
  PROVE  ConfigInv'
<1>1. /\ Config!Become(Config!Effective(stored))
      /\ patches' = {r \in patches : r.step = "done"}
      /\ stored' = stored /\ initial' = initial /\ config' = config
      /\ seen' = seen /\ edited' = edited /\ configLoads' = configLoads
  BY DEF Config!Restart, Config!pageVars
<1>2. Config!Effective(stored) \in Config!Settings
  BY EffectiveIs DEF ConfigInv, ServerInv
<1>3. PICK settings \in Config!Settings : settings = Config!Effective(stored)
  BY <1>2
<1>4. Config!Become(settings)
  BY <1>1, <1>3
<1>5. applied' \in Config!Settings /\ served' \in Nat /\ version' \in [ConfigKeys -> Nat]
  BY <1>4, BecomeKeeps
<1>6. PageInv'
  BY <1>1, <1>4, PageLater
<1>7. ServerInv'
  BY <1>1, <1>5 DEF ConfigInv, ServerInv
<1>8. PatchesInv'
  BY <1>1, <1>4, PatchLater DEF ConfigInv, PatchesInv
<1> QED
  BY <1>6, <1>7, <1>8 DEF ConfigInv

\* While the server's settings stay, what was told stays as it was.
LEMMA SameServer ==
  ASSUME UNCHANGED Config!serverVars
  PROVE  /\ ServerInv => ServerInv'
         /\ \A c, s, but : Told(c, s, but)' <=> Told(c, s, but)
         /\ \A a : AnswerOK(a)' <=> AnswerOK(a)
         /\ served' = served /\ stored' = stored
<1>1. /\ stored' = stored /\ applied' = applied /\ served' = served /\ version' = version
  BY DEF Config!serverVars
<1> QED
  BY <1>1 DEF ServerInv, Told, AnswerOK

\* A set of PATCHes is in order when each of them was before, or is new and is.
PatchOK(r) ==
  /\ r \in PatchType /\ r.seen <= served
  /\ r.step # "done" => Told(r.body, r.seen, r.edited)
  /\ r.step = "done" => AnswerOK(r.answer)

\* A PATCH says the same as long as the server does nothing.
LEMMA SamePatch ==
  ASSUME UNCHANGED Config!serverVars
  PROVE  \A r : PatchOK(r)' <=> PatchOK(r)
BY SameServer DEF PatchOK

\* The invariant of the PATCHes, one by one.
LEMMA PatchesAre == PatchesInv <=> \A r \in patches : PatchOK(r)
BY DEF PatchesInv, PatchOK

\* The pane is mounted, shows nothing, or what it is told.
LEMMA PaneKeeps ==
  ASSUME ConfigInv, UNCHANGED Config!serverVars,
         initial' # None => AnswerOK(initial'),
         \/ config' = None
         \/ config' = config /\ seen' = seen /\ edited' = edited
         \/ \E a : AnswerOK(a) /\ config' = a.config /\ seen' = a.seen,
         \A r \in configLoads' : \/ r \in configLoads
                                 \/ r = [id |-> r.id, answer |-> None]
                                 \/ r = [id |-> r.id, answer |-> Config!Tunable]
  PROVE  PageInv'
<1>1. initial' # None => AnswerOK(initial)'
  <2>1. PICK a : a = initial'
    OBVIOUS
  <2>2. a # None => AnswerOK(a)'
    BY <2>1, SameServer
  <2> QED
    BY <2>1, <2>2 DEF AnswerOK, Told
<1>2. config' # None =>
        /\ config' \in Config!Settings /\ seen' \in Nat /\ seen' <= served'
        /\ Told(config, seen, edited)'
  <2>1. PICK c, s, but : c = config' /\ s = seen' /\ but = edited'
    OBVIOUS
  <2>2. c # None => c \in Config!Settings /\ s \in Nat /\ s <= served /\ Told(c, s, but)
    <3>1. CASE config' = config /\ seen' = seen /\ edited' = edited
      BY <2>1, <3>1 DEF ConfigInv, PageInv
    <3>2. ASSUME NEW a, AnswerOK(a), c = a.config, s = a.seen
          PROVE  c \in Config!Settings /\ s \in Nat /\ s <= served /\ Told(c, s, but)
      BY <3>2 DEF AnswerOK, Config!Answer, Told
    <3> QED
      BY <2>1, <3>1, <3>2
  <2>3. c # None => Told(c, s, but)' /\ s <= served'
    BY <2>2, SameServer
  <2> QED
    BY <2>1, <2>2, <2>3 DEF Told
<1>3. ASSUME NEW r \in configLoads'
      PROVE  r = [id |-> r.id, answer |-> r.answer] /\ (r.answer # None => AnswerOK(r.answer)')
  <2>1. r = [id |-> r.id, answer |-> r.answer] /\ (r.answer # None => AnswerOK(r.answer))
    <3>1. CASE r \in configLoads
      BY <3>1 DEF ConfigInv, PageInv
    <3>2. CASE r = [id |-> r.id, answer |-> None]
      <4>1. r.answer = None
        BY <3>2
      <4> QED
        BY <3>2, <4>1
    <3>3. CASE r = [id |-> r.id, answer |-> Config!Tunable]
      <4>1. r.answer = Config!Tunable
        BY <3>3
      <4>2. AnswerOK(Config!Tunable)
        BY TunableOK DEF ConfigInv
      <4> QED
        BY <3>3, <4>1, <4>2
    <3> QED
      BY <3>1, <3>2, <3>3
  <2> QED
    BY <2>1, SameServer
<1> QED
  BY <1>1, <1>2, <1>3 DEF PageInv

\* A step that the server has no part in keeps what the server is about.
LEMMA WireKeeps ==
  ASSUME ConfigInv, UNCHANGED Config!serverVars, PageInv',
         \A r \in patches' : PatchOK(r)
  PROVE  ConfigInv'
<1>1. \A r \in patches' : PatchOK(r)'
  BY SamePatch
<1>2. PatchesInv'
  BY <1>1 DEF PatchesInv, PatchOK
<1> QED
  BY <1>2, SameServer DEF ConfigInv

\* A PATCH of a pane, or of another page.
LEMMA NewPatchOK ==
  ASSUME ConfigInv, NEW id \in Nat, NEW mine \in BOOLEAN, NEW body \in Config!Overrides,
         NEW keys \in SUBSET ConfigKeys, NEW since \in Nat, since <= served, Told(body, since, keys)
  PROVE  PatchOK([id |-> id, mine |-> mine, body |-> body, edited |-> keys, seen |-> since,
                  step |-> "sent", answer |-> None])
BY DEF PatchOK, PatchType

\* What the pane sends differs from the settings where it was edited, or they were changed.
LEMMA SendKeeps ==
  ASSUME ConfigInv, configSent \in Nat, NEW mine \in BOOLEAN, NEW body \in Config!Overrides,
         NEW keys \in SUBSET ConfigKeys, NEW since \in Nat, since <= served, Told(body, since, keys),
         Config!SendPatch(mine, body, keys, since)
  PROVE  ConfigInv'
<1>1. /\ patches' = patches \union {[id |-> configSent', mine |-> mine, body |-> body, edited |-> keys,
                                     seen |-> since, step |-> "sent", answer |-> None]}
      /\ configSent' \in Nat
      /\ UNCHANGED Config!serverVars
      /\ initial' = initial /\ config' = config /\ seen' = seen /\ edited' = edited
      /\ configLoads' = configLoads
  BY DEF Config!SendPatch, Config!pageVars
<1>2. PageInv'
  BY <1>1, PaneKeeps DEF ConfigInv, PageInv
<1>3. \A r \in patches' : PatchOK(r)
  BY <1>1, NewPatchOK, PatchesAre DEF ConfigInv
<1> QED
  BY <1>1, <1>2, <1>3, WireKeeps

\* save_overrides: what is given replaces what was stored of it.
LEMMA SaveKeeps ==
  ASSUME ConfigInv, NEW r \in patches, Config!ServeSave(r)
  PROVE  ConfigInv'
<1>1. /\ r.step = "sent" /\ stored' = Config!Over(r.body, stored)
      /\ patches' = (patches \ {r}) \union {[r EXCEPT !.step = "saved"]}
      /\ applied' = applied /\ served' = served /\ version' = version
      /\ initial' = initial /\ config' = config /\ seen' = seen /\ edited' = edited
      /\ configLoads' = configLoads
  BY DEF Config!ServeSave, Config!Upserted, Config!paneVars, Config!pageVars
<1>3. /\ r \in PatchType /\ r.seen <= served /\ Told(r.body, r.seen, r.edited)
  BY <1>1 DEF ConfigInv, PatchesInv
<1>4. stored' \in Config!Overrides
  <2>1. r.body \in Config!Overrides /\ stored \in Config!Overrides
    BY <1>3 DEF PatchType, ConfigInv, ServerInv
  <2> QED
    BY <1>1, <2>1 DEF Config!Over, Config!Given, Config!Overrides
<1>5. ServerInv'
  BY <1>1, <1>4 DEF ConfigInv, ServerInv
<1>6. (\A c, s, but : Told(c, s, but)' <=> Told(c, s, but)) /\ (\A a : AnswerOK(a)' <=> AnswerOK(a))
  BY <1>1 DEF Told, AnswerOK
<1>7. PageInv'
  <2>1. PICK c, s, but, i : c = config /\ s = seen /\ but = edited /\ i = initial
    OBVIOUS
  <2>2. i # None => AnswerOK(i)'
    BY <1>6, <2>1 DEF ConfigInv, PageInv
  <2>3. c # None => c \in Config!Settings /\ s \in Nat /\ s <= served /\ Told(c, s, but)'
    BY <1>6, <2>1 DEF ConfigInv, PageInv
  <2>4. \A x \in configLoads :
          x = [id |-> x.id, answer |-> x.answer] /\ (x.answer # None => AnswerOK(x.answer)')
    BY <1>6 DEF ConfigInv, PageInv
  <2> QED
    BY <1>1, <2>1, <2>2, <2>3, <2>4 DEF PageInv, Told, AnswerOK
<1>8. PatchesInv'
  <2> DEFINE new == [r EXCEPT !.step = "saved"]
  <2>1. /\ new.step = "saved" /\ new.seen = r.seen /\ new.body = r.body /\ new.edited = r.edited
        /\ new \in PatchType
    BY <1>3 DEF PatchType
  <2>2. PICK n : n = new
    OBVIOUS
  <2>3. /\ n \in PatchType /\ n.step = "saved" /\ n.seen <= served' /\ Told(n.body, n.seen, n.edited)'
    BY <1>1, <1>3, <1>6, <2>1, <2>2
  <2>4. ASSUME NEW p \in patches
        PROVE  /\ p \in PatchType /\ p.seen <= served'
               /\ p.step # "done" => Told(p.body, p.seen, p.edited)'
               /\ p.step = "done" => AnswerOK(p.answer)'
    BY <1>1, <1>6 DEF ConfigInv, PatchesInv
  <2>5. \A p \in patches' : p \in patches \/ p = n
    BY <1>1, <2>2
  <2> HIDE DEF new
  <2> QED
    BY <2>3, <2>4, <2>5 DEF PatchesInv
<1> QED
  BY <1>5, <1>7, <1>8 DEF ConfigInv

CountInv == configSent \in Nat /\ edited \subseteq ConfigKeys

\* The requests of the pane and its edits keep their kinds.
LEMMA CountNext ==
  ASSUME CountInv, [Config!Next]_(Config!serviceConfigVars)
  PROVE  CountInv'
<1>1. CASE Config!ReloadPage \/ Config!LeaveSection
  BY <1>1 DEF Config!ReloadPage, Config!LeaveSection, Config!Unmount, CountInv
<1>2. CASE Config!EnterSection \/ Config!Load
  <2>1. edited' = edited /\ (configSent' = configSent \/ configSent' = configSent + 1)
    BY <1>2 DEF Config!EnterSection, Config!Load, Config!SendLoad, Config!paneVars, Config!wireVars
  <2> QED
    BY <2>1 DEF CountInv
<1>3. CASE Config!Save \/ Config!SaveElsewhere
  <2>1. edited' = edited /\ configSent' = configSent + 1
    BY <1>3 DEF Config!Save, Config!SaveElsewhere, Config!SendPatch
  <2> QED
    BY <2>1 DEF CountInv
<1>4. ASSUME NEW k \in ConfigKeys, NEW v \in Values, Config!HandleChange(k, v)
      PROVE  CountInv'
  BY <1>4 DEF Config!HandleChange, Config!wireVars, CountInv
<1>5. ASSUME NEW r \in configLoads, Config!ServeLoad(r) \/ Config!LoadAnswer(r) \/ Config!LoadFails(r)
      PROVE  CountInv'
  BY <1>5 DEF Config!ServeLoad, Config!LoadAnswer, Config!LoadFails, Config!Show, Config!paneVars, CountInv
<1>6. ASSUME NEW r \in patches,
             Config!ServeSave(r) \/ Config!ServeApply(r) \/ Config!SaveAnswer(r) \/ Config!SaveFails(r)
      PROVE  CountInv'
  BY <1>6 DEF Config!ServeSave, Config!ServeApply, Config!SaveAnswer, Config!SaveFails, Config!Show,
              Config!paneVars, CountInv
<1>7. CASE Config!Restart \/ UNCHANGED Config!serviceConfigVars
  BY <1>7 DEF Config!Restart, Config!serviceConfigVars, Config!paneVars, Config!wireVars, CountInv
<1> QED
  BY <1>1, <1>2, <1>3, <1>4, <1>5, <1>6, <1>7 DEF Config!Next

\* Every step of the service, the pane and the other pages keeps the invariant.
LEMMA ConfigNext ==
  ConfigInv /\ CountInv /\ [Config!Next]_(Config!serviceConfigVars) => ConfigInv'
<1> SUFFICES ASSUME ConfigInv, CountInv, [Config!Next]_(Config!serviceConfigVars)
             PROVE  ConfigInv'
  OBVIOUS
<1>0. /\ \A r \in patches : PatchOK(r)
      /\ initial # None => AnswerOK(initial)
      /\ AnswerOK(Config!Tunable)
      /\ served \in Nat
  BY PatchesAre, TunableOK DEF ConfigInv, PageInv, ServerInv
<1>1. ASSUME Config!Unmount, initial' # None => AnswerOK(initial')
      PROVE  ConfigInv'
  <2>1. /\ config' = None /\ configLoads' = {} /\ UNCHANGED Config!serverVars
        /\ patches' = {[r EXCEPT !.mine = FALSE] : r \in {x \in patches : x.step # "done"}}
    BY <1>1 DEF Config!Unmount
  <2>2. PageInv'
    BY <1>1, <2>1, PaneKeeps
  <2>3. ASSUME NEW r \in patches
        PROVE  PatchOK([r EXCEPT !.mine = FALSE])
    BY <1>0 DEF PatchOK, PatchType
  <2> QED
    BY <2>1, <2>2, <2>3, WireKeeps
<1>2. CASE Config!ReloadPage
  BY <1>0, <1>1, <1>2 DEF Config!ReloadPage
<1>3. CASE Config!LeaveSection
  BY <1>0, <1>1, <1>3 DEF Config!LeaveSection
<1>4. CASE Config!EnterSection
  <2>1. /\ UNCHANGED Config!serverVars /\ initial' = initial /\ edited' = edited /\ patches' = patches
        /\ \/ config' = config /\ seen' = seen
           \/ initial # None /\ config' = initial.config /\ seen' = initial.seen
        /\ \A r \in configLoads' : r \in configLoads \/ r = [id |-> r.id, answer |-> None]
       
    BY <1>4 DEF Config!EnterSection, Config!SendLoad, Config!wireVars
  <2>2. PageInv'
    BY <1>0, <2>1, PaneKeeps
  <2> QED
    BY <1>0, <2>1, <2>2, WireKeeps
<1>5. CASE Config!Load
  <2>1. /\ UNCHANGED Config!serverVars /\ initial' = initial /\ edited' = edited /\ patches' = patches
        /\ config' = config /\ seen' = seen
        /\ \A r \in configLoads' : r \in configLoads \/ r = [id |-> r.id, answer |-> None]
       
    BY <1>5 DEF Config!Load, Config!SendLoad, Config!paneVars, Config!pageVars
  <2>2. PageInv'
    BY <1>0, <2>1, PaneKeeps
  <2> QED
    BY <1>0, <2>1, <2>2, WireKeeps
<1>6. CASE Config!Save
  <2>1. Told(config, seen, edited) /\ config \in Config!Overrides /\ seen \in Nat /\ seen <= served
    BY <1>6 DEF Config!Save, ConfigInv, PageInv, Config!Settings, Config!Overrides
  <2>2. PICK c, s, but : c = config /\ s = seen /\ but = edited
    OBVIOUS
  <2>3. Config!SendPatch(TRUE, c, but, s) /\ Told(c, s, but) /\ but \in SUBSET ConfigKeys
    BY <1>6, <2>1, <2>2 DEF Config!Save, CountInv
  <2> QED
    BY <2>1, <2>2, <2>3, SendKeeps DEF CountInv
<1>7. CASE Config!SaveElsewhere
  <2>1. PICK body \in Config!Overrides : Config!SendPatch(FALSE, body, Config!Given(body), 0)
    BY <1>7 DEF Config!SaveElsewhere
  <2>2. PICK keys : keys = Config!Given(body)
    OBVIOUS
  <2>3. Told(body, 0, keys) /\ keys \in SUBSET ConfigKeys
    BY <2>2 DEF Told, Config!Given
  <2>4. FALSE \in BOOLEAN /\ 0 \in Nat /\ 0 <= served /\ configSent \in Nat
    BY <1>0 DEF CountInv
  <2> QED
    BY <2>1, <2>2, <2>3, <2>4, SendKeeps
<1>8. ASSUME NEW k \in ConfigKeys, NEW v \in Values, Config!HandleChange(k, v)
      PROVE  ConfigInv'
  <2>1. /\ config # None /\ config' = [config EXCEPT ![k] = v] /\ edited' = edited \union {k}
        /\ UNCHANGED Config!serverVars /\ initial' = initial /\ seen' = seen
        /\ configLoads' = configLoads /\ patches' = patches
    BY <1>8 DEF Config!HandleChange, Config!Changed, Config!wireVars, Config!pageVars
  <2>2. config \in Config!Settings /\ seen \in Nat /\ seen <= served /\ Told(config, seen, edited)
    BY <2>1 DEF ConfigInv, PageInv
  <2>3. config' \in Config!Settings
    BY <2>1, <2>2 DEF Config!Settings
  <2>4. PICK c, s, but, i : c = config' /\ s = seen /\ but = edited' /\ i = initial
    OBVIOUS
  <2>5. Told(c, s, but)'
    <3>1. Told(c, s, but)
      BY <2>1, <2>2, <2>4 DEF Told, Config!Settings
    <3> QED
      BY <2>1, <3>1, SameServer
  <2>6. i # None => AnswerOK(i)'
    BY <1>0, <2>1, <2>4, SameServer
  <2>7. \A x \in configLoads :
          x = [id |-> x.id, answer |-> x.answer] /\ (x.answer # None => AnswerOK(x.answer)')
    BY <2>1, SameServer DEF ConfigInv, PageInv
  <2>8. served' = served
    BY <2>1, SameServer
  <2>9. PageInv'
    BY <2>1, <2>2, <2>3, <2>4, <2>5, <2>6, <2>7, <2>8 DEF PageInv, Told, AnswerOK
  <2> QED
    BY <1>0, <2>1, <2>9, WireKeeps
<1>9. ASSUME NEW r \in configLoads, Config!ServeLoad(r)
      PROVE  ConfigInv'
  <2>1. /\ configLoads' = (configLoads \ {r}) \union {[r EXCEPT !.answer = Config!Tunable]}
        /\ UNCHANGED Config!serverVars /\ initial' = initial /\ config' = config /\ seen' = seen
        /\ edited' = edited /\ patches' = patches
    BY <1>9 DEF Config!ServeLoad, Config!paneVars, Config!pageVars
  <2>2. r = [id |-> r.id, answer |-> r.answer]
    BY DEF ConfigInv, PageInv
  <2>3. PICK n : n = [r EXCEPT !.answer = Config!Tunable]
    OBVIOUS
  <2>4. n = [id |-> n.id, answer |-> Config!Tunable]
    BY <2>2, <2>3
  <2>5. \A x \in configLoads' : x \in configLoads \/ x = n
    BY <2>1, <2>3
  <2>6. PageInv'
    BY <1>0, <2>1, <2>4, <2>5, PaneKeeps
  <2> QED
    BY <1>0, <2>1, <2>6, WireKeeps
<1>10. ASSUME NEW r \in configLoads, Config!LoadAnswer(r) \/ Config!LoadFails(r)
       PROVE  ConfigInv'
  <2>1. /\ configLoads' = configLoads \ {r} /\ UNCHANGED Config!serverVars /\ initial' = initial
        /\ patches' = patches
        /\ \/ config' = config /\ seen' = seen /\ edited' = edited
           \/ r.answer # None /\ config' = r.answer.config /\ seen' = r.answer.seen
    BY <1>10 DEF Config!LoadAnswer, Config!LoadFails, Config!Show, Config!paneVars, Config!pageVars
  <2>2. r.answer # None => AnswerOK(r.answer)
    BY DEF ConfigInv, PageInv
  <2>3. PageInv'
    BY <1>0, <2>1, <2>2, PaneKeeps
  <2> QED
    BY <1>0, <2>1, <2>3, WireKeeps
<1>11. ASSUME NEW r \in patches, Config!SaveAnswer(r) \/ Config!SaveFails(r)
       PROVE  ConfigInv'
  <2>1. /\ patches' = patches \ {r} /\ UNCHANGED Config!serverVars /\ initial' = initial
        /\ configLoads' = configLoads
        /\ \/ config' = config /\ seen' = seen /\ edited' = edited
           \/ r.step = "done" /\ config' = r.answer.config /\ seen' = r.answer.seen
    BY <1>11 DEF Config!SaveAnswer, Config!SaveFails, Config!Show, Config!pageVars
  <2>2. r.step = "done" => AnswerOK(r.answer)
    BY <1>0 DEF PatchOK
  <2>3. PageInv'
    BY <1>0, <2>1, <2>2, PaneKeeps
  <2> QED
    BY <1>0, <2>1, <2>3, WireKeeps
<1>12. CASE UNCHANGED Config!serviceConfigVars
  <2>1. /\ UNCHANGED Config!serverVars /\ initial' = initial /\ config' = config /\ seen' = seen
        /\ edited' = edited /\ patches' = patches /\ configLoads' = configLoads
    BY <1>12 DEF Config!serviceConfigVars, Config!paneVars, Config!wireVars, Config!pageVars
  <2>2. PageInv'
    BY <1>0, <2>1, PaneKeeps
  <2> QED
    BY <1>0, <2>1, <2>2, WireKeeps
<1>13. ASSUME NEW r \in patches, Config!ServeSave(r) \/ Config!ServeApply(r)
       PROVE  ConfigInv'
  BY <1>13, SaveKeeps, ApplyKeeps
<1>14. CASE Config!Restart
  BY <1>14, RestartKeeps
<1> QED
  BY <1>2, <1>3, <1>4, <1>5, <1>6, <1>7, <1>8, <1>9, <1>10, <1>11, <1>12, <1>13, <1>14 DEF Config!Next

\* A step of the cockpit is one of the configuration, or none.
LEMMA ConfigStep == [Next]_vars => [Config!Next]_(Config!serviceConfigVars)
BY DEF Next, vars, ListSteps, ChartSteps, ModalSteps, RegimeSteps, MetricsSteps, AccountsSteps,
       ConfigSteps, configVars, Config!serviceConfigVars, Config!serverVars, Config!paneVars,
       Config!wireVars, Config!pageVars

\* So the invariant holds always.
LEMMA ConfigHolds == Spec => [](ConfigInv /\ CountInv)
<1>1. Init => ConfigInv /\ CountInv
  <2>1. Config!Init => CountInv
    BY DEF Config!Init, CountInv
  <2> QED
    BY <2>1, ConfigInit DEF Init
<1>2. ConfigInv /\ CountInv /\ [Next]_vars => (ConfigInv /\ CountInv)'
  BY ConfigNext, CountNext, ConfigStep
<1> QED
  BY <1>1, <1>2, PTL DEF Spec

-----------------------------------------------------------------------------
(* Who stored and who applied a setting last.                              *)

\* PATCHes have numbers of their own, up to that of the last request.
MarkInv ==
  /\ configSent \in Nat
  /\ savedBy \in [ConfigKeys -> Nat] /\ appliedBy \in [ConfigKeys -> Nat] /\ raced \subseteq ConfigKeys
  /\ \A k \in ConfigKeys : savedBy[k] <= configSent /\ appliedBy[k] <= configSent
  /\ \A r \in patches : r.id \in Nat /\ r.id <= configSent
  /\ \A r, p \in patches : r.id = p.id => r = p

Pends(r, k) == r.step = "saved" /\ r.body[k] # None

\* What a restart makes of setting k.
Restarted(k) == IF stored[k] = None THEN Default[k] ELSE stored[k]

\* A PATCH marks setting k when it stores it and when it applies it.
KeyInv(k) ==
  /\ \A r \in patches :
       /\ r.step = "sent" => savedBy[k] # r.id
       /\ r.step # "done" => appliedBy[k] # r.id
       /\ Pends(r, k) /\ savedBy[k] = r.id => stored[k] = r.body[k]
  /\ savedBy[k] = appliedBy[k] => applied[k] = Restarted(k)
  /\ k \notin raced =>
       /\ \A r, p \in patches : Pends(r, k) /\ Pends(p, k) => r = p
       /\ \A r \in patches : Pends(r, k) => savedBy[k] = r.id
       /\ (\A r \in patches : ~Pends(r, k)) => savedBy[k] = appliedBy[k]

OrderInv == \A k \in ConfigKeys : KeyInv(k)

LEMMA RestartedIs ==
  ASSUME NEW k \in ConfigKeys
  PROVE  Config!Effective(stored)[k] = Restarted(k)
BY DEF Config!Effective, Config!Over, Config!Given, Restarted

LEMMA PendingIs ==
  ASSUME NEW k \in ConfigKeys
  PROVE  Config!Pending(k) = {r \in patches : Pends(r, k)}
BY DEF Config!Pending, Config!Given, Pends

LEMMA RaceInit == Config!Init => MarkInv /\ OrderInv
<1> SUFFICES ASSUME Config!Init
             PROVE  MarkInv /\ OrderInv
  OBVIOUS
<1>1. /\ patches = {} /\ configSent = 0 /\ raced = {} /\ applied = Config!Effective(stored)
      /\ savedBy = [k \in ConfigKeys |-> 0] /\ appliedBy = [k \in ConfigKeys |-> 0]
  BY DEF Config!Init
<1>2. MarkInv
  BY <1>1 DEF MarkInv
<1>3. OrderInv
  BY <1>1, RestartedIs DEF OrderInv, KeyInv
<1> QED
  BY <1>2, <1>3

\* The server does nothing: PATCHes are sent, forgotten or answered.
LEMMA RaceSame ==
  ASSUME MarkInv, OrderInv, UNCHANGED Config!serverVars, configSent' \in Nat, configSent <= configSent',
         \A q \in patches' :
           \/ \E r \in patches : q.id = r.id /\ q.step = r.step /\ q.body = r.body
           \/ q.id \in Nat /\ configSent < q.id /\ q.id <= configSent' /\ q.step = "sent",
         \A q, x \in patches' : q.id = x.id => q = x,
         \A r \in patches : r.step = "saved" =>
           \E q \in patches' : q.id = r.id /\ q.step = r.step /\ q.body = r.body
  PROVE  MarkInv' /\ OrderInv'
<1>1. /\ stored' = stored /\ applied' = applied /\ savedBy' = savedBy /\ appliedBy' = appliedBy
      /\ raced' = raced
  BY DEF Config!serverVars
<1>2. ASSUME NEW q \in patches'
      PROVE  q.id \in Nat /\ q.id <= configSent'
  BY <1>2 DEF MarkInv
<1>3. ASSUME NEW k \in ConfigKeys
      PROVE  savedBy[k] \in Nat /\ appliedBy[k] \in Nat /\ savedBy[k] <= configSent' /\ appliedBy[k] <= configSent'
  BY <1>3 DEF MarkInv
<1>4. MarkInv'
  BY <1>1, <1>2, <1>3 DEF MarkInv
<1>5. ASSUME NEW k \in ConfigKeys
      PROVE  KeyInv(k)'
  <2>1. KeyInv(k)
    BY DEF OrderInv
  <2>2. ASSUME NEW q \in patches'
        PROVE  /\ q.step = "sent" => savedBy[k] # q.id
               /\ q.step # "done" => appliedBy[k] # q.id
               /\ Pends(q, k) /\ savedBy[k] = q.id => stored[k] = q.body[k]
    <3>1. CASE \E r \in patches : q.id = r.id /\ q.step = r.step /\ q.body = r.body
      BY <2>1, <3>1 DEF KeyInv, Pends
    <3>2. CASE q.id \in Nat /\ configSent < q.id /\ q.step = "sent"
      <4>1. savedBy[k] # q.id /\ appliedBy[k] # q.id
        BY <3>2 DEF MarkInv
      <4> QED
        BY <3>2, <4>1 DEF Pends
    <3> QED
      BY <3>1, <3>2
  <2>3. \A q \in patches' : Pends(q, k) => \E r \in patches : q.id = r.id /\ Pends(r, k)
    BY DEF Pends
  <2>4. \A r \in patches : Pends(r, k) => \E q \in patches' : q.id = r.id /\ Pends(q, k)
    BY DEF Pends
  <2>5. k \notin raced =>
          /\ \A q, x \in patches' : Pends(q, k) /\ Pends(x, k) => q = x
          /\ \A q \in patches' : Pends(q, k) => savedBy[k] = q.id
          /\ (\A q \in patches' : ~Pends(q, k)) => savedBy[k] = appliedBy[k]
    BY <2>1, <2>3, <2>4 DEF KeyInv
  <2> QED
    BY <1>1, <2>1, <2>2, <2>5 DEF KeyInv, Pends, Restarted
<1> QED
  BY <1>4, <1>5 DEF OrderInv

\* save_overrides marks what it is given; of two PATCHes that wait it is a race.
LEMMA RaceSave ==
  ASSUME ConfigInv, MarkInv, OrderInv, NEW r \in patches, Config!ServeSave(r)
  PROVE  MarkInv' /\ OrderInv'
<1>1. PICK n : n = [r EXCEPT !.step = "saved"]
  OBVIOUS
<1>2. /\ r.step = "sent" /\ stored' = Config!Over(r.body, stored)
      /\ savedBy' = Config!Marked(savedBy, Config!Given(r.body), r.id)
      /\ raced' = (raced \ Config!Given(r.body)) \union {k \in Config!Given(r.body) : Config!Pending(k) # {}}
      /\ patches' = (patches \ {r}) \union {n}
      /\ applied' = applied /\ appliedBy' = appliedBy /\ configSent' = configSent
  BY <1>1 DEF Config!ServeSave, Config!Upserted
<1>3. n.id = r.id /\ n.step = "saved" /\ n.body = r.body
  BY <1>1 DEF ConfigInv, PatchesInv, PatchType
<1>4. /\ \A k \in ConfigKeys : savedBy'[k] = IF r.body[k] # None THEN r.id ELSE savedBy[k]
      /\ \A k \in ConfigKeys : stored'[k] = IF r.body[k] # None THEN r.body[k] ELSE stored[k]
      /\ \A k \in ConfigKeys : k \in raced' <=>
           IF r.body[k] # None THEN \E p \in patches : Pends(p, k) ELSE k \in raced
      /\ raced' \subseteq ConfigKeys
  BY <1>2, PendingIs DEF Config!Marked, Config!Over, Config!Given, MarkInv
<1>5. savedBy' \in [ConfigKeys -> Nat] /\ \A k \in ConfigKeys : savedBy'[k] <= configSent
  BY <1>2, <1>4 DEF MarkInv, Config!Marked
<1>6. \A p \in patches : p.id = r.id => p = r
  BY DEF MarkInv
<1>7. MarkInv'
  <2>1. \A q, x \in patches' : q.id = x.id => q = x
    BY <1>2, <1>3, <1>6 DEF MarkInv
  <2>2. \A q \in patches' : q.id \in Nat /\ q.id <= configSent
    BY <1>2, <1>3 DEF MarkInv
  <2> QED
    BY <1>2, <1>4, <1>5, <2>1, <2>2 DEF MarkInv
<1>8. ASSUME NEW k \in ConfigKeys
      PROVE  KeyInv(k)'
  <2>1. KeyInv(k)
    BY DEF OrderInv
  <2>2. \A p \in patches' : p = n \/ (p \in patches /\ p # r /\ p.id # r.id)
    BY <1>2, <1>6
  <2>3. savedBy[k] # r.id /\ appliedBy[k] # r.id
    BY <1>2, <2>1 DEF KeyInv
  <2>4. CASE r.body[k] = None
    <3>1. stored'[k] = stored[k] /\ savedBy'[k] = savedBy[k] /\ (k \in raced' <=> k \in raced) /\ ~Pends(n, k)
      BY <1>3, <1>4, <2>4 DEF Pends
    <3>2. \A p \in patches : Pends(p, k) => p \in patches'
      BY <1>2 DEF Pends
    <3> QED
      BY <1>2, <1>3, <2>1, <2>2, <2>3, <3>1, <3>2 DEF KeyInv, Restarted, Pends
  <2>5. CASE r.body[k] # None
    <3>1. stored'[k] = r.body[k] /\ savedBy'[k] = r.id /\ (k \in raced' <=> \E p \in patches : Pends(p, k)) /\ Pends(n, k)
      BY <1>3, <1>4, <2>5 DEF Pends
    <3>2. n \in patches'
      BY <1>2
    <3>3. \A p \in patches' : /\ p.step = "sent" => savedBy'[k] # p.id
                              /\ p.step # "done" => appliedBy'[k] # p.id
                              /\ Pends(p, k) /\ savedBy'[k] = p.id => stored'[k] = p.body[k]
      BY <1>2, <1>3, <2>1, <2>2, <2>3, <3>1 DEF KeyInv
    <3>4. k \notin raced' =>
            /\ \A p, q \in patches' : Pends(p, k) /\ Pends(q, k) => p = q
            /\ \A p \in patches' : Pends(p, k) => savedBy'[k] = p.id
      BY <1>3, <2>2, <3>1
    <3> QED
      BY <1>2, <2>3, <3>1, <3>2, <3>3, <3>4 DEF KeyInv, Pends
  <2> QED
    BY <2>4, <2>5
<1> QED
  BY <1>7, <1>8 DEF OrderInv

\* Applied, a PATCH waits no more.
LEMMA RaceApply ==
  ASSUME ConfigInv, MarkInv, OrderInv, NEW r \in patches, Config!ServeApply(r)
  PROVE  MarkInv' /\ OrderInv'
<1>1. PICK n : n = [r EXCEPT !.step = "done", !.answer = [config |-> applied', seen |-> served']]
  OBVIOUS
<1>2. /\ r.step = "saved" /\ applied' = Config!Over(r.body, applied)
      /\ appliedBy' = Config!Marked(appliedBy, Config!Given(r.body), r.id)
      /\ \A p \in patches' : p = n \/ (p \in patches /\ p # r)
      /\ \A p \in patches : p = r \/ p \in patches'
      /\ stored' = stored /\ savedBy' = savedBy /\ raced' = raced /\ configSent' = configSent
  BY <1>1 DEF Config!ServeApply, Config!Become
<1>3. n.id = r.id /\ n.step = "done"
  BY <1>1 DEF ConfigInv, PatchesInv, PatchType
<1>4. /\ \A k \in ConfigKeys : appliedBy'[k] = IF r.body[k] # None THEN r.id ELSE appliedBy[k]
      /\ \A k \in ConfigKeys : applied'[k] = IF r.body[k] # None THEN r.body[k] ELSE applied[k]
  BY <1>2 DEF Config!Marked, Config!Over, Config!Given
<1>5. appliedBy' \in [ConfigKeys -> Nat] /\ \A k \in ConfigKeys : appliedBy'[k] <= configSent
  BY <1>2, <1>4 DEF MarkInv, Config!Marked
<1>6. \A p \in patches : p.id = r.id => p = r
  BY DEF MarkInv
<1>7. MarkInv'
  <2>1. \A q, x \in patches' : q.id = x.id => q = x
    BY <1>2, <1>3, <1>6 DEF MarkInv
  <2>2. \A q \in patches' : q.id \in Nat /\ q.id <= configSent
    BY <1>2, <1>3 DEF MarkInv
  <2> QED
    BY <1>2, <1>5, <2>1, <2>2 DEF MarkInv
<1>8. ASSUME NEW k \in ConfigKeys
      PROVE  KeyInv(k)'
  <2>1. KeyInv(k)
    BY DEF OrderInv
  <2>2. \A p \in patches' : p = n \/ (p \in patches /\ p # r /\ p.id # r.id)
    BY <1>2, <1>6
  <2>3. ~Pends(n, k)
    BY <1>3 DEF Pends
  <2>4. CASE r.body[k] = None
    <3>1. applied'[k] = applied[k] /\ appliedBy'[k] = appliedBy[k] /\ ~Pends(r, k)
      BY <1>4, <2>4 DEF Pends
    <3> QED
      BY <1>2, <1>3, <2>1, <2>2, <2>3, <3>1 DEF KeyInv, Restarted, Pends
  <2>5. CASE r.body[k] # None
    <3>1. applied'[k] = r.body[k] /\ appliedBy'[k] = r.id /\ Pends(r, k)
      BY <1>2, <1>4, <2>5 DEF Pends
    <3>2. \A p \in patches' : /\ p.step = "sent" => savedBy[k] # p.id
                              /\ p.step # "done" => appliedBy'[k] # p.id
                              /\ Pends(p, k) /\ savedBy[k] = p.id => stored[k] = p.body[k]
      BY <1>3, <2>1, <2>2, <2>3, <3>1 DEF KeyInv
    <3>3. savedBy[k] = r.id => applied'[k] = Restarted(k)
      BY <2>1, <2>5, <3>1 DEF KeyInv, Restarted
    <3>4. k \notin raced => savedBy[k] = r.id /\ \A p \in patches' : ~Pends(p, k)
      BY <2>1, <2>2, <2>3, <3>1 DEF KeyInv
    <3> QED
      BY <1>2, <3>1, <3>2, <3>3, <3>4 DEF KeyInv, Restarted, Pends
  <2> QED
    BY <2>4, <2>5
<1> QED
  BY <1>7, <1>8 DEF OrderInv

\* After a restart nobody waits, and what is stored is applied.
LEMMA RaceRestart ==
  ASSUME MarkInv, OrderInv, Config!Restart
  PROVE  MarkInv' /\ OrderInv'
<1>1. /\ applied' = Config!Effective(stored) /\ appliedBy' = savedBy /\ raced' = {}
      /\ patches' = {r \in patches : r.step = "done"}
      /\ stored' = stored /\ savedBy' = savedBy /\ configSent' = configSent
  BY DEF Config!Restart, Config!Become
<1>2. MarkInv'
  BY <1>1 DEF MarkInv
<1>3. \A k \in ConfigKeys : applied'[k] = Restarted(k)
  BY <1>1, RestartedIs
<1>4. OrderInv'
  BY <1>1, <1>3 DEF OrderInv, KeyInv, Pends, Restarted
<1> QED
  BY <1>2, <1>4

\* Every step of the service, the pane and the other pages keeps the marks.
LEMMA RaceNext ==
  ASSUME ConfigInv, MarkInv, OrderInv, [Config!Next]_(Config!serviceConfigVars)
  PROVE  MarkInv' /\ OrderInv'
<1>0. /\ configSent \in Nat /\ \A r, p \in patches : r.id = p.id => r = p
      /\ \A r \in patches : r \in PatchType /\ r.id \in Nat /\ r.id <= configSent
  BY DEF MarkInv, ConfigInv, PatchesInv
<1>1. ASSUME UNCHANGED Config!serverVars, patches' = patches, configSent' \in {configSent, configSent + 1}
      PROVE  MarkInv' /\ OrderInv'
  <2>1. configSent' \in Nat /\ configSent <= configSent'
    BY <1>0, <1>1
  <2> QED
    BY <1>0, <1>1, <2>1, RaceSame
<1>2. ASSUME Config!Unmount
      PROVE  MarkInv' /\ OrderInv'
  <2>1. /\ UNCHANGED Config!serverVars /\ configSent' = configSent
        /\ patches' = {[r EXCEPT !.mine = FALSE] : r \in {x \in patches : x.step # "done"}}
    BY <1>2 DEF Config!Unmount
  <2>2. \A r \in patches : [r EXCEPT !.mine = FALSE].id = r.id /\ [r EXCEPT !.mine = FALSE].step = r.step
                           /\ [r EXCEPT !.mine = FALSE].body = r.body
    BY <1>0 DEF PatchType
  <2>3. \A q \in patches' : \E r \in patches : q = [r EXCEPT !.mine = FALSE] /\ q.id = r.id
                                               /\ q.step = r.step /\ q.body = r.body
    BY <2>1, <2>2
  <2>4. \A r \in patches : r.step = "saved" => \E q \in patches' : q.id = r.id /\ q.step = r.step /\ q.body = r.body
    BY <2>1, <2>2
  <2>5. ASSUME NEW q \in patches', NEW x \in patches', q.id = x.id
        PROVE  q = x
    <3>1. PICK r \in patches : q = [r EXCEPT !.mine = FALSE] /\ q.id = r.id
      BY <2>3
    <3>2. PICK p \in patches : x = [p EXCEPT !.mine = FALSE] /\ x.id = p.id
      BY <2>3
    <3>3. r = p
      BY <1>0, <2>5, <3>1, <3>2
    <3> QED
      BY <3>1, <3>2, <3>3
  <2> QED
    BY <1>0, <2>1, <2>3, <2>4, <2>5, RaceSame
<1>3. ASSUME NEW mine, NEW body, NEW keys, NEW told, Config!SendPatch(mine, body, keys, told)
      PROVE  MarkInv' /\ OrderInv'
  <2>1. PICK n : n = [id |-> configSent + 1, mine |-> mine, body |-> body, edited |-> keys,
                      seen |-> told, step |-> "sent", answer |-> None]
    OBVIOUS
  <2>2. /\ configSent' = configSent + 1 /\ patches' = patches \union {n} /\ UNCHANGED Config!serverVars
    BY <1>3, <2>1 DEF Config!SendPatch
  <2>3. n.id = configSent + 1 /\ n.step = "sent"
    BY <2>1
  <2>4. \A q, x \in patches' : q.id = x.id => q = x
    BY <1>0, <2>2, <2>3
  <2>5. configSent' \in Nat /\ configSent <= configSent' /\ n.id \in Nat /\ configSent < n.id /\ n.id <= configSent'
    BY <1>0, <2>2, <2>3
  <2> QED
    BY <2>2, <2>3, <2>4, <2>5, RaceSame
<1>4. ASSUME NEW r \in patches, r.step # "saved", patches' = patches \ {r}, UNCHANGED Config!serverVars,
             configSent' = configSent
      PROVE  MarkInv' /\ OrderInv'
  BY <1>0, <1>4, RaceSame
<1>5. CASE Config!ReloadPage \/ Config!LeaveSection
  BY <1>2, <1>5 DEF Config!ReloadPage, Config!LeaveSection
<1>6. CASE Config!EnterSection \/ Config!Load
  BY <1>1, <1>6 DEF Config!EnterSection, Config!Load, Config!SendLoad, Config!wireVars
<1>7. CASE Config!Save \/ Config!SaveElsewhere
  BY <1>3, <1>7 DEF Config!Save, Config!SaveElsewhere
<1>8. ASSUME NEW k \in ConfigKeys, NEW v \in Values, Config!HandleChange(k, v)
      PROVE  MarkInv' /\ OrderInv'
  BY <1>1, <1>8 DEF Config!HandleChange, Config!wireVars
<1>9. ASSUME NEW r \in configLoads, Config!ServeLoad(r) \/ Config!LoadAnswer(r) \/ Config!LoadFails(r)
      PROVE  MarkInv' /\ OrderInv'
  BY <1>1, <1>9 DEF Config!ServeLoad, Config!LoadAnswer, Config!LoadFails
<1>10. ASSUME NEW r \in patches, Config!SaveAnswer(r) \/ Config!SaveFails(r)
       PROVE  MarkInv' /\ OrderInv'
  <2>1. r.step # "saved" /\ patches' = patches \ {r} /\ UNCHANGED Config!serverVars /\ configSent' = configSent
    BY <1>10 DEF Config!SaveAnswer, Config!SaveFails
  <2> QED
    BY <1>4, <2>1
<1>11. ASSUME NEW r \in patches, Config!ServeSave(r) \/ Config!ServeApply(r)
       PROVE  MarkInv' /\ OrderInv'
  BY <1>11, RaceSave, RaceApply
<1>12. CASE Config!Restart
  BY <1>12, RaceRestart
<1>13. CASE UNCHANGED Config!serviceConfigVars
  BY <1>1, <1>13 DEF Config!serviceConfigVars, Config!wireVars
<1> QED
  BY <1>5, <1>6, <1>7, <1>8, <1>9, <1>10, <1>11, <1>12, <1>13 DEF Config!Next

LEMMA RaceHolds == Spec => [](MarkInv /\ OrderInv)
<1>1. Init => MarkInv /\ OrderInv
  BY RaceInit DEF Init
<1>2. ConfigInv /\ MarkInv /\ OrderInv /\ [Next]_vars => (MarkInv /\ OrderInv)'
  BY RaceNext, ConfigStep
<1> QED
  BY <1>1, <1>2, ConfigHolds, PTL DEF Spec

(***************************************************************************)
(* patch_config stores what it is given and then, after an await, applies  *)
(* it: a setting that was last stored and last applied by one PATCH is     *)
(* what a restart would come to, whichever settings the PATCHes gave; only *)
(* while one waits, or after two waited at once, are these two PATCHes.    *)
(***************************************************************************)
THEOREM SettingsSurviveRestart == Spec => []SavedIsApplied
<1>1. MarkInv /\ OrderInv => SavedIsApplied
  <2> SUFFICES ASSUME MarkInv, OrderInv, NEW k \in ConfigKeys
               PROVE  /\ savedBy[k] = appliedBy[k] => applied[k] = Config!Effective(stored)[k]
                      /\ savedBy[k] # appliedBy[k] => k \in raced \/ Config!Pending(k) # {}
    BY DEF SavedIsApplied, Config!SavedIsApplied
  <2>1. KeyInv(k)
    BY DEF OrderInv
  <2> QED
    BY <2>1, RestartedIs, PendingIs DEF KeyInv
<1> QED
  BY <1>1, RaceHolds, PTL

(***************************************************************************)
(* ServiceConfigPane stores all the settings it shows.  Still a PATCH      *)
(* changes a setting that its user did not edit only when that setting was *)
(* changed after the answer the pane was showing.                          *)
(***************************************************************************)
THEOREM OnlyEditsAreSaved == Spec => SavesOnlyEdits
<1>1. ASSUME ConfigInv, NEW r \in patches, Config!ServeApply(r),
             NEW k \in ConfigKeys, applied'[k] # applied[k]
      PROVE  k \in r.edited \/ version[k] > r.seen
  <2>1. r.step = "saved" /\ applied' = Config!Over(r.body, applied)
    BY <1>1 DEF Config!ServeApply, Config!Become
  <2>2. Told(r.body, r.seen, r.edited)
    BY <1>1, <2>1 DEF ConfigInv, PatchesInv
  <2>3. r.body[k] \notin {None, applied[k]}
    BY <1>1, <2>1 DEF Config!Over, Config!Given
  <2> QED
    BY <2>2, <2>3 DEF Told
<1> DEFINE Honest ==
      \A r \in patches : Config!ServeApply(r) =>
        \A k \in ConfigKeys : applied'[k] # applied[k] => k \in r.edited \/ version[k] > r.seen
<1>2. ConfigInv /\ [Config!Next]_(Config!serviceConfigVars) => [Honest]_(Config!serviceConfigVars)
  BY <1>1
<1>3. ConfigInv /\ [Next]_vars => [Honest]_(Config!serviceConfigVars)
  BY <1>2, ConfigStep
<1> QED
  BY <1>3, ConfigHolds, PTL DEF Spec, SavesOnlyEdits, Config!SavesOnlyEdits

-----------------------------------------------------------------------------
(* The chart.                                                              *)

\* The request that counts is for the selection, and while it is on the way
\* nothing is drawn as candles.
LatestInv ==
  /\ current \in Nat
  /\ \A r \in chartAsks : r.id \in Nat /\ r.id <= current /\ r = [id |-> r.id, key |-> r.key]
  /\ \A r \in chartAsks : r.id = current => r.key = key /\ candles = None /\ legend = None /\ busy /\ ~failed
  /\ candles \in {None, key}

\* A chart that has loaded, its frames apart.
LoadedInv ==
  ~busy /\ ~failed =>
    /\ candles = key /\ data = key
    /\ overlays = Chart!OverlaysOf(key, vis)
    /\ legend \in {None, key}
    /\ frames = <<>> => (profile # None => "vp" \in vis /\ profile.key = key)
    /\ frames # <<>> => frames[Len(frames)] = key

ChartInv == LatestInv /\ frames \in Seq(Chart!Keys) /\ key \in Chart!Keys /\ LoadedInv

\* The first chart is asked for, and nothing drawn.
LEMMA ChartInit == Chart!Init => ChartInv
<1> SUFFICES ASSUME Chart!Init
             PROVE  ChartInv
  OBVIOUS
<1>1. key \in Chart!Keys
  BY CockpitViewsAssumption DEF Chart!Init, Chart!Keys, Chart!DailyChartAssumption
<1>2. frames = <<>> /\ busy = TRUE /\ failed = FALSE
  BY DEF Chart!Init
<1>3. frames \in Seq(Chart!Keys)
  BY <1>2
<1>4. LatestInv
  BY DEF Chart!Init, LatestInv
<1> QED
  BY <1>1, <1>2, <1>3, <1>4 DEF ChartInv, LoadedInv

\* What refreshVP draws is of the bars of dataRef.
LEMMA RefreshIs ==
  ASSUME NEW on, Chart!RefreshVP(on), profile' # None
  PROVE  "vp" \in on /\ profile'.key = data
BY DEF Chart!RefreshVP, Chart!DrawVP

\* Every step of the chart keeps the invariant.
LEMMA ChartNext ==
  ASSUME ChartInv, [Chart!Next]_(Chart!dailyChartVars)
  PROVE  ChartInv'
<1>0. frames \in Seq(Chart!Keys) /\ current \in Nat /\ key \in Chart!Keys
  BY DEF ChartInv, LatestInv
<1>1. ASSUME NEW k \in Chart!Keys, Chart!Select(k)
      PROVE  ChartInv'
  <2>1. /\ key' = k /\ current' = current + 1 /\ busy' = TRUE /\ failed' = FALSE /\ candles' = None /\ legend' = None
        /\ chartAsks' = chartAsks \union {[id |-> current', key |-> k]} /\ frames' = frames
    BY <1>1 DEF Chart!Select
  <2>2. ASSUME NEW r \in chartAsks'
        PROVE  /\ r.id \in Nat /\ r.id <= current' /\ r = [id |-> r.id, key |-> r.key]
               /\ r.id = current' => r.key = k
    <3>1. CASE r \in chartAsks
      <4>1. r.id \in Nat /\ r.id <= current /\ r = [id |-> r.id, key |-> r.key]
        BY <3>1 DEF ChartInv, LatestInv
      <4> QED
        BY <1>0, <2>1, <4>1
    <3>2. CASE r = [id |-> current', key |-> k]
      <4>1. r.id = current' /\ r.key = k
        BY <3>2
      <4> QED
        BY <1>0, <2>1, <3>2, <4>1
    <3> QED
      BY <2>1, <3>1, <3>2
  <2>3. LatestInv'
    BY <1>0, <2>1, <2>2 DEF LatestInv
  <2> QED
    BY <1>0, <2>1, <2>3 DEF ChartInv, LoadedInv
<1>2. ASSUME NEW r \in chartAsks, Chart!Answer(r)
      PROVE  ChartInv'
  <2>1. /\ chartAsks' = chartAsks \ {r} /\ key' = key /\ vis' = vis /\ failed' = failed
        /\ legend' = legend /\ profile' = profile /\ current' = current
    BY <1>2 DEF Chart!Answer
  <2>2. CASE r.id = current
    <3>1. r.key = key /\ ~failed /\ candles = None
      BY <2>2 DEF ChartInv, LatestInv
    <3>2. /\ data' = key /\ candles' = key /\ overlays' = Chart!OverlaysOf(key, vis)
          /\ frames' = Append(frames, key) /\ busy' = FALSE
      BY <1>2, <2>2, <3>1 DEF Chart!Answer, Chart!Live
    <3>3. /\ frames' \in Seq(Chart!Keys) /\ frames' # <<>> /\ frames'[Len(frames')] = key
      BY <1>0, <3>2
    <3>4. \A q \in chartAsks' : q.id # current
      BY <2>1, <2>2, <3>1 DEF ChartInv, LatestInv
    <3>5. LatestInv'
      BY <1>0, <2>1, <3>2, <3>4 DEF ChartInv, LatestInv
    <3>6. legend \in {None, key}
      BY <2>2 DEF ChartInv, LatestInv
    <3>7. overlays' = Chart!OverlaysOf(key', vis')
      BY <2>1, <3>2
    <3>8. LoadedInv'
      BY <2>1, <3>2, <3>3, <3>6, <3>7 DEF LoadedInv, Chart!OverlaysOf
    <3> QED
      BY <1>0, <2>1, <3>3, <3>5, <3>8 DEF ChartInv
  <2>3. CASE r.id # current
    <3>1. UNCHANGED <<data, candles, overlays, frames, busy>>
      BY <1>2, <2>3 DEF Chart!Answer, Chart!Live
    <3>2. LatestInv'
      BY <2>1, <3>1 DEF ChartInv, LatestInv
    <3>3. LoadedInv'
      BY <2>1, <3>1 DEF ChartInv, LoadedInv, Chart!OverlaysOf
    <3> QED
      BY <2>1, <3>1, <3>2, <3>3 DEF ChartInv
  <2> QED
    BY <2>2, <2>3
<1>3. ASSUME NEW r \in chartAsks, Chart!Fail(r)
      PROVE  ChartInv'
  <2>1. /\ chartAsks' = chartAsks \ {r}
        /\ UNCHANGED <<key, vis, legend, candles, overlays, data, profile, frames, current>>
    BY <1>3 DEF Chart!Fail
  <2>2. CASE r.id = current
    <3>1. failed' = TRUE
      BY <1>3, <2>2 DEF Chart!Fail, Chart!Live
    <3>2. \A q \in chartAsks' : q.id # current
      BY <2>1, <2>2 DEF ChartInv, LatestInv
    <3>3. LatestInv'
      BY <2>1, <3>2 DEF ChartInv, LatestInv
    <3> QED
      BY <2>1, <3>1, <3>3 DEF ChartInv, LoadedInv
  <2>3. CASE r.id # current
    <3>1. failed' = failed /\ busy' = busy
      BY <1>3, <2>3 DEF Chart!Fail, Chart!Live
    <3>2. LatestInv'
      BY <2>1, <3>1 DEF ChartInv, LatestInv
    <3>3. LoadedInv'
      BY <2>1, <3>1 DEF ChartInv, LoadedInv, Chart!OverlaysOf
    <3> QED
      BY <2>1, <3>2, <3>3 DEF ChartInv
  <2> QED
    BY <2>2, <2>3
<1>4. ASSUME NEW i \in Chart!Indicators, Chart!Toggle(i)
      PROVE  ChartInv'
  <2>1. /\ overlays' = Chart!OverlaysOf(data, vis') /\ Chart!RefreshVP(vis')
        /\ UNCHANGED <<key, busy, failed, legend, candles, data, frames, chartAsks, current>>
    BY <1>4 DEF Chart!Toggle
  <2>2. PICK on : on = vis'
    OBVIOUS
  <2>3. profile' # None => "vp" \in on /\ profile'.key = data
    BY <2>1, <2>2, RefreshIs
  <2>4. LatestInv'
    BY <2>1 DEF ChartInv, LatestInv
  <2>5. LoadedInv'
    BY <2>1, <2>2, <2>3 DEF ChartInv, LoadedInv, Chart!OverlaysOf
  <2> QED
    BY <2>1, <2>4, <2>5 DEF ChartInv
<1>5. CASE Chart!Frame
  <2>1. /\ frames # <<>> /\ frames' = Tail(frames) /\ profile' = Chart!WholeVP(Head(frames), vis)
        /\ UNCHANGED <<key, vis, busy, failed, legend, candles, overlays, data, chartAsks, current>>
    BY <1>5 DEF Chart!Frame
  <2>2. /\ frames' \in Seq(Chart!Keys) /\ Head(frames) = frames[1] /\ Len(frames') = Len(frames) - 1
        /\ Len(frames) \in Nat \ {0}
        /\ \A k \in 1 .. Len(frames') : frames'[k] = frames[k + 1]
    BY <1>0, <2>1
  <2>3. frames' = <<>> => Len(frames) = 1
    BY <2>2
  <2>4. frames' # <<>> => frames'[Len(frames')] = frames[Len(frames)]
    <3>1. frames' # <<>> => Len(frames') \in 1 .. Len(frames')
      BY <2>2
    <3> QED
      BY <2>2, <3>1
  <2>5. profile' # None => "vp" \in vis /\ profile'.key = Head(frames)
    BY <2>1 DEF Chart!WholeVP, Chart!DrawVP
  <2>6. LatestInv'
    BY <2>1 DEF ChartInv, LatestInv
  <2>7. LoadedInv'
    BY <2>1, <2>2, <2>3, <2>4, <2>5 DEF ChartInv, LoadedInv, Chart!OverlaysOf
  <2> QED
    BY <2>1, <2>2, <2>6, <2>7 DEF ChartInv
<1>6. CASE Chart!Redraw
  <2>1. /\ Chart!RefreshVP(vis)
        /\ UNCHANGED <<key, vis, busy, failed, legend, candles, overlays, data, frames, chartAsks, current>>
    BY <1>6 DEF Chart!Redraw
  <2>2. profile' # None => "vp" \in vis /\ profile'.key = data
    <3>1. PICK on : on = vis
      OBVIOUS
    <3> QED
      BY <2>1, <3>1, RefreshIs
  <2>3. LatestInv'
    BY <2>1 DEF ChartInv, LatestInv
  <2>4. LoadedInv'
    BY <2>1, <2>2 DEF ChartInv, LoadedInv, Chart!OverlaysOf
  <2> QED
    BY <2>1, <2>3, <2>4 DEF ChartInv
<1>7. CASE Chart!Hover
  <2>1. /\ legend' \in {None, candles}
        /\ UNCHANGED <<key, vis, busy, failed, candles, overlays, data, profile, frames, chartAsks, current>>
    BY <1>7 DEF Chart!Hover
  <2>2. LatestInv'
    BY <2>1 DEF ChartInv, LatestInv
  <2>3. LoadedInv'
    BY <2>1 DEF ChartInv, LoadedInv, Chart!OverlaysOf
  <2> QED
    BY <2>1, <2>2, <2>3 DEF ChartInv
<1>8. CASE UNCHANGED Chart!dailyChartVars
  BY <1>8 DEF Chart!dailyChartVars, ChartInv, LatestInv, LoadedInv, Chart!OverlaysOf
<1> QED
  BY <1>1, <1>2, <1>3, <1>4, <1>5, <1>6, <1>7, <1>8 DEF Chart!Next

\* A step of the cockpit is one of the chart, or none.
LEMMA ChartStep == [Next]_vars => [Chart!Next]_(Chart!dailyChartVars)
BY DEF Next, vars, ListSteps, ChartSteps, ModalSteps, RegimeSteps, MetricsSteps, AccountsSteps,
       ConfigSteps, chartVars, Chart!dailyChartVars

\* So the invariant holds always.
LEMMA ChartHolds == Spec => []ChartInv
<1>1. Init => ChartInv
  BY ChartInit DEF Init
<1>2. ChartInv /\ [Next]_vars => ChartInv'
  BY ChartNext, ChartStep
<1> QED
  BY <1>1, <1>2, PTL DEF Spec

(***************************************************************************)
(* useDailyChart: on a chart that has loaded, the averages, the volumes,   *)
(* the legend and, once the animation frames are drawn, the profile are of *)
(* the bars of the candles, whatever was selected, toggled, redrawn and    *)
(* answered before.                                                        *)
(***************************************************************************)
THEOREM LoadedChartAgrees == Spec => []ChartAgrees
<1>1. ChartInv => ChartAgrees
  BY DEF ChartInv, LoadedInv, ChartAgrees, Chart!ChartAgrees
<1> QED
  BY <1>1, ChartHolds, PTL

(***************************************************************************)
(* The chart implements LatestAnswer: it draws the bars of the selection,  *)
(* or nothing; an answer that a new selection has overtaken is not drawn.  *)
(***************************************************************************)
THEOREM ChartImplementsLatestAnswer == Spec => ImplementsLatestAnswer
<1>1. Init => Chart!Latest!Init
  <2>1. Init => key \in Chart!Keys /\ candles = None
    BY CockpitViewsAssumption DEF Init, Chart!Init, Chart!Keys, Chart!DailyChartAssumption
  <2> QED
    BY <2>1 DEF Chart!Latest!Init
<1>2. ASSUME ChartInv, [Chart!Next]_(Chart!dailyChartVars)
      PROVE  [Chart!Latest!Next]_<<key, candles>>
  <2>1. ASSUME NEW k \in Chart!Keys, Chart!Select(k)
        PROVE  Chart!Latest!Ask(k)
    BY <2>1 DEF Chart!Select, Chart!Latest!Ask
  <2>2. ASSUME NEW r \in chartAsks, Chart!Answer(r)
        PROVE  Chart!Latest!Show \/ UNCHANGED <<key, candles>>
    BY <1>2, <2>2 DEF Chart!Answer, Chart!Live, Chart!Latest!Show, ChartInv, LatestInv
  <2>3. ASSUME NEW r \in chartAsks, Chart!Fail(r)
        PROVE  UNCHANGED <<key, candles>>
    BY <2>3 DEF Chart!Fail
  <2>4. ASSUME NEW i \in Chart!Indicators, Chart!Toggle(i)
        PROVE  UNCHANGED <<key, candles>>
    BY <2>4 DEF Chart!Toggle
  <2>5. CASE Chart!Frame \/ Chart!Redraw \/ Chart!Hover \/ UNCHANGED Chart!dailyChartVars
    BY <2>5 DEF Chart!Frame, Chart!Redraw, Chart!Hover, Chart!dailyChartVars
  <2> QED
    BY <1>2, <2>1, <2>2, <2>3, <2>4, <2>5 DEF Chart!Next, Chart!Latest!Next
<1>3. ChartInv /\ [Next]_vars => [Chart!Latest!Next]_<<key, candles>>
  BY <1>2, ChartStep
<1> QED
  BY <1>1, <1>3, ChartHolds, PTL DEF Spec, ImplementsLatestAnswer, Chart!ImplementsLatestAnswer, Chart!Latest!Spec

-----------------------------------------------------------------------------
(* The modal's chain panel.                                                *)

\* Requests in the order of their ids: the one for the list comes alone and
\* first, and the newest one for a chain is for the expiry selected.
AsksInv ==
  /\ sent \in Nat
  /\ \A r \in asks : r.id \in Nat /\ r.id <= sent
  /\ \A r \in asks : r.id = sent => r.expiry = selected
  /\ \A r \in asks : r.expiry = None => asks = {r}

\* No chain comes before its expiry was selected.
SelectedInv ==
  /\ symbol \in Symbols \union {None}
  /\ symbol = None => asks = {} /\ selected = None /\ chain = None
  /\ selected = None => chain = None /\ \A r \in asks : r.expiry = None
  /\ selected # None => \A r \in asks : r.expiry # None

\* What an answer leaves.
ShownInv ==
  chain # None /\ ~loading /\ chain # selected => crossed \/ error

StrikesInv ==
  chain # None /\ ~loading /\ ~error /\ chain # selected => crossed

ModalInv == AsksInv /\ SelectedInv /\ ShownInv /\ StrikesInv

\* No modal is open yet.
LEMMA ModalInit == Modal!Init => ModalInv
BY DEF Modal!Init, ModalInv, AsksInv, SelectedInv, ShownInv, StrikesInv

\* The next request of the panel, the older ones kept or, for the list's answer, gone.
LEMMA NewAsk ==
  ASSUME NEW e, e # None, ModalInv, symbol # None, symbol' = symbol, chain' = chain,
         NEW kept \in SUBSET asks, \A r \in kept : r.expiry # None,
         selected' = e, sent' = sent + 1, asks' = kept \union {[id |-> sent + 1, expiry |-> e]},
         loading' = TRUE
  PROVE  ModalInv'
<1>1. sent \in Nat
  BY DEF ModalInv, AsksInv
<1>2. ASSUME NEW r \in asks'
      PROVE  r.id \in Nat /\ r.id <= sent' /\ (r.id = sent' => r.expiry = e) /\ r.expiry # None
  <2>1. CASE r \in kept
    <3>1. r.id \in Nat /\ r.id <= sent /\ r.expiry # None
      BY <2>1 DEF ModalInv, AsksInv
    <3> QED
      BY <1>1, <3>1
  <2>2. CASE r = [id |-> sent + 1, expiry |-> e]
    <3>1. r.id = sent + 1 /\ r.expiry = e
      BY <2>2
    <3> QED
      BY <1>1, <3>1
  <2> QED
    BY <1>2, <2>1, <2>2
<1>3. AsksInv'
  BY <1>1, <1>2 DEF AsksInv
<1>4. SelectedInv'
  BY <1>2 DEF ModalInv, SelectedInv
<1> QED
  BY <1>3, <1>4 DEF ModalInv, ShownInv, StrikesInv

\* Every step of the modal keeps the invariant of its requests.
LEMMA ModalNext ==
  ASSUME ModalInv, [Modal!Next]_(Modal!symbolModalVars)
  PROVE  ModalInv'
<1> USE DEF Modal!panelVars, Modal!rowVars
<1>1. ASSUME NEW s \in Symbols, NEW t, Modal!Open(s, t)
      PROVE  ModalInv'
  <2>1. /\ symbol = None /\ symbol' = s /\ asks' = {[id |-> 1, expiry |-> None]} /\ sent' = 1
        /\ loading' = TRUE /\ selected' = selected /\ chain' = chain
    BY <1>1 DEF Modal!Open
  <2>2. s # None
    BY CockpitViewsAssumption DEF Modal!SymbolModalAssumption
  <2>3. selected' = None /\ chain' = None
    BY <2>1 DEF ModalInv, SelectedInv
  <2>4. \A r \in asks' : r.id = 1 /\ r.expiry = None /\ asks' = {r}
    BY <2>1
  <2>5. AsksInv'
    BY <2>1, <2>3, <2>4 DEF AsksInv
  <2>6. SelectedInv'
    BY <2>1, <2>2, <2>3, <2>4 DEF SelectedInv
  <2> QED
    BY <2>1, <2>5, <2>6 DEF ModalInv, ShownInv, StrikesInv
<1>2. ASSUME NEW t, Modal!SetTab(t)
      PROVE  ModalInv'
  BY <1>2 DEF Modal!SetTab, ModalInv, AsksInv, SelectedInv, ShownInv, StrikesInv
<1>3. CASE Modal!Close
  BY <1>3 DEF Modal!Close, ModalInv, AsksInv, SelectedInv, ShownInv, StrikesInv
<1>4. CASE Modal!RowChanges \/ Modal!RowAnswer \/ UNCHANGED Modal!symbolModalVars
  <2>1. UNCHANGED <<symbol, selected, chain, loading, error, asks, sent, crossed>>
    BY <1>4 DEF Modal!RowChanges, Modal!RowAnswer, Modal!symbolModalVars
  <2> QED
    BY <2>1 DEF ModalInv, AsksInv, SelectedInv, ShownInv, StrikesInv
<1>5. ASSUME NEW e \in Modal!AllExpiries, Modal!SelectExpiry(e)
      PROVE  ModalInv'
  <2>1. /\ symbol # None /\ selected # None /\ symbol' = symbol /\ chain' = chain
        /\ selected' = e /\ sent' = sent + 1
        /\ asks' = asks \union {[id |-> sent + 1, expiry |-> e]} /\ loading' = TRUE
    BY <1>5 DEF Modal!SelectExpiry, Modal!Ask
  <2>2. e # None
    BY CockpitViewsAssumption DEF Modal!SymbolModalAssumption, Modal!AllExpiries
  <2>3. \A r \in asks : r.expiry # None
    BY <2>1 DEF ModalInv, SelectedInv
  <2> QED
    BY <2>1, <2>2, <2>3, NewAsk
<1>6. ASSUME NEW r \in asks, Modal!ExpiriesAnswer(r)
      PROVE  ModalInv'
  <2>1. /\ r.expiry = None /\ symbol' = symbol /\ chain' = chain
    BY <1>6 DEF Modal!ExpiriesAnswer
  <2>2. symbol # None /\ asks = {r} /\ selected = None /\ chain = None
    BY <2>1 DEF ModalInv, AsksInv, SelectedInv
  <2>3. CASE Expiries(symbol) = <<>>
    <3>1. asks' = {} /\ selected' = None /\ sent' = sent
      BY <1>6, <2>2, <2>3 DEF Modal!ExpiriesAnswer
    <3> QED
      BY <2>1, <2>2, <3>1 DEF ModalInv, AsksInv, SelectedInv, ShownInv, StrikesInv
  <2>4. CASE Expiries(symbol) # <<>>
    <3>1. /\ selected' = Head(Expiries(symbol)) /\ sent' = sent + 1
          /\ asks' = (asks \ {r}) \union {[id |-> sent', expiry |-> selected']} /\ loading' = TRUE
      BY <1>6, <2>4 DEF Modal!ExpiriesAnswer
    <3>2. symbol \in Symbols
      BY <2>2 DEF ModalInv, SelectedInv
    <3>3. /\ Expiries(symbol) \in Seq(Modal!Range(Expiries(symbol)))
          /\ None \notin Modal!Range(Expiries(symbol))
      BY <3>2, CockpitViewsAssumption DEF Modal!SymbolModalAssumption
    <3>4. Head(Expiries(symbol)) \in Modal!Range(Expiries(symbol))
      BY <2>4, <3>3 DEF Modal!Range
    <3>5. selected' # None
      BY <3>1, <3>3, <3>4
    <3>6. asks' = {} \union {[id |-> sent + 1, expiry |-> selected']}
      BY <2>2, <3>1
    <3>7. PICK e : e = selected'
      OBVIOUS
    <3> QED
      BY <2>1, <2>2, <3>1, <3>5, <3>6, <3>7, NewAsk
  <2> QED
    BY <2>3, <2>4
<1>7. ASSUME NEW r \in asks, Modal!ChainAnswer(r) \/ Modal!AskFails(r)
      PROVE  ModalInv'
  <2>1. /\ asks' = asks \ {r} /\ symbol' = symbol /\ selected' = selected /\ sent' = sent
        /\ crossed' = (r.id # sent)
    BY <1>7 DEF Modal!ChainAnswer, Modal!AskFails
  <2>2. r.id = sent => r.expiry = selected
    BY DEF ModalInv, AsksInv
  <2>3. AsksInv'
    BY <2>1 DEF ModalInv, AsksInv
  <2>4. CASE Modal!ChainAnswer(r)
    <3>1. r.expiry # None /\ chain' = r.expiry /\ error' = error
      BY <2>4 DEF Modal!ChainAnswer
    <3>2. SelectedInv'
      BY <2>1, <3>1 DEF ModalInv, SelectedInv
    <3>3. chain' # selected' => crossed'
      BY <2>1, <2>2, <3>1
    <3> QED
      BY <2>3, <3>2, <3>3 DEF ModalInv, ShownInv, StrikesInv
  <2>5. CASE Modal!AskFails(r)
    <3>1. chain' = chain /\ error' = TRUE
      BY <2>5 DEF Modal!AskFails
    <3>2. SelectedInv'
      BY <2>1, <3>1 DEF ModalInv, SelectedInv
    <3> QED
      BY <2>3, <3>1, <3>2 DEF ModalInv, ShownInv, StrikesInv
  <2> QED
    BY <1>7, <2>4, <2>5
<1> QED
  BY <1>1, <1>2, <1>3, <1>4, <1>5, <1>6, <1>7 DEF Modal!Next

\* A step of the cockpit is one of the modal, or none.
LEMMA ModalStep == [Next]_vars => [Modal!Next]_(Modal!symbolModalVars)
BY DEF Next, vars, ListSteps, ChartSteps, ModalSteps, RegimeSteps, MetricsSteps, AccountsSteps,
       ConfigSteps, modalVars, Modal!symbolModalVars, Modal!panelVars, Modal!rowVars

\* So the invariant holds always.
LEMMA ModalHolds == Spec => []ModalInv
<1>1. Init => ModalInv
  BY ModalInit DEF Init
<1>2. ModalInv /\ [Next]_vars => ModalInv'
  BY ModalNext, ModalStep
<1> QED
  BY <1>1, <1>2, PTL DEF Spec

(***************************************************************************)
(* OptionChainPanel, whose answers are unguarded: the verdict and the      *)
(* strikes shown are of the expiry selected, unless the last answer was    *)
(* overtaken by a newer request or, for the verdict, the newest one        *)
(* failed.                                                                 *)
(***************************************************************************)
THEOREM WrongChainIsLate == Spec => []WrongChainOnlyWhenLate
<1>1. ModalInv => WrongChainOnlyWhenLate
  BY DEF ModalInv, ShownInv, StrikesInv, WrongChainOnlyWhenLate, Modal!WrongChainOnlyWhenLate,
         Modal!StrikesShown, Modal!VerdictShown
<1> QED
  BY <1>1, ModalHolds, PTL

\* The chain shown and the chains asked for are of the symbol's expiries.
OfSymbolInv ==
  /\ chain # None => symbol \in Symbols /\ chain \in Modal!Range(Expiries(symbol))
  /\ \A r \in asks : r.expiry # None => symbol \in Symbols /\ r.expiry \in Modal!Range(Expiries(symbol))

\* Every step of the modal keeps its chain one of its symbol.
LEMMA OfSymbolNext ==
  ASSUME ModalInv, OfSymbolInv, [Modal!Next]_(Modal!symbolModalVars)
  PROVE  OfSymbolInv'
<1> USE DEF Modal!panelVars, Modal!rowVars
<1>1. ASSUME NEW s \in Symbols, NEW t, Modal!Open(s, t)
      PROVE  OfSymbolInv'
  BY <1>1 DEF Modal!Open, ModalInv, SelectedInv, OfSymbolInv
<1>2. ASSUME NEW t, Modal!SetTab(t)
      PROVE  OfSymbolInv'
  BY <1>2 DEF Modal!SetTab, OfSymbolInv
<1>3. CASE Modal!Close
  BY <1>3 DEF Modal!Close, OfSymbolInv
<1>4. CASE Modal!RowChanges \/ Modal!RowAnswer \/ UNCHANGED Modal!symbolModalVars
  BY <1>4 DEF Modal!RowChanges, Modal!RowAnswer, Modal!symbolModalVars, OfSymbolInv
<1>5. ASSUME NEW e \in Modal!AllExpiries, Modal!SelectExpiry(e)
      PROVE  OfSymbolInv'
  <2>1. /\ symbol \in Symbols /\ symbol' = symbol /\ chain' = chain
        /\ e \in Modal!Range(Expiries(symbol))
        /\ asks' = asks \union {[id |-> sent', expiry |-> e]}
    BY <1>5 DEF Modal!SelectExpiry, Modal!Ask, ModalInv, SelectedInv
  <2> QED
    BY <2>1 DEF OfSymbolInv
<1>6. ASSUME NEW r \in asks, Modal!ExpiriesAnswer(r)
      PROVE  OfSymbolInv'
  <2>1. symbol \in Symbols /\ symbol' = symbol /\ chain' = chain
    BY <1>6 DEF Modal!ExpiriesAnswer, ModalInv, SelectedInv
  <2>2. CASE Expiries(symbol) = <<>>
    BY <1>6, <2>1, <2>2 DEF Modal!ExpiriesAnswer, OfSymbolInv
  <2>3. CASE Expiries(symbol) # <<>>
    <3>1. /\ selected' = Head(Expiries(symbol))
          /\ asks' = (asks \ {r}) \union {[id |-> sent', expiry |-> selected']}
      BY <1>6, <2>3 DEF Modal!ExpiriesAnswer
    <3>2. Expiries(symbol) \in Seq(Modal!Range(Expiries(symbol)))
      BY <2>1, CockpitViewsAssumption DEF Modal!SymbolModalAssumption
    <3>3. selected' \in Modal!Range(Expiries(symbol))
      BY <2>3, <3>1, <3>2 DEF Modal!Range
    <3> QED
      BY <2>1, <3>1, <3>3 DEF OfSymbolInv
  <2> QED
    BY <2>2, <2>3
<1>7. ASSUME NEW r \in asks, Modal!ChainAnswer(r) \/ Modal!AskFails(r)
      PROVE  OfSymbolInv'
  BY <1>7 DEF Modal!ChainAnswer, Modal!AskFails, OfSymbolInv
<1> QED
  BY <1>1, <1>2, <1>3, <1>4, <1>5, <1>6, <1>7 DEF Modal!Next

\* So the chain shown is always one of the symbol.
LEMMA OfSymbolHolds == Spec => []OfSymbolInv
<1>1. Init => OfSymbolInv
  BY DEF Init, Modal!Init, OfSymbolInv
<1>2. ModalInv /\ OfSymbolInv /\ [Next]_vars => OfSymbolInv'
  BY OfSymbolNext, ModalStep
<1> QED
  BY <1>1, <1>2, ModalHolds, PTL DEF Spec

\* The least-number principle, for sets.
LEMMA LeastOfNats ==
  ASSUME NEW T, T \subseteq Nat, T # {}
  PROVE  \E x \in T : \A y \in T : x <= y
<1>1. PICK x \in T : \A y \in T : ~(<<y, x>> \in OpToRel(<, Nat))
  BY WFMin, NatLessThanWellFounded
<1>2. \A y \in T : ~(y < x)
  BY <1>1 DEF OpToRel
<1> QED
  BY <1>2

\* A distance between prices is a natural number.
LEMMA DistanceIsNat == \A a, b \in Int : Modal!Distance(a, b) \in Nat
BY DEF Modal!Distance

\* Some strike is nearest to the spot price, and Atm is one.
LEMMA AtmIsNearest ==
  ASSUME NEW strikes, NEW spot \in Int, strikes \in Seq(Modal!Range(strikes)), strikes # <<>>,
         \A k \in Modal!Range(strikes) : k.price \in Int
  PROVE  /\ Modal!Atm(strikes, spot) \in DOMAIN strikes
         /\ \A j \in DOMAIN strikes :
              Modal!Distance(strikes[Modal!Atm(strikes, spot)].price, spot) <= Modal!Distance(strikes[j].price, spot)
<1> DEFINE d(i) == Modal!Distance(strikes[i].price, spot)
<1>1. DOMAIN strikes = 1 .. Len(strikes) /\ Len(strikes) \in Nat \ {0}
  OBVIOUS
<1>2. \A i \in DOMAIN strikes : d(i) \in Nat
  BY DistanceIsNat DEF Modal!Range
<1>3. PICK m \in {d(i) : i \in DOMAIN strikes} : \A y \in {d(i) : i \in DOMAIN strikes} : m <= y
  <2>1. d(1) \in {d(i) : i \in DOMAIN strikes}
    BY <1>1
  <2> HIDE DEF d
  <2> QED
    BY <1>2, <2>1, LeastOfNats
<1>4. PICK i \in {j \in DOMAIN strikes : d(j) = m} : \A k \in {j \in DOMAIN strikes : d(j) = m} : i <= k
  <2>1. \E j \in DOMAIN strikes : d(j) = m
    BY <1>3
  <2> HIDE DEF d
  <2>2. {j \in DOMAIN strikes : d(j) = m} # {} /\ {j \in DOMAIN strikes : d(j) = m} \subseteq Nat
    BY <1>1, <2>1
  <2> QED
    BY <2>2, LeastOfNats
<1>5. \A j \in DOMAIN strikes : d(i) < d(j) \/ (d(i) = d(j) /\ i <= j)
  <2>1. SUFFICES ASSUME NEW j \in DOMAIN strikes
                 PROVE  d(i) < d(j) \/ (d(i) = d(j) /\ i <= j)
    OBVIOUS
  <2> HIDE DEF d
  <2>2. m <= d(j)
    BY <1>3
  <2>3. d(i) = m
    BY <1>4
  <2>4. d(j) = m => i <= j
    BY <1>4
  <2> QED
    BY <1>2, <2>2, <2>3, <2>4
<1>6. /\ Modal!Atm(strikes, spot) \in DOMAIN strikes
      /\ \A j \in DOMAIN strikes :
           d(Modal!Atm(strikes, spot)) < d(j) \/ (d(Modal!Atm(strikes, spot)) = d(j) /\ Modal!Atm(strikes, spot) <= j)
  BY <1>4, <1>5 DEF Modal!Atm
<1>7. \A j \in DOMAIN strikes : d(Modal!Atm(strikes, spot)) <= d(j)
  <2> HIDE DEF d
  <2> QED
    BY <1>2, <1>6
<1> QED
  BY <1>6, <1>7

\* The greater of two numbers is one of them, and not below the first.
LEMMA GreatestOfTwo ==
  ASSUME NEW a \in Int, NEW b \in Int
  PROVE  (Modal!Max({a, b}) = a \/ Modal!Max({a, b}) = b) /\ a <= Modal!Max({a, b})
<1>1. \E x \in {a, b} : \A y \in {a, b} : x >= y
  OBVIOUS
<1>2. Modal!Max({a, b}) \in {a, b} /\ \A y \in {a, b} : Modal!Max({a, b}) >= y
  BY <1>1 DEF Modal!Max
<1> QED
  BY <1>2

\* The lesser of two numbers is one of them, and not above the first.
LEMMA LeastOfTwo ==
  ASSUME NEW a \in Int, NEW b \in Int
  PROVE  (Modal!Min({a, b}) = a \/ Modal!Min({a, b}) = b) /\ Modal!Min({a, b}) <= a
<1>1. \E x \in {a, b} : \A y \in {a, b} : x =< y
  OBVIOUS
<1>2. Modal!Min({a, b}) \in {a, b} /\ \A y \in {a, b} : Modal!Min({a, b}) =< y
  BY <1>1 DEF Modal!Min
<1> QED
  BY <1>2

\* The window of strikes around the money holds the money.
LEMMA MoneyIsVisible ==
  ASSUME NEW c, Modal!IsChain(c), Modal!VisibleStrikes(c) # <<>>, NEW s \in Modal!Range(c.strikes)
  PROVE  \E v \in Modal!Range(Modal!VisibleStrikes(c)) :
           Modal!Distance(v.price, c.spot) <= Modal!Distance(s.price, c.spot)
<1> DEFINE strikes == c.strikes
           n == Len(strikes)
           atm == Modal!Atm(strikes, c.spot)
           low == Modal!Max({1, atm - AtmCount})
           high == Modal!Min({n, atm + AtmCount})
           visible == SubSeq(strikes, low, high)
<1>1. c.spot \in Int /\ strikes \in Seq(Modal!Range(strikes)) /\ \A k \in Modal!Range(strikes) : k.price \in Int
  BY DEF Modal!IsChain
<1>2. n \in Nat \ {0} /\ strikes # <<>> /\ DOMAIN strikes = 1 .. n
  BY <1>1 DEF Modal!Range
<1>3. /\ atm \in 1 .. n
      /\ \A j \in DOMAIN strikes : Modal!Distance(strikes[atm].price, c.spot) <= Modal!Distance(strikes[j].price, c.spot)
  BY <1>1, <1>2, AtmIsNearest
<1>4. AtmCount \in Nat
  BY CockpitViewsAssumption DEF Modal!SymbolModalAssumption
<1>5. low \in Int /\ 1 <= low /\ low <= atm
  <2>1. atm \in Int /\ 1 <= atm
    BY <1>2, <1>3
  <2>2. /\ low = 1 \/ low = atm - AtmCount
        /\ 1 <= low
    BY <1>4, <2>1, GreatestOfTwo
  <2> HIDE DEF atm, low
  <2> QED
    BY <1>4, <2>1, <2>2
<1>6. high \in Int /\ high <= n /\ atm <= high
  <2>1. n \in Nat /\ atm \in Int /\ atm <= n
    BY <1>2, <1>3
  <2> HIDE DEF atm, n, strikes
  <2>2. /\ high = n \/ high = atm + AtmCount
        /\ high <= n
    BY <1>4, <2>1, LeastOfTwo
  <2> HIDE DEF high
  <2> QED
    BY <1>4, <2>1, <2>2
<1>7. visible[atm - low + 1] = strikes[atm] /\ atm - low + 1 \in DOMAIN visible
  <2> HIDE DEF atm, n, low, high, strikes
  <2>1. ASSUME NEW i \in low .. high
        PROVE  strikes[i] \in Modal!Range(strikes)
    <3>1. i \in 1 .. n
      BY <1>2, <1>5, <1>6
    <3> QED
      BY <1>2, <3>1 DEF Modal!Range
  <2>2. /\ visible \in Seq(Modal!Range(strikes)) /\ Len(visible) = high - low + 1
        /\ \A i \in 1 .. high - low + 1 : visible[i] = strikes[low + i - 1]
    BY <1>3, <1>5, <1>6, <2>1, SubSeqProperties
  <2>3. atm - low + 1 \in 1 .. high - low + 1 /\ low + (atm - low + 1) - 1 = atm
    BY <1>3, <1>5, <1>6
  <2> QED
    BY <2>2, <2>3
<1>8. Modal!VisibleStrikes(c) = visible
  BY <1>2 DEF Modal!VisibleStrikes
<1>9. strikes[atm] \in Modal!Range(Modal!VisibleStrikes(c))
  BY <1>7, <1>8 DEF Modal!Range
<1>10. Modal!Distance(strikes[atm].price, c.spot) <= Modal!Distance(s.price, c.spot)
  BY <1>3 DEF Modal!Range
<1> QED
  BY <1>9, <1>10

\* The other scores cannot make up for the two points of a chain nobody trades.
LEMMA NobodyTrades ==
  ASSUME NEW strikes, NEW spot, strikes # <<>>, Modal!Traded(strikes) = 0
  PROVE  Modal!AssessChain(strikes, spot) # "Favourable"
<1>1. Modal!VolumeScore(strikes) = -2
  BY DEF Modal!VolumeScore
<1>2. Modal!IvScore(strikes) \in -1 .. 1
  BY DEF Modal!IvScore
<1>3. Modal!SpreadScore(strikes[Modal!Atm(strikes, spot)]) \in -1 .. 1
  BY DEF Modal!SpreadScore
<1>4. Modal!PcrScore(strikes) \in -1 .. 1
  BY DEF Modal!PcrScore
<1>5. PICK score : score = Modal!IvScore(strikes) + Modal!SpreadScore(strikes[Modal!Atm(strikes, spot)])
                             + Modal!PcrScore(strikes) + Modal!VolumeScore(strikes)
  OBVIOUS
<1>6. ~(score >= 2)
  BY <1>1, <1>2, <1>3, <1>4, <1>5
<1>7. Modal!AssessChain(strikes, spot) \in {"Neutral", "Unfavourable"}
  BY <1>5, <1>6 DEF Modal!AssessChain
<1> QED
  BY <1>7

(***************************************************************************)
(* assessChain and visibleStrikes: a chain whose visible strikes nobody    *)
(* trades is never called favourable, and of the strikes of the chain none *)
(* is nearer to the money than the nearest one shown.                      *)
(***************************************************************************)
THEOREM IlliquidIsNotFavourable == Spec => []IlliquidNeverFavourable
<1>1. OfSymbolInv => IlliquidNeverFavourable
  <2> SUFFICES ASSUME OfSymbolInv, Modal!VerdictShown, Modal!Strikes # <<>>
               PROVE  /\ Modal!Traded(Modal!Strikes) = 0 =>
                           Modal!AssessChain(Modal!Strikes, Chain(symbol, chain).spot) # "Favourable"
                      /\ \A s \in Modal!Range(Chain(symbol, chain).strikes) :
                           \E v \in Modal!Range(Modal!Strikes) :
                             Modal!Distance(v.price, Chain(symbol, chain).spot)
                               <= Modal!Distance(s.price, Chain(symbol, chain).spot)
    BY DEF IlliquidNeverFavourable, Modal!IlliquidNeverFavourable
  <2>1. symbol \in Symbols /\ chain \in Modal!Range(Expiries(symbol))
    BY DEF OfSymbolInv, Modal!VerdictShown
  <2>2. Modal!IsChain(Chain(symbol, chain))
    BY <2>1, CockpitViewsAssumption DEF Modal!SymbolModalAssumption
  <2>3. PICK c : c = Chain(symbol, chain)
    OBVIOUS
  <2>4. Modal!Strikes = Modal!VisibleStrikes(c)
    BY <2>3 DEF Modal!Strikes
  <2> QED
    BY <2>2, <2>3, <2>4, MoneyIsVisible, NobodyTrades
<1> QED
  BY <1>1, OfSymbolHolds, PTL


-----------------------------------------------------------------------------
(* The regimes of the signals (SignalRegimes).  What is current stays so:  *)
(* a row is made of the symbol's regime or is aged, and an update changes  *)
(* every row of its symbol or is missed.                                   *)

RegimesInv ==
  /\ market \in [Regime!KindSymbols -> Regimes \union {None}]
  /\ held \in [RegimeKinds -> Regimes \union {None}]
  /\ signalRows \in [RegimeKinds -> Regimes \union {None}]
  /\ RegimeCurrent

\* No row is there yet.
LEMMA RegimesInit == Regime!Init => RegimesInv
BY DEF Regime!Init, Regime!NoRows, RegimesInv, RegimeCurrent, Regime!RegimeCurrent

\* A pushed signal makes a row of its regime, or leaves the row there is.
LEMMA PushIs ==
  ASSUME NEW list \in [RegimeKinds -> Regimes \union {None}], NEW k \in RegimeKinds, NEW r \in Regimes \union {None}
  PROVE  /\ Regime!Push(list, k, r) \in [RegimeKinds -> Regimes \union {None}]
         /\ \A j \in RegimeKinds :
              Regime!Push(list, k, r)[j] = IF j = k /\ list[j] = None THEN r ELSE list[j]
BY DEF Regime!Push

\* A signal that arrives keeps what is current: its regime is the symbol's, or it is noted as aged.
LEMMA ReceiveKeeps ==
  ASSUME RegimesInv, NEW k \in RegimeKinds, NEW r \in Regimes, NEW late \in BOOLEAN,
         late \/ r = market[k.symbol], Regime!Receive(k, r, late), UNCHANGED <<market, missed>>
  PROVE  RegimesInv'
<1>1. CASE paused
  <2>1. held' = Regime!Push(held, k, r) /\ UNCHANGED <<signalRows, aged>>
    BY <1>1 DEF Regime!Receive
  <2>2. held' \in [RegimeKinds -> Regimes \union {None}]
    BY <2>1, PushIs DEF RegimesInv
  <2> QED BY <2>1, <2>2 DEF RegimesInv, RegimeCurrent, Regime!RegimeCurrent
<1>2. CASE ~paused
  <2>1. signalRows' = Regime!Push(signalRows, k, r) /\ UNCHANGED held
    BY <1>2 DEF Regime!Receive
  <2>2. aged' = IF late /\ signalRows[k] = None THEN aged \union {k} ELSE aged
    BY <1>2 DEF Regime!Receive
  <2>3. signalRows' \in [RegimeKinds -> Regimes \union {None}]
    BY <2>1, PushIs DEF RegimesInv
  <2>4. \A j \in RegimeKinds : signalRows'[j] = IF j = k /\ signalRows[j] = None THEN r ELSE signalRows[j]
    BY <2>1, PushIs DEF RegimesInv
  <2>5. RegimeCurrent'
    <3> SUFFICES ASSUME NEW j \in RegimeKinds, signalRows'[j] # None, j \notin aged', j.symbol \notin missed
                 PROVE  signalRows'[j] = market[j.symbol]
      BY DEF RegimeCurrent, Regime!RegimeCurrent
    <3>1. CASE j = k /\ signalRows[j] = None
      BY <3>1, <2>2, <2>4
    <3>2. CASE ~(j = k /\ signalRows[j] = None)
      BY <3>2, <2>2, <2>4 DEF RegimesInv, RegimeCurrent, Regime!RegimeCurrent
    <3> QED BY <3>1, <3>2
  <2> QED BY <2>1, <2>3, <2>5 DEF RegimesInv
<1> QED BY <1>1, <1>2

\* Every step of the hook and of the market keeps the invariant.
LEMMA RegimesNext == RegimesInv /\ [Regime!Next]_(Regime!signalRegimesVars) => RegimesInv'
<1> SUFFICES ASSUME RegimesInv, [Regime!Next]_(Regime!signalRegimesVars) PROVE RegimesInv'
  OBVIOUS
<1>1. ASSUME NEW k \in RegimeKinds, Regime!Signal(k) PROVE RegimesInv'
  <2>1. market[k.symbol] \in Regimes
    <3>1. k.symbol \in Regime!KindSymbols BY DEF Regime!KindSymbols
    <3> QED BY <1>1, <3>1 DEF Regime!Signal, RegimesInv
  <2> QED BY <1>1, <2>1, ReceiveKeeps DEF Regime!Signal
<1>2. ASSUME NEW k \in RegimeKinds, NEW r \in Regimes, Regime!Replay(k, r) PROVE RegimesInv'
  BY <1>2, ReceiveKeeps DEF Regime!Replay
<1>3. ASSUME NEW s \in Regime!KindSymbols, NEW r \in Regimes, Regime!RegimeUpdate(s, r) PROVE RegimesInv'
  <2>1. market' = [market EXCEPT ![s] = r] /\ UNCHANGED held
    BY <1>3 DEF Regime!RegimeUpdate
  <2>2. CASE connected
    <3>1. signalRows' = [k \in RegimeKinds |-> IF k.symbol = s /\ signalRows[k] # None THEN r ELSE signalRows[k]]
      BY <1>3, <2>2 DEF Regime!RegimeUpdate, Regime!RegimeApplied
    <3>2. aged' = {k \in aged : k.symbol # s} /\ missed' = missed \ {s}
      BY <1>3, <2>2 DEF Regime!RegimeUpdate
    <3>3. \A k \in RegimeKinds : k.symbol \in Regime!KindSymbols
      BY DEF Regime!KindSymbols
    <3>4. RegimeCurrent'
      <4> SUFFICES ASSUME NEW k \in RegimeKinds, signalRows'[k] # None, k \notin aged', k.symbol \notin missed'
                   PROVE  signalRows'[k] = market'[k.symbol]
        BY DEF RegimeCurrent, Regime!RegimeCurrent
      <4>1. CASE k.symbol = s
        BY <4>1, <2>1, <3>1, <3>3 DEF RegimesInv
      <4>2. CASE k.symbol # s
        BY <4>2, <2>1, <3>1, <3>2, <3>3 DEF RegimesInv, RegimeCurrent, Regime!RegimeCurrent
      <4> QED BY <4>1, <4>2
    <3> QED BY <2>1, <3>1, <3>4 DEF RegimesInv
  <2>3. CASE ~connected
    <3>1. missed' = missed \union {s} /\ UNCHANGED <<signalRows, aged>>
      BY <1>3, <2>3 DEF Regime!RegimeUpdate
    <3>2. RegimeCurrent'
      BY <2>1, <3>1 DEF RegimesInv, RegimeCurrent, Regime!RegimeCurrent, Regime!KindSymbols
    <3> QED BY <2>1, <3>1, <3>2 DEF RegimesInv
  <2> QED BY <2>2, <2>3
<1>4. ASSUME Regime!Connect \/ Regime!Disconnect \/ Regime!Pause PROVE RegimesInv'
  BY <1>4 DEF Regime!Connect, Regime!Disconnect, Regime!Pause, RegimesInv, RegimeCurrent, Regime!RegimeCurrent
<1>5. CASE Regime!Reload
  BY <1>5 DEF Regime!Reload, Regime!NoRows, RegimesInv, RegimeCurrent, Regime!RegimeCurrent
<1>6. CASE Regime!Resume
  <2>1. signalRows' = [k \in RegimeKinds |-> IF signalRows[k] = None THEN held[k] ELSE signalRows[k]]
    BY <1>6 DEF Regime!Resume
  <2>2. aged' = aged \union {k \in RegimeKinds : signalRows[k] = None /\ held[k] # None}
    BY <1>6 DEF Regime!Resume
  <2>3. UNCHANGED <<market, missed>> /\ held' = [k \in RegimeKinds |-> None]
    BY <1>6 DEF Regime!Resume, Regime!NoRows
  <2>4. RegimeCurrent'
    BY <2>1, <2>2, <2>3 DEF RegimesInv, RegimeCurrent, Regime!RegimeCurrent
  <2> QED BY <2>1, <2>3, <2>4 DEF RegimesInv
<1>7. CASE Regime!Clear
  BY <1>7 DEF Regime!Clear, Regime!NoRows, RegimesInv, RegimeCurrent, Regime!RegimeCurrent
<1>8. CASE UNCHANGED Regime!signalRegimesVars
  BY <1>8 DEF Regime!signalRegimesVars, RegimesInv, RegimeCurrent, Regime!RegimeCurrent
<1> QED BY <1>1, <1>2, <1>3, <1>4, <1>5, <1>6, <1>7, <1>8 DEF Regime!Next

\* A step of the cockpit is one of the regimes, or leaves them alone.
LEMMA RegimeStep == [Next]_vars => [Regime!Next]_(Regime!signalRegimesVars)
BY DEF Next, vars, ListSteps, ChartSteps, ModalSteps, RegimeSteps, MetricsSteps, AccountsSteps, ConfigSteps,
       regimeVars, Regime!signalRegimesVars

\* The regime a row shows is that of its symbol now, unless an update was missed
\* or the row was made of a replayed or held signal (useSignals, onmessage).
THEOREM RegimesAreCurrent == Spec => []RegimeCurrent
<1>1. Init => RegimesInv
  BY RegimesInit DEF Init
<1>2. RegimesInv /\ [Next]_vars => RegimesInv'
  BY RegimesNext, RegimeStep
<1>3. RegimesInv => RegimeCurrent
  BY DEF RegimesInv
<1> QED BY <1>1, <1>2, <1>3, PTL DEF Spec

-----------------------------------------------------------------------------
(* Lists in an order (Arrangement).                                        *)

\* A strict order in which any two members of S are told apart.
StrictTotal(S, R) ==
  /\ \A x \in S : <<x, x>> \notin R
  /\ \A x, y, z \in S : <<x, y>> \in R /\ <<y, z>> \in R => <<x, z>> \in R
  /\ \A x, y \in S : x # y => <<x, y>> \in R \/ <<y, x>> \in R

\* As many stand before a member as its rank says, each rank is taken, and by one.
LEMMA AheadIsRank ==
  ASSUME NEW S, IsFiniteSet(S), NEW R, StrictTotal(S, R)
  PROVE  /\ Cardinality(S) \in Nat
         /\ \A x \in S : Ahead(S, R, x) \in 0 .. Cardinality(S) - 1
         /\ \A x, y \in S : Ahead(S, R, x) < Ahead(S, R, y) <=> <<x, y>> \in R
         /\ \A x, y \in S : Ahead(S, R, x) = Ahead(S, R, y) => x = y
         /\ \A k \in 0 .. Cardinality(S) - 1 : \E x \in S : Ahead(S, R, x) = k
<1> DEFINE Earlier(x) == {y \in S : <<y, x>> \in R}
<1>1. \A x \in S : <<x, x>> \notin R
  BY DEF StrictTotal
<1>2. \A x, y, z \in S : <<x, y>> \in R /\ <<y, z>> \in R => <<x, z>> \in R
  BY DEF StrictTotal
<1>3. \A x, y \in S : x # y => <<x, y>> \in R \/ <<y, x>> \in R
  BY DEF StrictTotal
<1>4. Cardinality(S) \in Nat
  BY FS_CardinalityType
<1>5. ASSUME NEW x \in S
      PROVE  IsFiniteSet(Earlier(x)) /\ Ahead(S, R, x) = Cardinality(Earlier(x)) /\ Ahead(S, R, x) \in 0 .. Cardinality(S) - 1
  <2>1. Earlier(x) \in SUBSET S /\ Earlier(x) # S
    BY <1>1
  <2>2. IsFiniteSet(Earlier(x)) /\ Cardinality(Earlier(x)) <= Cardinality(S) /\ Cardinality(Earlier(x)) # Cardinality(S)
    BY <2>1, FS_Subset
  <2>3. Cardinality(Earlier(x)) \in Nat
    BY <2>2, FS_CardinalityType
  <2> QED
    BY <1>4, <2>2, <2>3 DEF Ahead
<1>6. ASSUME NEW x \in S, NEW y \in S, <<x, y>> \in R
      PROVE  Ahead(S, R, x) < Ahead(S, R, y)
  <2>1. Earlier(x) \union {x} \in SUBSET Earlier(y) /\ x \notin Earlier(x)
    BY <1>1, <1>2, <1>6
  <2>2. Cardinality(Earlier(x) \union {x}) = Cardinality(Earlier(x)) + 1
    BY <1>5, <2>1, FS_AddElement
  <2>3. Cardinality(Earlier(x) \union {x}) <= Cardinality(Earlier(y))
    BY <1>5, <2>1, FS_Subset
  <2>4. Cardinality(Earlier(x)) \in Nat /\ Cardinality(Earlier(y)) \in Nat
    BY <1>5, FS_CardinalityType
  <2>5. Cardinality(Earlier(x)) + 1 <= Cardinality(Earlier(y))
    BY <2>2, <2>3
  <2>6. Ahead(S, R, x) = Cardinality(Earlier(x)) /\ Ahead(S, R, y) = Cardinality(Earlier(y))
    BY <1>5
  <2> HIDE DEF Earlier
  <2> QED
    BY <2>4, <2>5, <2>6
<1>7. \A x \in S : Ahead(S, R, x) \in Nat
  <2> TAKE x \in S
  <2>1. Ahead(S, R, x) \in 0 .. Cardinality(S) - 1
    BY <1>5
  <2> QED
    BY <1>4, <2>1
<1>8. ASSUME NEW x \in S, NEW y \in S
      PROVE  /\ Ahead(S, R, x) < Ahead(S, R, y) <=> <<x, y>> \in R
             /\ Ahead(S, R, x) = Ahead(S, R, y) => x = y
  <2>1. Ahead(S, R, x) \in Nat /\ Ahead(S, R, y) \in Nat
    BY <1>7
  <2>2. CASE x = y
    BY <1>1, <2>1, <2>2
  <2>3. CASE <<x, y>> \in R
    <3>1. Ahead(S, R, x) < Ahead(S, R, y)
      BY <1>6, <2>3
    <3> QED
      BY <2>1, <2>3, <3>1
  <2>4. CASE <<y, x>> \in R
    <3>1. Ahead(S, R, y) < Ahead(S, R, x)
      BY <1>6, <2>4
    <3>2. <<x, y>> \notin R
      BY <1>1, <1>2, <2>4
    <3> QED
      BY <2>1, <3>1, <3>2
  <2> QED
    BY <1>3, <2>2, <2>3, <2>4
<1>9. \A k \in 0 .. Cardinality(S) - 1 : \E x \in S : Ahead(S, R, x) = k
  <2> DEFINE T == 0 .. Cardinality(S) - 1
             f == [x \in S |-> Ahead(S, R, x)]
  <2>1. IsFiniteSet(T) /\ Cardinality(T) = Cardinality(S)
    <3>1. PICK n \in Nat : n = Cardinality(S)
      BY <1>4
    <3>2. IsFiniteSet(0 .. n - 1) /\ Cardinality(0 .. n - 1) = IF 0 > n - 1 THEN 0 ELSE (n - 1) - 0 + 1
      BY FS_Interval
    <3>3. Cardinality(0 .. n - 1) = n
      BY <3>2
    <3> QED
      BY <3>1, <3>2, <3>3
  <2>2. f \in Injection(S, T)
    BY <1>5, <1>8 DEF Injection, IsInjective
  <2>3. f \in Surjection(S, T)
    BY <2>1, <2>2, FS_Injection
  <2> QED
    BY <2>3 DEF Surjection
<1> QED
  BY <1>4, <1>5, <1>8, <1>9
\* An arrangement has every member once, in the order.
LEMMA ArrangedIs ==
  ASSUME NEW S, IsFiniteSet(S), NEW R, StrictTotal(S, R)
  PROVE  LET o == Arranged(S, R) IN
         /\ Cardinality(S) \in Nat /\ o \in [1 .. Cardinality(S) -> S]
         /\ \A i, j \in 1 .. Cardinality(S) : i < j => <<o[i], o[j]>> \in R
         /\ \A x \in S : \E n \in 1 .. Cardinality(S) : o[n] = x
         /\ \A n \in 1 .. Cardinality(S) : Ahead(S, R, o[n]) = n - 1
<1> DEFINE o == Arranged(S, R)
<1>1. /\ Cardinality(S) \in Nat
      /\ \A x \in S : Ahead(S, R, x) \in 0 .. Cardinality(S) - 1
      /\ \A x, y \in S : Ahead(S, R, x) < Ahead(S, R, y) <=> <<x, y>> \in R
      /\ \A x, y \in S : Ahead(S, R, x) = Ahead(S, R, y) => x = y
      /\ \A k \in 0 .. Cardinality(S) - 1 : \E x \in S : Ahead(S, R, x) = k
  BY AheadIsRank
<1>2. o = [n \in 1 .. Cardinality(S) |-> CHOOSE x \in S : Ahead(S, R, x) = n - 1]
  BY DEF Arranged
<1>3. ASSUME NEW n \in 1 .. Cardinality(S)
      PROVE  o[n] \in S /\ Ahead(S, R, o[n]) = n - 1
  <2>1. n - 1 \in 0 .. Cardinality(S) - 1
    BY <1>1
  <2>2. \E x \in S : Ahead(S, R, x) = n - 1
    BY <1>1, <2>1
  <2>3. o[n] = CHOOSE x \in S : Ahead(S, R, x) = n - 1
    BY <1>2
  <2> QED
    BY <2>2, <2>3
<1> HIDE DEF o
<1>4. o \in [1 .. Cardinality(S) -> S]
  BY <1>2, <1>3
<1>5. \A i, j \in 1 .. Cardinality(S) : i < j => <<o[i], o[j]>> \in R
  <2> SUFFICES ASSUME NEW i \in 1 .. Cardinality(S), NEW j \in 1 .. Cardinality(S), i < j
               PROVE  <<o[i], o[j]>> \in R
    OBVIOUS
  <2>1. i - 1 < j - 1
    BY <1>1
  <2>2. Ahead(S, R, o[i]) < Ahead(S, R, o[j])
    BY <1>3, <2>1
  <2> QED
    BY <1>1, <1>3, <2>2
<1>6. \A x \in S : \E n \in 1 .. Cardinality(S) : o[n] = x
  <2> SUFFICES ASSUME NEW x \in S
               PROVE  \E n \in 1 .. Cardinality(S) : o[n] = x
    OBVIOUS
  <2>1. PICK k \in 0 .. Cardinality(S) - 1 : k = Ahead(S, R, x)
    BY <1>1
  <2>2. k + 1 \in 1 .. Cardinality(S) /\ (k + 1) - 1 = k
    BY <1>1
  <2>3. Ahead(S, R, o[k + 1]) = Ahead(S, R, x) /\ o[k + 1] \in S
    BY <1>3, <2>1, <2>2
  <2> QED
    BY <1>1, <2>2, <2>3
<1> QED
  BY <1>1, <1>3, <1>4, <1>5, <1>6 DEF o

\* A column puts a in front of b.
Puts(a, b, asc) ==
  \/ a # None /\ b = None
  \/ a # None /\ b # None /\ (IF asc THEN a < b ELSE a > b)

\* R is the order of a column, whose values are numbers or missing, ties broken
\* by place.
ByColumn(S, V, asc, R) ==
  /\ \A i \in S : V[i] \in Int \union {None}
  /\ \A i, j \in S : <<i, j>> \in R <=> Puts(V[i], V[j], asc) \/ (~Puts(V[j], V[i], asc) /\ i < j)

NoneBefore(S, V, asc, R) ==
  \A i, j \in S : <<i, j>> \in R /\ V[j] # None => V[i] # None /\ (IF asc THEN V[i] <= V[j] ELSE V[i] >= V[j])

\* It is strict and total, and puts nothing before what its column puts first.
LEMMA StableOrder ==
  ASSUME NEW S \in SUBSET Int, NEW V, NEW asc, NEW R, ByColumn(S, V, asc, R)
  PROVE  StrictTotal(S, R) /\ NoneBefore(S, V, asc, R)
<1>a. \A i \in S : V[i] \in Int \union {None}
  BY DEF ByColumn
<1>b. \A i, j \in S : <<i, j>> \in R <=> Puts(V[i], V[j], asc) \/ (~Puts(V[j], V[i], asc) /\ i < j)
  BY DEF ByColumn
<1>1. \A i \in S : <<i, i>> \notin R
  BY <1>a, <1>b DEF Puts
<1>2. \A i, j \in S : i # j => <<i, j>> \in R \/ <<j, i>> \in R
  BY <1>a, <1>b DEF Puts
<1>3. ASSUME NEW x \in S, NEW y \in S, NEW z \in S, <<x, y>> \in R, <<y, z>> \in R
      PROVE  <<x, z>> \in R
  <2>1. PICK a, b, c : a = V[x] /\ b = V[y] /\ c = V[z]
    OBVIOUS
  <2>2. a \in Int \union {None} /\ b \in Int \union {None} /\ c \in Int \union {None}
    BY <1>a, <2>1
  <2>3. /\ Puts(a, b, asc) \/ (~Puts(b, a, asc) /\ x < y)
        /\ Puts(b, c, asc) \/ (~Puts(c, b, asc) /\ y < z)
    BY <1>3, <1>b, <2>1
  <2>4. Puts(a, c, asc) \/ (~Puts(c, a, asc) /\ x < z)
    BY <2>2, <2>3 DEF Puts
  <2> QED
    BY <1>b, <2>1, <2>4
<1>4. ASSUME NEW i \in S, NEW j \in S, <<i, j>> \in R, V[j] # None
      PROVE  V[i] # None /\ (IF asc THEN V[i] <= V[j] ELSE V[i] >= V[j])
  BY <1>4, <1>a, <1>b DEF Puts
<1> QED
  BY <1>1, <1>2, <1>3, <1>4 DEF StrictTotal, NoneBefore

\* Places in their order.
LEMMA LowerIsTotal ==
  ASSUME NEW S \in SUBSET Int
  PROVE  StrictTotal(S, Lower(S)) /\ \A i, j \in S : <<i, j>> \in Lower(S) <=> i < j
<1>1. \A i, j \in S : <<i, j>> \in Lower(S) <=> i < j
  BY DEF Lower
<1> QED
  BY <1>1 DEF StrictTotal

\* What is picked of a list: each of the places once, in their order.
LEMMA PickedIs ==
  ASSUME NEW T, NEW list \in Seq(T), NEW places \in SUBSET DOMAIN list
  PROVE  LET o == Arranged(places, Lower(places)) IN
         /\ IsFiniteSet(places) /\ Cardinality(places) \in Nat /\ o \in [1 .. Cardinality(places) -> places]
         /\ \A i, j \in 1 .. Cardinality(places) : i < j => o[i] < o[j]
         /\ \A p \in places : \E n \in 1 .. Cardinality(places) : o[n] = p
         /\ Picked(list, places) = [n \in 1 .. Cardinality(places) |-> list[o[n]]]
         /\ Picked(list, places) \in Seq(T) /\ Len(Picked(list, places)) = Cardinality(places)
<1> DEFINE o == Arranged(places, Lower(places))
           c == Cardinality(places)
<1>1. DOMAIN list = 1 .. Len(list) /\ Len(list) \in Nat
  OBVIOUS
<1>2. IsFiniteSet(places) /\ places \in SUBSET Int
  <2>1. places \in SUBSET (1 .. Len(list)) /\ IsFiniteSet(1 .. Len(list))
    BY <1>1, FS_Interval
  <2>2. IsFiniteSet(places)
    BY <2>1, FS_Subset
  <2> QED
    BY <2>1, <2>2
<1>3. StrictTotal(places, Lower(places)) /\ \A i, j \in places : <<i, j>> \in Lower(places) <=> i < j
  BY <1>2, LowerIsTotal
<1>4. /\ c \in Nat /\ o \in [1 .. c -> places]
      /\ \A i, j \in 1 .. c : i < j => <<o[i], o[j]>> \in Lower(places)
      /\ \A p \in places : \E n \in 1 .. c : o[n] = p
  BY <1>2, <1>3, ArrangedIs
<1>5. Picked(list, places) = [n \in DOMAIN o |-> list[o[n]]]
  BY DEF Picked
<1> HIDE DEF o, c
<1>6. \A i, j \in 1 .. c : i < j => o[i] < o[j]
  BY <1>3, <1>4
<1>7. DOMAIN o = 1 .. c
  BY <1>4
<1>8. Picked(list, places) = [n \in 1 .. c |-> list[o[n]]]
  BY <1>5, <1>7
<1>9. \A n \in 1 .. c : list[o[n]] \in T
  BY <1>4
<1>10. [n \in 1 .. c |-> list[o[n]]] \in Seq(T) /\ Len([n \in 1 .. c |-> list[o[n]]]) = c
  BY <1>4, <1>9
<1> QED
  BY <1>2, <1>4, <1>6, <1>8, <1>10 DEF o, c

\* The operators of a view are the ones of Arrangement.
LEMMA SameArrangement ==
  /\ \A S, R : Metrics!Arranged(S, R) = Arranged(S, R) /\ List!Arranged(S, R) = Arranged(S, R)
  /\ \A list, places : Metrics!Picked(list, places) = Picked(list, places) /\ List!Picked(list, places) = Picked(list, places)
<1>1. ASSUME NEW S, NEW R
      PROVE  Metrics!Arranged(S, R) = Arranged(S, R) /\ List!Arranged(S, R) = Arranged(S, R)
  BY DEF Metrics!Arranged, List!Arranged, Arranged, Metrics!Ahead, List!Ahead, Ahead,
         Metrics!Cardinality, List!Cardinality, Cardinality
<1>2. ASSUME NEW S
      PROVE  Metrics!Lower(S) = Lower(S) /\ List!Lower(S) = Lower(S)
  BY DEF Metrics!Lower, List!Lower, Lower
<1>3. ASSUME NEW list, NEW places
      PROVE  Metrics!Picked(list, places) = Picked(list, places) /\ List!Picked(list, places) = Picked(list, places)
  BY <1>1, <1>2 DEF Metrics!Picked, List!Picked, Picked
<1> QED
  BY <1>1, <1>3

-----------------------------------------------------------------------------
(* The metrics of the signals (SignalMetrics).  Every listed symbol is     *)
(* asked for, or comes from before a reload; what is asked for waits in    *)
(* the batch, with the timer on, or in a request, or is answered.          *)

Waits(s) ==
  \/ s \in batch /\ timer
  \/ \E syms \in metricsAsks : s \in syms
  \/ s \in refused
  \/ metrics[s] # None

MetricsInv ==
  /\ listed \in Seq(MetricKinds)
  /\ filter \in Filters /\ sort.key \in SortKeys \union {None}
  /\ \A s \in Metrics!AllSymbols : metrics[s] \in {None, MetricsOf[s]}
  /\ fetching \subseteq Metrics!AllSymbols /\ \A syms \in metricsAsks : syms \subseteq Metrics!AllSymbols
  /\ batch \subseteq Metrics!AllSymbols
  /\ \A i \in DOMAIN listed : listed[i].symbol \in fetching \union restored
  /\ \A s \in fetching : Waits(s)

\* No signal is listed and nothing asked for yet.
LEMMA MetricsInit == Metrics!Init => MetricsInv
BY DEF Metrics!Init, Metrics!NoMetrics, MetricsInv

\* A list with a row put first, and the others among those of the list.
LEMMA PushedList ==
  ASSUME NEW T, NEW k \in T, NEW list \in Seq(T)
  PROVE  LET pushed == <<k>> \o Metrics!Others(list, k) IN
         /\ pushed \in Seq(T)
         /\ \A n \in DOMAIN pushed : pushed[n] = k \/ \E i \in DOMAIN list : pushed[n] = list[i]
<1> DEFINE places == {i \in DOMAIN list : list[i] # k}
           others == Picked(list, places)
           pushed == <<k>> \o others
           o == Arranged(places, Lower(places))
<1>1. Metrics!Others(list, k) = others
  BY SameArrangement DEF Metrics!Others
<1>2. /\ Cardinality(places) \in Nat /\ o \in [1 .. Cardinality(places) -> places]
      /\ others = [n \in 1 .. Cardinality(places) |-> list[o[n]]]
      /\ others \in Seq(T) /\ Len(others) = Cardinality(places)
  <2>1. places \in SUBSET DOMAIN list
    OBVIOUS
  <2> HIDE DEF places
  <2> QED
    BY <2>1, PickedIs
<1>3. \A n \in 1 .. Len(others) : \E i \in DOMAIN list : others[n] = list[i]
  BY <1>2
<1> HIDE DEF others
<1>4. pushed \in Seq(T) /\ Len(pushed) = 1 + Len(others) /\ DOMAIN pushed = 1 .. 1 + Len(others)
  BY <1>2
<1>5. \A n \in 1 .. 1 + Len(others) : pushed[n] = IF n = 1 THEN k ELSE others[n - 1]
  BY <1>2
<1>6. ASSUME NEW n \in DOMAIN pushed
      PROVE  pushed[n] = k \/ \E i \in DOMAIN list : pushed[n] = list[i]
  <2>1. n \in 1 .. 1 + Len(others) /\ Len(others) \in Nat
    BY <1>2, <1>4
  <2>2. CASE n = 1
    BY <1>5, <2>1, <2>2
  <2>3. CASE n # 1
    <3>1. n - 1 \in 1 .. Len(others) /\ pushed[n] = others[n - 1]
      BY <1>5, <2>1, <2>3
    <3> QED
      BY <1>3, <3>1
  <2> QED
    BY <2>2, <2>3
<1> QED
  BY <1>1, <1>4, <1>6 DEF others

\* Every step of the hook, the server and the toolbar keeps the invariant.
LEMMA MetricsNext == MetricsInv /\ [Metrics!Next]_(Metrics!signalMetricsVars) => MetricsInv'
<1> SUFFICES ASSUME MetricsInv, [Metrics!Next]_(Metrics!signalMetricsVars)
             PROVE  MetricsInv'
  OBVIOUS
<1> USE DEF Metrics!fetchVars
<1>1. ASSUME NEW k \in MetricKinds, Metrics!Push(k)
      PROVE  MetricsInv'
  <2>1. k.symbol \in Metrics!AllSymbols
    BY CockpitViewsAssumption DEF Metrics!SignalMetricsAssumption
  <2>2. listed \in Seq(MetricKinds) /\ \A i \in DOMAIN listed : listed[i].symbol \in fetching \union restored
    BY DEF MetricsInv
  <2>3. /\ listed' \in Seq(MetricKinds)
        /\ \A n \in DOMAIN listed' : listed'[n] = k \/ \E i \in DOMAIN listed : listed'[n] = listed[i]
    <3>1. CASE listed' = <<k>> \o Metrics!Others(listed, k)
      BY <2>2, <3>1, PushedList
    <3>2. CASE listed = <<>> /\ listed' = <<k>> \o <<>>
      BY <3>2
    <3>3. CASE listed # <<>> /\ listed' = <<k>> \o Metrics!Others(SubSeq(listed, 1, Len(listed) - 1), k)
      <4>1. PICK front : front = SubSeq(listed, 1, Len(listed) - 1)
        OBVIOUS
      <4>2. front \in Seq(MetricKinds) /\ \A i \in DOMAIN front : i \in DOMAIN listed /\ front[i] = listed[i]
        BY <2>2, <3>3, <4>1
      <4>3. listed' = <<k>> \o Metrics!Others(front, k)
        BY <3>3, <4>1
      <4>4. /\ listed' \in Seq(MetricKinds)
            /\ \A n \in DOMAIN listed' : listed'[n] = k \/ \E i \in DOMAIN front : listed'[n] = front[i]
        BY <4>2, <4>3, PushedList
      <4> QED
        BY <4>2, <4>4
    <3> QED
      BY <1>1, <3>1, <3>2, <3>3 DEF Metrics!Push
  <2>4. /\ restored' = restored \ {k.symbol}
        /\ UNCHANGED <<filter, sort, metricsAsks, metrics, refused>>
    BY <1>1 DEF Metrics!Push, Metrics!QueueMetrics
  <2>5. fetching' = fetching \union {k.symbol} /\ batch \subseteq batch' /\ batch' \subseteq batch \union {k.symbol}
    BY <1>1 DEF Metrics!Push, Metrics!QueueMetrics
  <2>6. (timer => timer') /\ (k.symbol \notin fetching => k.symbol \in batch' /\ timer')
    BY <1>1 DEF Metrics!Push, Metrics!QueueMetrics
  <2>7. \A n \in DOMAIN listed' : listed'[n].symbol \in fetching' \union restored'
    BY <2>2, <2>3, <2>4, <2>5
  <2>8. \A s \in fetching' : Waits(s)'
    BY <2>4, <2>5, <2>6 DEF MetricsInv, Waits
  <2> QED
    BY <2>1, <2>3, <2>4, <2>5, <2>7, <2>8 DEF MetricsInv
<1>2. CASE Metrics!Clear
  BY <1>2 DEF Metrics!Clear, MetricsInv, Waits
<1>3. CASE Metrics!Reload
  <2>1. UNCHANGED <<listed, filter>> /\ fetching' = {} /\ batch' = {} /\ metricsAsks' = {} /\ sort'.key = None
    BY <1>3 DEF Metrics!Reload
  <2>2. metrics' = Metrics!NoMetrics
    BY <1>3 DEF Metrics!Reload
  <2>3. \A i \in DOMAIN listed : listed[i].symbol \in restored'
    BY <1>3 DEF Metrics!Reload, Metrics!Range
  <2>4. \A s \in Metrics!AllSymbols : metrics'[s] = None
    BY <2>2 DEF Metrics!NoMetrics
  <2> QED
    BY <2>1, <2>3, <2>4 DEF MetricsInv
<1>4. CASE Metrics!FlushMetricsBatch
  <2>1. /\ metricsAsks' = metricsAsks \union {batch} /\ batch' = {}
        /\ UNCHANGED <<listed, fetching, metrics, refused, filter, sort, restored>>
    BY <1>4 DEF Metrics!FlushMetricsBatch
  <2>2. \A s \in fetching : Waits(s)'
    BY <2>1 DEF MetricsInv, Waits
  <2> QED
    BY <2>1, <2>2 DEF MetricsInv
<1>5. CASE Metrics!ClearSort
  BY <1>5 DEF Metrics!ClearSort, MetricsInv, Waits
<1>6. ASSUME NEW syms \in metricsAsks, Metrics!Answer(syms)
      PROVE  MetricsInv'
  <2>1. /\ metricsAsks' = metricsAsks \ {syms}
        /\ UNCHANGED <<listed, fetching, batch, timer, filter, sort, restored>>
        /\ refused' = refused \union {s \in syms : MetricsOf[s] = None}
    BY <1>6 DEF Metrics!Answer
  <2>2. \A s \in Metrics!AllSymbols :
          metrics'[s] = IF s \in syms THEN (IF MetricsOf[s] # None THEN MetricsOf[s] ELSE metrics[s]) ELSE metrics[s]
    BY <1>6 DEF Metrics!Answer, Metrics!OrElse
  <2>3. \A s \in Metrics!AllSymbols : metrics'[s] \in {None, MetricsOf[s]} /\ (metrics[s] # None => metrics'[s] # None)
    BY <2>2 DEF MetricsInv
  <2>4. ASSUME NEW s \in fetching
        PROVE  Waits(s)'
    <3>1. s \in Metrics!AllSymbols /\ Waits(s)
      BY DEF MetricsInv
    <3>2. CASE s \in syms
      BY <2>1, <2>2, <3>1, <3>2 DEF Waits
    <3>3. CASE s \notin syms
      BY <2>1, <2>3, <3>1, <3>3 DEF Waits
    <3> QED
      BY <3>2, <3>3
  <2> QED
    BY <2>1, <2>3, <2>4 DEF MetricsInv
<1>7. ASSUME NEW syms \in metricsAsks, Metrics!Fail(syms)
      PROVE  MetricsInv'
  <2>1. /\ metricsAsks' = metricsAsks \ {syms} /\ refused' = refused \union syms
        /\ UNCHANGED <<listed, fetching, batch, timer, metrics, filter, sort, restored>>
    BY <1>7 DEF Metrics!Fail
  <2>2. \A s \in fetching : Waits(s)'
    BY <2>1 DEF MetricsInv, Waits
  <2> QED
    BY <2>1, <2>2 DEF MetricsInv
<1>8. ASSUME NEW f \in Filters, Metrics!SetFilter(f)
      PROVE  MetricsInv'
  BY <1>8 DEF Metrics!SetFilter, MetricsInv, Waits
<1>9. ASSUME NEW c \in SortKeys, Metrics!HandleSort(c)
      PROVE  MetricsInv'
  <2>1. sort'.key = c /\ UNCHANGED <<listed, fetching, batch, timer, metricsAsks, metrics, refused, filter, restored>>
    BY <1>9 DEF Metrics!HandleSort
  <2> QED
    BY <2>1 DEF MetricsInv, Waits
<1>10. CASE UNCHANGED Metrics!signalMetricsVars
  BY <1>10 DEF Metrics!signalMetricsVars, MetricsInv, Waits
<1> QED
  BY <1>1, <1>2, <1>3, <1>4, <1>5, <1>6, <1>7, <1>8, <1>9, <1>10 DEF Metrics!Next

\* A step of the cockpit is one of the metrics, or none.
LEMMA MetricsStep == [Next]_vars => [Metrics!Next]_(Metrics!signalMetricsVars)
BY DEF Next, vars, ListSteps, ChartSteps, ModalSteps, RegimeSteps, MetricsSteps, AccountsSteps, ConfigSteps,
       metricsVars, Metrics!signalMetricsVars, Metrics!fetchVars

\* The value of a listed signal in a column is a number or missing.
LEMMA SortValueIs ==
  ASSUME MetricsInv, NEW k \in MetricKinds, NEW c \in SortKeys
  PROVE  Metrics!SortValue(k, c, metrics) \in Int \union {None}
<1>1. k.symbol \in Metrics!AllSymbols /\ metrics[k.symbol] \in {None, MetricsOf[k.symbol]}
  BY CockpitViewsAssumption DEF Metrics!SignalMetricsAssumption, MetricsInv
<1>2. PICK now \in {MetricsOf, Metrics!NoMetrics} : now[k.symbol] = metrics[k.symbol]
  BY <1>1 DEF Metrics!NoMetrics
<1>3. Metrics!SortValue(k, c, now) \in Int \union {None}
  BY CockpitViewsAssumption DEF Metrics!SignalMetricsAssumption
<1>4. Metrics!SortValue(k, c, now) = Metrics!SortValue(k, c, metrics)
  BY <1>2 DEF Metrics!SortValue
<1> QED
  BY <1>3, <1>4

\* What is listed are signals that pass the filter, in the order of the column.
LEMMA ListedPass ==
  ASSUME MetricsInv
  PROVE  /\ \A s \in Metrics!Range(Metrics!SortedFiltered) :
              \E i \in DOMAIN listed : s = listed[i] /\ Metrics!PassesFilter(listed[i], filter, metrics)
         /\ sort.key # None => Metrics!InOrder(Metrics!SortedFiltered)
<1> DEFINE places == Metrics!FilterSignals(listed, filter, metrics)
           R == Metrics!Sooner(listed, places, sort, metrics)
           order == Arranged(places, R)
           Value(i) == Metrics!SortValue(listed[i], sort.key, metrics)
           V == [i \in places |-> Value(i)]
           shownSignals == Metrics!SortedFiltered
<1>1. listed \in Seq(MetricKinds) /\ DOMAIN listed = 1 .. Len(listed) /\ Len(listed) \in Nat
  BY DEF MetricsInv
<1>2. places \subseteq DOMAIN listed /\ \A i \in places : Metrics!PassesFilter(listed[i], filter, metrics)
  BY DEF Metrics!FilterSignals
<1>3. shownSignals = IF sort.key = None THEN Picked(listed, places) ELSE [n \in DOMAIN order |-> listed[order[n]]]
  BY SameArrangement DEF Metrics!SortedFiltered, Metrics!SortedSignals
<1>4. CASE sort.key = None
  <2>1. shownSignals = Picked(listed, places)
    BY <1>3, <1>4
  <2> DEFINE o == Arranged(places, Lower(places))
  <2> HIDE DEF places, shownSignals
  <2>2. /\ Picked(listed, places) = [n \in 1 .. Cardinality(places) |-> listed[o[n]]]
        /\ o \in [1 .. Cardinality(places) -> places]
    BY <1>1, <1>2, PickedIs
  <2>3. \A s \in Metrics!Range(shownSignals) : \E i \in places : s = listed[i]
    BY <2>1, <2>2 DEF Metrics!Range
  <2> QED
    BY <1>2, <1>4, <2>3 DEF shownSignals
<1>5. CASE sort.key # None
  <2>1. shownSignals = [n \in DOMAIN order |-> listed[order[n]]]
    BY <1>3, <1>5
  <2>2. \A i \in places : Value(i) \in Int \union {None}
    BY <1>1, <1>2, <1>5, SortValueIs DEF MetricsInv
  <2>3. \A i, j \in places : <<i, j>> \in R <=>
          Puts(Value(i), Value(j), sort.asc) \/ (~Puts(Value(j), Value(i), sort.asc) /\ i < j)
    BY DEF Metrics!Sooner, Metrics!Precedes, Puts
  <2> HIDE DEF places, shownSignals, R, Value
  <2>4. \A i \in places : V[i] = Value(i)
    OBVIOUS
  <2> HIDE DEF V
  <2>5. IsFiniteSet(places) /\ places \in SUBSET Int
    BY <1>1, <1>2, PickedIs
  <2>6. /\ StrictTotal(places, R)
        /\ \A i, j \in places : <<i, j>> \in R /\ V[j] # None =>
             V[i] # None /\ (IF sort.asc THEN V[i] <= V[j] ELSE V[i] >= V[j])
    <3>1. \A i \in places : V[i] \in Int \union {None}
      BY <2>2, <2>4
    <3>2. PICK asc : asc = sort.asc
      OBVIOUS
    <3>3. ByColumn(places, V, asc, R)
      BY <2>3, <2>4, <3>1, <3>2 DEF ByColumn
    <3>4. StrictTotal(places, R) /\ NoneBefore(places, V, asc, R)
      BY <2>5, <3>3, StableOrder
    <3> QED
      BY <3>2, <3>4 DEF NoneBefore
  <2>7. /\ order \in [1 .. Cardinality(places) -> places] /\ Cardinality(places) \in Nat
        /\ \A i, j \in 1 .. Cardinality(places) : i < j => <<order[i], order[j]>> \in R
    BY <2>5, <2>6, ArrangedIs
  <2> HIDE DEF order
  <2>8. DOMAIN shownSignals = 1 .. Cardinality(places)
    BY <2>1, <2>7
  <2>9. \A n \in 1 .. Cardinality(places) : shownSignals[n] = listed[order[n]] /\ order[n] \in places
    BY <2>1, <2>7
  <2>10. \A s \in Metrics!Range(shownSignals) : \E i \in places : s = listed[i]
    BY <2>8, <2>9 DEF Metrics!Range
  <2>11. Metrics!InOrder(shownSignals)
    <3> SUFFICES ASSUME NEW i \in DOMAIN shownSignals, NEW j \in DOMAIN shownSignals, i < j,
                        Metrics!SortValue(shownSignals[j], sort.key, metrics) # None
                 PROVE  LET a == Metrics!SortValue(shownSignals[i], sort.key, metrics)
                            b == Metrics!SortValue(shownSignals[j], sort.key, metrics)
                        IN a # None /\ (IF sort.asc THEN a <= b ELSE a >= b)
      BY DEF Metrics!InOrder
    <3>1. /\ Metrics!SortValue(shownSignals[i], sort.key, metrics) = V[order[i]]
          /\ Metrics!SortValue(shownSignals[j], sort.key, metrics) = V[order[j]]
      BY <2>4, <2>8, <2>9 DEF Value
    <3>2. <<order[i], order[j]>> \in R /\ order[i] \in places /\ order[j] \in places
      BY <2>7, <2>8, <2>9
    <3> QED
      BY <2>6, <3>1, <3>2
  <2> QED
    BY <1>2, <2>10, <2>11 DEF shownSignals
<1> QED
  BY <1>4, <1>5

(***************************************************************************)
(* useSignals, useSignalSort: an illiquid signal is listed under a         *)
(* liquidity limit only while its metrics are asked for, after they were   *)
(* refused, or from before a reload, whatever is pushed, answered, fails   *)
(* or is reloaded in between; and the list is in the order of its column.  *)
(***************************************************************************)
THEOREM IlliquidIsUnanswered == Spec => []IlliquidListedOnlyUnanswered
<1>1. Init => MetricsInv
  BY MetricsInit DEF Init
<1>2. MetricsInv /\ [Next]_vars => MetricsInv'
  BY MetricsNext, MetricsStep
<1>3. MetricsInv => IlliquidListedOnlyUnanswered
  <2> SUFFICES ASSUME MetricsInv
               PROVE  IlliquidListedOnlyUnanswered
    OBVIOUS
  <2>1. /\ \A s \in Metrics!Range(Metrics!SortedFiltered) :
             \E i \in DOMAIN listed : s = listed[i] /\ Metrics!PassesFilter(listed[i], filter, metrics)
        /\ sort.key # None => Metrics!InOrder(Metrics!SortedFiltered)
    BY ListedPass
  <2>2. ASSUME NEW s \in Metrics!Range(Metrics!SortedFiltered), filter.minAdv > 0,
               MetricsOf[s.symbol] = None \/ MetricsOf[s.symbol].adv < filter.minAdv
        PROVE  \/ s.symbol \in batch /\ timer
               \/ \E syms \in metricsAsks : s.symbol \in syms
               \/ s.symbol \in refused \union restored
    <3>1. PICK i \in DOMAIN listed : s = listed[i] /\ Metrics!PassesFilter(s, filter, metrics)
      BY <2>1
    <3>2. s \in MetricKinds /\ s.symbol \in fetching \union restored /\ filter.minAdv \in Nat
      BY <3>1, CockpitViewsAssumption DEF MetricsInv, Metrics!SignalMetricsAssumption
    <3>3. metrics[s.symbol] = None
      <4>1. PICK m : m = MetricsOf[s.symbol]
        OBVIOUS
      <4>2. metrics[s.symbol] \in {None, m} /\ (m # None => m.adv \in Int \union {None})
        BY <3>2, <4>1, CockpitViewsAssumption DEF MetricsInv, Metrics!SignalMetricsAssumption
      <4>3. metrics[s.symbol] # None => Metrics!OrElse(m.adv, 0) >= filter.minAdv
        BY <2>2, <3>1, <4>2 DEF Metrics!PassesFilter
      <4> QED
        BY <2>2, <3>2, <4>1, <4>2, <4>3 DEF Metrics!OrElse
    <3> QED
      BY <3>2, <3>3 DEF MetricsInv, Waits
  <2> QED
    BY <2>1, <2>2 DEF IlliquidListedOnlyUnanswered, Metrics!IlliquidListedOnlyUnanswered
<1> QED
  BY <1>1, <1>2, <1>3, PTL DEF Spec

-----------------------------------------------------------------------------
(* The stock list (StockList).  Unless requests overlapped there is at     *)
(* most one, for the page after the rows of the last ones; and unless the  *)
(* symbols of the server changed or moved, those of the rows are the first *)
(* of the load's.                                                          *)

SymbolsIn(list) == {r.symbol : r \in List!Range(list)}

OneEach(list) == \A i, j \in DOMAIN list : list[i].symbol = list[j].symbol => i = j

\* The rows have the first so many symbols.
Covers(list, order, n) == n \in 0 .. Len(order) /\ SymbolsIn(list) = {order[i] : i \in 1 .. n}

OneRequest ==
  /\ \A q, r \in requests : q = r
  /\ \A r \in requests : r.kind = "more" => r.at = offset

InStep ==
  \E n \in Nat : Covers(rows, listing, n) /\ offset <= n /\ (~hasMore => n = Len(listing))

ListInv ==
  /\ listSent \in Nat /\ offset \in Nat /\ overlapped \in BOOLEAN /\ reordered \in BOOLEAN
  /\ rows \in Seq(List!Stocks) /\ OneEach(rows)
  /\ Len(listing) \in Nat /\ DOMAIN listing = 1 .. Len(listing)
  /\ \A r \in requests : r.kind \in {"load", "more"} /\ r.at \in Nat /\ (r.kind = "load" => r.at = 0)
  /\ listSort.col \in Columns \union {"symbol"}
  /\ ~overlapped => OneRequest
  /\ ~overlapped /\ ~reordered => InStep

\* Sequences made of functions.
LEMMA FunIsSeq ==
  ASSUME NEW T, NEW m \in Nat, NEW f, f = [k \in 1 .. m |-> f[k]], \A k \in 1 .. m : f[k] \in T
  PROVE  f \in Seq(T) /\ Len(f) = m /\ DOMAIN f = 1 .. m
OBVIOUS

\* How many numbers of an interval are lower than one of its.
LEMMA RankInInterval ==
  ASSUME NEW a \in Int, NEW b \in Int, NEW x \in a .. b
  PROVE  Ahead(a .. b, Lower(a .. b), x) = x - a
<1>1. {y \in a .. b : <<y, x>> \in Lower(a .. b)} = a .. x - 1
  BY DEF Lower
<1>2. Cardinality(a .. x - 1) = x - a
  <2>1. Cardinality(a .. x - 1) = IF a > x - 1 THEN 0 ELSE (x - 1) - a + 1
    BY FS_Interval
  <2> QED
    BY <2>1
<1> QED
  BY <1>1, <1>2 DEF Ahead

\* The symbols of a list, by its places.
LEMMA ByPlaces ==
  ASSUME NEW T, NEW list \in Seq(T), NEW n \in Nat, n = Len(list)
  PROVE  /\ DOMAIN list = 1 .. n
         /\ SymbolsIn(list) = {list[i].symbol : i \in 1 .. n}
         /\ OneEach(list) <=> \A i, j \in 1 .. n : list[i].symbol = list[j].symbol => i = j
<1>1. DOMAIN list = 1 .. n
  OBVIOUS
<1> QED
  BY <1>1 DEF SymbolsIn, OneEach, List!Range

\* The rows of the server: as many as its stocks, one for each symbol.
LEMMA SnapshotIs ==
  ASSUME NEW s \in Snapshots
  PROVE  /\ Len(s) \in Nat /\ DOMAIN s = 1 .. Len(s)
         /\ DOMAIN List!StockRows(s) = 1 .. Len(s) /\ Len(List!StockRows(s)) = Len(s)
         /\ List!StockRows(s) \in Seq(List!Stocks)
         /\ DOMAIN List!SymbolsOf(s) = 1 .. Len(s) /\ Len(List!SymbolsOf(s)) = Len(s)
         /\ \A i \in 1 .. Len(s) : List!StockRows(s)[i].symbol = List!SymbolsOf(s)[i]
         /\ \A i, j \in 1 .. Len(s) : List!SymbolsOf(s)[i] = List!SymbolsOf(s)[j] => i = j
         /\ PageSize \in Nat \ {0}
<1>1. /\ s \in Seq(List!Range(s)) /\ PageSize \in Nat \ {0}
      /\ \A i, j \in DOMAIN s : s[i].symbol = s[j].symbol => i = j
      /\ \A i \in DOMAIN s : List!Decorated(s[i]).symbol = s[i].symbol
  BY CockpitViewsAssumption DEF List!StockListAssumption
<1>2. PICK n \in Nat : n = Len(s) /\ DOMAIN s = 1 .. n
  BY <1>1
<1>3. PICK r, o : r = List!StockRows(s) /\ o = List!SymbolsOf(s)
  OBVIOUS
<1>4. r = [i \in 1 .. n |-> List!Decorated(s[i])] /\ o = [i \in 1 .. n |-> s[i].symbol]
  BY <1>2, <1>3 DEF List!StockRows, List!SymbolsOf
<1>5. \A i \in 1 .. n : r[i] \in List!Stocks
  <2>1. \A i \in 1 .. n : r[i] \in List!Range(List!StockRows(s))
    BY <1>3, <1>4 DEF List!Range
  <2> QED
    BY <2>1 DEF List!Stocks
<1>6. r \in Seq(List!Stocks) /\ Len(r) = n /\ DOMAIN r = 1 .. n
  <2>1. r = [i \in 1 .. n |-> r[i]]
    BY <1>4
  <2> QED
    BY <1>5, <2>1, FunIsSeq
<1>7. Len(o) = n /\ DOMAIN o = 1 .. n
  <2>1. PICK T : T = {o[i] : i \in 1 .. n}
    OBVIOUS
  <2>2. o = [i \in 1 .. n |-> o[i]] /\ \A i \in 1 .. n : o[i] \in T
    BY <1>4, <2>1
  <2> QED
    BY <2>2, FunIsSeq
<1>8. \A i \in 1 .. n : r[i].symbol = o[i] /\ o[i] = s[i].symbol
  BY <1>1, <1>2, <1>4
<1> QED
  BY <1>1, <1>2, <1>3, <1>6, <1>7, <1>8

\* No page is asked for yet.
LEMMA ListInit == List!Init => ListInv
<1> SUFFICES ASSUME List!Init
             PROVE  ListInv
  OBVIOUS
<1>1. /\ rows = <<>> /\ requests = {} /\ listSent = 0 /\ offset = 0 /\ overlapped = FALSE
      /\ listing = <<>> /\ reordered = FALSE /\ listSort.col = "symbol"
  BY DEF List!Init
<1>2. DOMAIN rows = {} /\ Len(listing) = 0 /\ DOMAIN listing = 1 .. 0 /\ rows \in Seq(List!Stocks)
  BY <1>1
<1>3. SymbolsIn(rows) = {} /\ OneEach(rows)
  BY <1>2 DEF SymbolsIn, OneEach, List!Range
<1>4. 1 .. 0 = {} /\ 0 \in 0 .. 0
  OBVIOUS
<1>5. Covers(rows, listing, 0)
  BY <1>2, <1>3, <1>4 DEF Covers
<1>6. OneRequest
  BY <1>1 DEF OneRequest
<1>7. InStep
  BY <1>1, <1>2, <1>5 DEF InStep
<1> QED
  BY <1>1, <1>2, <1>3, <1>6, <1>7 DEF ListInv

\* A page has the rows after the first so many, one for each symbol.
LEMMA PageIs ==
  ASSUME NEW s \in Snapshots, NEW at \in Nat
  PROVE  /\ List!Page(s, at) \in Seq(List!Stocks) /\ Len(List!Page(s, at)) \in Nat /\ OneEach(List!Page(s, at))
         /\ at <= Len(s) =>
              /\ at + Len(List!Page(s, at)) <= Len(s)
              /\ SymbolsIn(List!Page(s, at)) =
                   {List!SymbolsOf(s)[i] : i \in at + 1 .. at + Len(List!Page(s, at))}
<1>a. PICK n \in Nat : n = Len(s)
  BY SnapshotIs
<1>b. PICK r \in Seq(List!Stocks) : r = List!StockRows(s) /\ Len(r) = n
  BY <1>a, SnapshotIs
<1>c. PICK o : o = List!SymbolsOf(s)
  OBVIOUS
<1>1. /\ \A i \in 1 .. n : r[i].symbol = o[i]
      /\ \A i, j \in 1 .. n : o[i] = o[j] => i = j
  BY <1>a, <1>b, <1>c, SnapshotIs
<1>2. PageSize \in Nat \ {0}
  BY SnapshotIs
<1>3. \A a, b \in Int : List!Min({a, b}) = IF a <= b THEN a ELSE b
  BY DEF List!Min
<1>4. PICK e \in Nat : e = List!Min({at + PageSize, n}) /\ e <= n /\ (at <= n => at <= e)
  BY <1>2, <1>3
<1>5. PICK p : p = List!Page(s, at)
  OBVIOUS
<1>6. p = SubSeq(r, at + 1, e)
  BY <1>a, <1>b, <1>4, <1>5 DEF List!Page
<1>7. PICK m \in Nat : m = IF at <= e THEN e - at ELSE 0
  BY <1>4
<1>8. p \in Seq(List!Stocks) /\ Len(p) = m /\ \A k \in 1 .. m : p[k] = r[at + k]
  <2>1. CASE at < e
    <3>1. /\ SubSeq(r, at + 1, e) \in Seq(List!Stocks)
          /\ Len(SubSeq(r, at + 1, e)) = e - (at + 1) + 1
          /\ \A k \in 1 .. e - (at + 1) + 1 : SubSeq(r, at + 1, e)[k] = r[at + 1 + k - 1]
      <4>1. \A i \in at + 1 .. e : r[i] \in List!Stocks
        <5>1. DOMAIN r = 1 .. n /\ \A i \in 1 .. n : r[i] \in List!Stocks
          BY <1>b
        <5>2. at + 1 .. e \subseteq 1 .. n
          BY <1>4
        <5> QED
          BY <5>1, <5>2
      <4>2. at + 1 \in Int /\ e \in Int /\ at + 1 <= e
        BY <1>4, <2>1
      <4> QED
        BY <4>1, <4>2, SubSeqProperties
    <3>2. m = e - (at + 1) + 1 /\ \A k \in 1 .. m : at + 1 + k - 1 = at + k
      BY <1>4, <1>7, <2>1
    <3> QED
      BY <1>6, <3>1, <3>2
  <2>2. CASE ~(at < e)
    <3>1. SubSeq(r, at + 1, e) = <<>>
      BY <1>b, <1>4, <2>2
    <3>2. p = <<>> /\ m = 0
      BY <1>4, <1>6, <1>7, <2>2, <3>1
    <3> QED
      BY <3>2
  <2> QED
    BY <2>1, <2>2
<1>9. \A k \in 1 .. m : at + k \in 1 .. n /\ p[k].symbol = o[at + k]
  <2>1. \A k \in 1 .. m : at + k \in 1 .. n
    BY <1>4, <1>7
  <2> QED
    BY <1>1, <1>8, <2>1
<1>10. OneEach(p)
  <2>1. ASSUME NEW i \in 1 .. m, NEW j \in 1 .. m, p[i].symbol = p[j].symbol
        PROVE  i = j
    <3>1. PICK a \in 1 .. n, b \in 1 .. n : a = at + i /\ b = at + j /\ o[a] = o[b]
      BY <1>9, <2>1
    <3>2. a = b
      BY <1>1, <3>1
    <3> QED
      BY <3>1, <3>2
  <2> QED
    BY <1>8, <2>1, ByPlaces
<1>11. ASSUME at <= n
       PROVE  at + m <= n /\ SymbolsIn(p) = {o[i] : i \in at + 1 .. at + m}
  <2>1. at + m <= n
    BY <1>4, <1>7, <1>11
  <2>2. SymbolsIn(p) = {p[k].symbol : k \in 1 .. m}
    BY <1>8, ByPlaces
  <2>3. {p[k].symbol : k \in 1 .. m} = {o[at + k] : k \in 1 .. m}
    BY <1>9
  <2>4. \A i \in at + 1 .. at + m : i - at \in 1 .. m /\ at + (i - at) = i
    OBVIOUS
  <2>5. \A k \in 1 .. m : at + k \in at + 1 .. at + m
    OBVIOUS
  <2>6. {o[at + k] : k \in 1 .. m} = {o[i] : i \in at + 1 .. at + m}
    <3>1. \A k \in 1 .. m : o[at + k] \in {o[i] : i \in at + 1 .. at + m}
      BY <2>5
    <3>2. \A i \in at + 1 .. at + m : o[i] \in {o[at + k] : k \in 1 .. m}
      BY <2>4
    <3> QED
      BY <3>1, <3>2
  <2> QED
    BY <2>1, <2>2, <2>3, <2>6
<1> QED
  BY <1>a, <1>c, <1>5, <1>8, <1>10, <1>11

\* Rows merged with a page have the symbols of both, each once, whatever the page
\* was cut from.
LEMMA MergeIs ==
  ASSUME NEW old \in Seq(List!Stocks), NEW new \in Seq(List!Stocks), OneEach(old), OneEach(new)
  PROVE  /\ List!Merge(old, new) \in Seq(List!Stocks) /\ OneEach(List!Merge(old, new))
         /\ SymbolsIn(List!Merge(old, new)) = SymbolsIn(old) \union SymbolsIn(new)
<1> DEFINE Newer(r) == {x \in List!Range(new) : x.symbol = r.symbol}
           kept == [i \in DOMAIN old |-> IF Newer(old[i]) = {} THEN old[i] ELSE CHOOSE x \in Newer(old[i]) : TRUE]
           places == {k \in DOMAIN new : \A i \in DOMAIN old : old[i].symbol # new[k].symbol}
           others == Picked(new, places)
<1>1. List!Merge(old, new) = kept \o others
  BY SameArrangement DEF List!Merge
<1>2. PICK n \in Nat, m \in Nat : n = Len(old) /\ DOMAIN old = 1 .. n /\ m = Len(new) /\ DOMAIN new = 1 .. m
  OBVIOUS
<1>3. \A i \in 1 .. n : kept[i] \in List!Stocks /\ kept[i].symbol = old[i].symbol
  <2> SUFFICES ASSUME NEW i \in 1 .. n
               PROVE  kept[i] \in List!Stocks /\ kept[i].symbol = old[i].symbol
    OBVIOUS
  <2>1. List!Range(new) \subseteq List!Stocks
    BY DEF List!Range
  <2>2. Newer(old[i]) \subseteq List!Stocks /\ old[i] \in List!Stocks
    BY <1>2, <2>1
  <2>3. kept[i] = IF Newer(old[i]) = {} THEN old[i] ELSE CHOOSE x \in Newer(old[i]) : TRUE
    BY <1>2
  <2>4. \A x \in Newer(old[i]) : x.symbol = old[i].symbol
    OBVIOUS
  <2> HIDE DEF Newer, kept
  <2>5. Newer(old[i]) # {} => (CHOOSE x \in Newer(old[i]) : TRUE) \in Newer(old[i])
    OBVIOUS
  <2> QED
    BY <2>2, <2>3, <2>4, <2>5
<1>4. kept \in Seq(List!Stocks) /\ Len(kept) = n
  <2>1. kept = [i \in 1 .. n |-> kept[i]]
    BY <1>2
  <2> HIDE DEF kept
  <2> QED
    BY <1>3, <2>1, FunIsSeq
<1>5. PICK c, o : c = Cardinality(places) /\ o = Arranged(places, Lower(places))
  OBVIOUS
<1>o. /\ c \in Nat /\ others \in Seq(List!Stocks) /\ Len(others) = c
      /\ \A k \in 1 .. c : others[k] = new[o[k]] /\ o[k] \in places
      /\ \A i, j \in 1 .. c : i < j => o[i] < o[j]
      /\ \A p \in places : \E k \in 1 .. c : o[k] = p
  <2>1. places \in SUBSET DOMAIN new
    OBVIOUS
  <2> HIDE DEF places
  <2>2. /\ c \in Nat /\ o \in [1 .. c -> places]
        /\ \A i, j \in 1 .. c : i < j => o[i] < o[j]
        /\ \A p \in places : \E k \in 1 .. c : o[k] = p
        /\ others = [k \in 1 .. c |-> new[o[k]]]
        /\ others \in Seq(List!Stocks) /\ Len(others) = c
    BY <1>5, <2>1, PickedIs
  <2> HIDE DEF others
  <2> QED
    BY <2>2
<1>c. c \in Nat
  BY <1>o
<1>e. others \in Seq(List!Stocks) /\ Len(others) = c
  BY <1>o
<1>6. \A p \in places : p \in 1 .. m /\ \A i \in 1 .. n : old[i].symbol # new[p].symbol
  BY <1>2
<1>7. \A p \in 1 .. m : p \in places \/ \E i \in 1 .. n : old[i].symbol = new[p].symbol
  BY <1>2
<1> HIDE DEF kept, places, others
<1>8. PICK w : w = kept \o others
  OBVIOUS
<1>9. /\ w \in Seq(List!Stocks) /\ Len(w) = n + c /\ DOMAIN w = 1 .. n + c
      /\ \A i \in 1 .. n : w[i].symbol = old[i].symbol
      /\ \A k \in 1 .. c : w[n + k].symbol = new[o[k]].symbol
  <2>1. /\ w \in Seq(List!Stocks) /\ Len(w) = Len(kept) + Len(others)
        /\ \A i \in 1 .. Len(kept) + Len(others) : w[i] = IF i <= Len(kept) THEN kept[i] ELSE others[i - Len(kept)]
    BY <1>4, <1>e, <1>8, ConcatProperties
  <2>2. Len(w) = n + c /\ \A i \in 1 .. n + c : w[i] = IF i <= n THEN kept[i] ELSE others[i - n]
    BY <1>4, <1>e, <2>1
  <2>3. DOMAIN w = 1 .. n + c
    BY <1>c, <2>1, <2>2, ByPlaces
  <2>4. \A i \in 1 .. n : i \in 1 .. n + c /\ w[i] = kept[i]
    BY <1>c, <2>2
  <2>5. \A k \in 1 .. c : n + k \in 1 .. n + c /\ ~(n + k <= n) /\ (n + k) - n = k
    BY <1>c
  <2>6. \A k \in 1 .. c : w[n + k] = others[k]
    BY <2>2, <2>5
  <2> QED
    BY <1>3, <1>o, <2>1, <2>2, <2>3, <2>4, <2>6
<1>10. \A i \in 1 .. n + c : i \in 1 .. n \/ \E k \in 1 .. c : i = n + k
  <2> SUFFICES ASSUME NEW i \in 1 .. n + c, ~(i \in 1 .. n)
               PROVE  \E k \in 1 .. c : i = n + k
    OBVIOUS
  <2>1. i - n \in 1 .. c /\ i = n + (i - n)
    BY <1>c
  <2> QED
    BY <2>1
<1>a. \A i, j \in 1 .. n : old[i].symbol = old[j].symbol => i = j
  BY <1>2, ByPlaces
<1>b. \A p, q \in 1 .. m : new[p].symbol = new[q].symbol => p = q
  BY <1>2, ByPlaces
<1>11. ASSUME NEW i \in 1 .. n, NEW k \in 1 .. c
       PROVE  w[i].symbol # w[n + k].symbol
  <2>1. PICK p \in places : p = o[k]
    BY <1>o
  <2>2. old[i].symbol # new[p].symbol
    BY <1>6
  <2>3. w[i].symbol = old[i].symbol /\ w[n + k].symbol = new[p].symbol
    BY <1>9, <2>1
  <2> QED
    BY <2>2, <2>3
<1>12. ASSUME NEW i \in 1 .. n, NEW j \in 1 .. n, w[i].symbol = w[j].symbol
       PROVE  i = j
  <2>1. old[i].symbol = old[j].symbol
    BY <1>9, <1>12
  <2> QED
    BY <1>a, <2>1
<1>13. ASSUME NEW i \in 1 .. c, NEW j \in 1 .. c, w[n + i].symbol = w[n + j].symbol
       PROVE  i = j
  <2>1. PICK p \in 1 .. m, q \in 1 .. m : p = o[i] /\ q = o[j]
    BY <1>o, <1>6
  <2>2. new[p].symbol = new[q].symbol
    BY <1>9, <1>13, <2>1
  <2>3. p = q
    BY <1>b, <2>2
  <2>4. ~(o[i] < o[j]) /\ ~(o[j] < o[i])
    BY <2>1, <2>3
  <2> QED
    BY <1>c, <1>o, <2>4
<1>14. OneEach(w)
  <2> SUFFICES ASSUME NEW i \in 1 .. n + c, NEW j \in 1 .. n + c, w[i].symbol = w[j].symbol
               PROVE  i = j
    BY <1>c, <1>9, ByPlaces
  <2>1. CASE i \in 1 .. n /\ j \in 1 .. n
    BY <1>12, <2>1
  <2>2. CASE i \in 1 .. n /\ ~(j \in 1 .. n)
    BY <1>10, <1>11, <2>2
  <2>3. CASE ~(i \in 1 .. n) /\ j \in 1 .. n
    BY <1>10, <1>11, <2>3
  <2>4. CASE ~(i \in 1 .. n) /\ ~(j \in 1 .. n)
    BY <1>10, <1>13, <2>4
  <2> QED
    BY <2>1, <2>2, <2>3, <2>4
<1>15. SymbolsIn(w) = SymbolsIn(old) \union SymbolsIn(new)
  <2>a. SymbolsIn(w) = {w[i].symbol : i \in 1 .. n + c}
    <3>1. n + c \in Nat /\ w \in Seq(List!Stocks) /\ n + c = Len(w)
      BY <1>c, <1>9
    <3> QED
      BY <3>1, ByPlaces
  <2>b. SymbolsIn(old) = {old[i].symbol : i \in 1 .. n} /\ SymbolsIn(new) = {new[k].symbol : k \in 1 .. m}
    BY <1>2, ByPlaces
  <2>1. /\ SymbolsIn(w) = {w[i].symbol : i \in 1 .. n + c}
        /\ SymbolsIn(old) = {old[i].symbol : i \in 1 .. n}
        /\ SymbolsIn(new) = {new[k].symbol : k \in 1 .. m}
    BY <2>a, <2>b
  <2>2. ASSUME NEW i \in 1 .. n + c
        PROVE  w[i].symbol \in SymbolsIn(old) \union SymbolsIn(new)
    <3>1. CASE i \in 1 .. n
      BY <1>9, <2>1, <3>1
    <3>2. CASE ~(i \in 1 .. n)
      <4>1. PICK k \in 1 .. c : i = n + k
        BY <1>10, <3>2
      <4>2. w[i].symbol = new[o[k]].symbol /\ o[k] \in 1 .. m
        BY <1>o, <1>6, <1>9, <4>1
      <4> QED
        BY <2>1, <4>2
    <3> QED
      BY <3>1, <3>2
  <2>3. ASSUME NEW i \in 1 .. n
        PROVE  old[i].symbol \in SymbolsIn(w)
    <3>1. i \in 1 .. n + c /\ w[i].symbol = old[i].symbol
      BY <1>c, <1>9
    <3> QED
      BY <2>1, <3>1
  <2>4. ASSUME NEW p \in 1 .. m
        PROVE  new[p].symbol \in SymbolsIn(w)
    <3>1. CASE p \in places
      <4>1. PICK k \in 1 .. c : o[k] = p
        BY <1>o, <3>1
      <4>2. n + k \in 1 .. n + c /\ w[n + k].symbol = new[p].symbol
        BY <1>c, <1>9, <4>1
      <4> QED
        BY <2>1, <4>2
    <3>2. CASE ~(p \in places)
      <4>1. PICK i \in 1 .. n : old[i].symbol = new[p].symbol
        BY <1>7, <3>2
      <4> QED
        BY <2>3, <4>1
    <3> QED
      BY <3>1, <3>2
  <2> QED
    BY <2>1, <2>2, <2>3, <2>4
<1> QED
  BY <1>1, <1>8, <1>9, <1>14, <1>15

\* The stocks of the server stay.
LEMMA SameStock == List!Stocks' = List!Stocks
BY DEF List!Stocks, List!StockRows

\* Rows that stay are as they were.
LEMMA SameRows ==
  ASSUME UNCHANGED rows
  PROVE  /\ rows \in Seq(List!Stocks) /\ OneEach(rows) => (rows \in Seq(List!Stocks) /\ OneEach(rows))'
         /\ \A n : UNCHANGED listing /\ Covers(rows, listing, n) => Covers(rows, listing, n)'
BY SameStock DEF OneEach, Covers, SymbolsIn, List!Range

\* A request on its own is for the next page, or for the first.
LEMMA SendOne ==
  ASSUME ListInv, NEW kind \in {"load", "more"}, NEW at \in Nat, List!Send(kind, at),
         kind = "load" => at = 0 /\ offset' = 0,
         kind = "more" => at = offset /\ offset' = offset
  PROVE  ListInv'
<1>1. /\ listSent' = listSent + 1 /\ overlapped' = (overlapped \/ requests # {})
      /\ requests' = requests \union {[id |-> listSent', kind |-> kind, at |-> at]}
      /\ UNCHANGED <<rows, hasMore, listing, reordered, listSort>>
  BY DEF List!Send, List!viewVars
<1>2. PICK q : q = [id |-> listSent', kind |-> kind, at |-> at]
  OBVIOUS
<1>3. q.kind = kind /\ q.at = at
  BY <1>2
<1>4. requests' = requests \union {q}
  BY <1>1, <1>2
<1>5. listSent' \in Nat /\ offset' \in Nat /\ overlapped' \in BOOLEAN /\ offset' <= offset /\ offset \in Nat
  BY <1>1 DEF ListInv
<1>6. \A r \in requests' : r.kind \in {"load", "more"} /\ r.at \in Nat /\ (r.kind = "load" => r.at = 0)
  BY <1>3, <1>4 DEF ListInv
<1>7. ASSUME ~overlapped'
      PROVE  OneRequest'
  <2>1. requests = {}
    BY <1>1, <1>7
  <2>2. requests' = {q} /\ (q.kind = "more" => q.at = offset')
    BY <1>3, <1>4, <2>1
  <2> QED
    BY <2>2 DEF OneRequest
<1>8. ASSUME ~overlapped', ~reordered'
      PROVE  InStep'
  <2>1. PICK n \in Nat : Covers(rows, listing, n) /\ offset <= n /\ (~hasMore => n = Len(listing))
    BY <1>1, <1>8 DEF ListInv, InStep
  <2>2. offset' <= n
    BY <1>5, <2>1
  <2>3. Covers(rows, listing, n)'
    BY <1>1, <2>1, SameRows
  <2> QED
    BY <1>1, <2>1, <2>2, <2>3 DEF InStep
<1>9. (rows \in Seq(List!Stocks) /\ OneEach(rows))'
  BY <1>1, SameRows DEF ListInv
<1> QED
  BY <1>1, <1>5, <1>6, <1>7, <1>8, <1>9 DEF ListInv

\* A step that sends nothing and changes no row, and answers at most in vain, keeps
\* the invariant.
LEMMA ListUnchanged ==
  ASSUME ListInv, UNCHANGED <<rows, listSent, offset, overlapped, hasMore, listing, reordered>>,
         requests' \in SUBSET requests, listSort'.col \in Columns \union {"symbol"}
  PROVE  ListInv'
<1>1. (rows \in Seq(List!Stocks) /\ OneEach(rows))' /\ (InStep => InStep')
  BY SameRows DEF ListInv, InStep
<1>2. OneRequest => OneRequest'
  BY DEF OneRequest
<1> QED
  BY <1>1, <1>2 DEF ListInv

\* An answer leaves one row a symbol; on its own, and in the order of the load, it
\* leaves the first symbols of the server's, up to its page's end or to where they
\* were.
LEMMA AnswerOkKeeps ==
  ASSUME ListInv, NEW r \in requests, NEW s \in Snapshots, List!AnswerOk(r, s)
  PROVE  ListInv'
<1>0. /\ r.kind \in {"load", "more"} /\ r.at \in Nat /\ (r.kind = "load" => r.at = 0)
      /\ offset \in Nat /\ rows \in Seq(List!Stocks) /\ OneEach(rows)
  BY DEF ListInv
<1>a. PICK at \in Nat : at = r.at
  BY <1>0
<1>1. PICK page, order, m :
        page = List!Page(s, at) /\ order = List!SymbolsOf(s) /\ m = Len(page)
  OBVIOUS
<1>2. PICK top \in Nat : top = Len(s) /\ Len(order) = top /\ DOMAIN order = 1 .. top
  BY <1>1, SnapshotIs
<1>3. page \in Seq(List!Stocks) /\ OneEach(page) /\ m \in Nat
  BY <1>1, PageIs
<1>4. at <= top => at + m <= top /\ SymbolsIn(page) = {order[i] : i \in at + 1 .. at + m}
  BY <1>1, <1>2, PageIs
<1>5. /\ requests' = requests \ {r} /\ hasMore' = (at + m < top) /\ UNCHANGED <<listSent, listSort>>
      /\ r.kind = "load" => /\ rows' = page /\ offset' = m /\ overlapped' = (overlapped /\ requests' # {})
                            /\ listing' = order /\ reordered' = FALSE
      /\ r.kind # "load" => /\ rows' = List!Merge(rows, page) /\ offset' = offset + m
                            /\ reordered' = (reordered \/ order # listing) /\ UNCHANGED <<overlapped, listing>>
  BY <1>a, <1>1, <1>2 DEF List!AnswerOk, List!viewVars
<1>6. \A q \in requests' : q.kind \in {"load", "more"} /\ q.at \in Nat /\ (q.kind = "load" => q.at = 0)
  BY <1>5 DEF ListInv
<1>7. CASE r.kind = "load"
  <2>1. at = 0 /\ rows' = page /\ offset' = m /\ listing' = order /\ reordered' = FALSE
    BY <1>0, <1>a, <1>5, <1>7
  <2>2. (rows \in Seq(List!Stocks))' /\ OneEach(rows)'
    BY <1>3, <2>1, SameStock DEF OneEach
  <2>3. m <= top /\ SymbolsIn(page) = {order[i] : i \in 1 .. m} /\ (~hasMore' => m = top)
    <3>1. at + m = m /\ at + 1 = 1 /\ at <= top
      BY <1>2, <1>3, <2>1
    <3>2. m <= top /\ SymbolsIn(page) = {order[i] : i \in 1 .. m}
      BY <1>4, <3>1
    <3>3. ~hasMore' => ~(m < top)
      BY <1>5, <3>1
    <3> QED
      BY <1>2, <1>3, <3>2, <3>3
  <2>4. InStep'
    <3>1. m \in 0 .. top
      BY <1>2, <1>3, <2>3
    <3>2. Covers(rows', order, m)
      BY <1>2, <2>1, <2>3, <3>1 DEF Covers
    <3>3. Covers(rows, listing, m)'
      BY <2>1, <3>2 DEF Covers, SymbolsIn, List!Range
    <3>4. offset' <= m /\ (~hasMore' => m = Len(listing'))
      BY <1>2, <1>3, <2>1, <2>3
    <3> QED
      BY <1>3, <3>3, <3>4 DEF InStep
  <2>5. ~overlapped' => OneRequest'
    <3>1. ~overlapped' => requests' = {}
      BY <1>5, <1>7 DEF ListInv, OneRequest
    <3> QED
      BY <3>1 DEF OneRequest
  <2>6. overlapped' \in BOOLEAN /\ Len(listing') \in Nat /\ DOMAIN listing' = 1 .. Len(listing') /\ offset' \in Nat
    BY <1>2, <1>3, <1>5, <1>7, <2>1
  <2> QED
    BY <1>5, <1>6, <2>1, <2>2, <2>4, <2>5, <2>6 DEF ListInv
<1>8. CASE r.kind # "load"
  <2>1. /\ rows' = List!Merge(rows, page) /\ offset' = offset + m
        /\ reordered' = (reordered \/ order # listing) /\ UNCHANGED <<overlapped, listing>>
    BY <1>5, <1>8
  <2>2. PICK w : w = List!Merge(rows, page)
    OBVIOUS
  <2>3. w \in Seq(List!Stocks) /\ OneEach(w) /\ SymbolsIn(w) = SymbolsIn(rows) \union SymbolsIn(page)
    BY <1>0, <1>3, <2>2, MergeIs
  <2>4. rows' = w
    BY <2>1, <2>2
  <2>5. (rows \in Seq(List!Stocks))' /\ OneEach(rows)'
    BY <2>3, <2>4, SameStock DEF OneEach
  <2>6. ASSUME ~overlapped'
        PROVE  OneRequest' /\ at = offset
    <3>1. requests' = {} /\ r.at = offset
      BY <1>0, <1>5, <1>8, <2>1, <2>6 DEF ListInv, OneRequest
    <3> QED
      BY <1>a, <3>1 DEF OneRequest
  <2>7. ASSUME ~overlapped', ~reordered'
        PROVE  InStep'
    <3>1. at = offset /\ order = listing
      BY <2>1, <2>6, <2>7
    <3>2. PICK n \in Nat : Covers(rows, order, n) /\ at <= n
      BY <2>1, <2>7, <3>1 DEF ListInv, InStep
    <3>3. n <= top /\ SymbolsIn(rows) = {order[i] : i \in 1 .. n}
      BY <1>2, <3>2 DEF Covers
    <3>4. at + m <= top /\ SymbolsIn(page) = {order[i] : i \in at + 1 .. at + m}
      BY <1>2, <1>4, <3>2, <3>3
    <3>5. PICK k \in Nat : k = IF at + m > n THEN at + m ELSE n
      BY <1>3
    <3>6. (1 .. n) \union (at + 1 .. at + m) = 1 .. k
      BY <1>3, <3>2, <3>5
    <3>7. SymbolsIn(w) = {order[i] : i \in 1 .. k}
      BY <2>3, <3>3, <3>4, <3>6
    <3>8. k \in 0 .. top /\ offset' <= k /\ (~hasMore' => k = top)
      <4>1. ~hasMore' => ~(at + m < top)
        BY <1>5
      <4>2. offset' = at + m
        BY <2>1, <3>1
      <4> QED
        BY <1>2, <1>3, <3>2, <3>3, <3>4, <3>5, <4>1, <4>2
    <3>9. Covers(w, order, k)
      BY <1>2, <3>7, <3>8 DEF Covers
    <3>10. Covers(rows, listing, k)'
      BY <2>1, <2>4, <3>1, <3>9 DEF Covers, SymbolsIn, List!Range
    <3> QED
      BY <1>2, <2>1, <3>1, <3>8, <3>10 DEF InStep
  <2>8. offset' \in Nat /\ reordered' \in BOOLEAN
    BY <1>0, <1>3, <2>1
  <2> QED
    BY <1>5, <1>6, <2>1, <2>5, <2>6, <2>7, <2>8 DEF ListInv
<1> QED
  BY <1>7, <1>8

\* Every step of the list keeps the invariant.
LEMMA ListNext == ListInv /\ [List!Next]_(List!stockListVars) => ListInv'
<1> SUFFICES ASSUME ListInv, [List!Next]_(List!stockListVars)
             PROVE  ListInv'
  OBVIOUS
<1> USE DEF List!fetchVars, List!viewVars
<1>0. offset \in Nat /\ listSort.col \in Columns \union {"symbol"}
  BY DEF ListInv
<1>1. ASSUME List!Load PROVE ListInv'
  BY <1>1, SendOne DEF List!Load
<1>2. CASE List!Show
  <2>1. CASE fetched
    BY <1>0, <1>2, <2>1, ListUnchanged DEF List!Show
  <2>2. CASE ~fetched
    BY <1>1, <1>2, <2>2 DEF List!Show
  <2> QED
    BY <2>1, <2>2
<1>3. CASE List!Hide \/ List!Render
  BY <1>0, <1>3, ListUnchanged DEF List!Hide, List!Render
<1>4. CASE List!Refresh
  BY <1>1, <1>4 DEF List!Refresh
<1>5. CASE List!LoadMore
  BY <1>0, <1>5, SendOne DEF List!LoadMore
<1>6. ASSUME NEW r \in requests, NEW s \in Snapshots, List!AnswerOk(r, s)
      PROVE  ListInv'
  BY <1>6, AnswerOkKeeps
<1>7. ASSUME NEW r \in requests, List!AnswerFails(r)
      PROVE  ListInv'
  <2>1. requests' \in SUBSET requests
        /\ UNCHANGED <<rows, listSent, offset, overlapped, hasMore, listing, reordered, listSort>>
    BY <1>7 DEF List!AnswerFails
  <2> QED
    BY <1>0, <2>1, ListUnchanged
<1>8. ASSUME NEW q \in Queries \union {None}, List!SetQuery(q)
      PROVE  ListInv'
  BY <1>0, <1>8, ListUnchanged DEF List!SetQuery, List!Click
<1>9. ASSUME NEW p \in PresetKeys, List!TogglePreset(p)
      PROVE  ListInv'
  BY <1>0, <1>9, ListUnchanged DEF List!TogglePreset, List!Click
<1>10. CASE List!SetFnoOnly \/ List!ResetFilters
  BY <1>0, <1>10, ListUnchanged DEF List!SetFnoOnly, List!ResetFilters, List!Click
<1>11. ASSUME NEW col \in Columns \union {"symbol"}, List!SortBy(col)
       PROVE  ListInv'
  <2>1. listSort'.col \in Columns \union {"symbol"}
    <3>1. CASE listSort.col = col
      <4>1. listSort' = [listSort EXCEPT !.asc = ~@]
        BY <1>11, <3>1 DEF List!SortBy
      <4> QED
        BY <1>0, <4>1
    <3>2. CASE listSort.col # col
      BY <1>11, <3>2 DEF List!SortBy
    <3> QED
      BY <3>1, <3>2
  <2>2. UNCHANGED <<rows, requests, listSent, offset, overlapped, hasMore, listing, reordered>>
    BY <1>11 DEF List!SortBy, List!Click
  <2> QED
    BY <2>1, <2>2, ListUnchanged
<1>12. CASE UNCHANGED List!stockListVars
  BY <1>0, <1>12, ListUnchanged DEF List!stockListVars
<1> QED
  BY <1>2, <1>3, <1>4, <1>5, <1>6, <1>7, <1>8, <1>9, <1>10, <1>11, <1>12 DEF List!Next

\* A step of the cockpit is one of the list, or none.
LEMMA ListStep == [Next]_vars => [List!Next]_(List!stockListVars)
BY DEF Next, vars, ListSteps, ChartSteps, ModalSteps, RegimeSteps, MetricsSteps, AccountsSteps, ConfigSteps,
       listVars, List!stockListVars, List!fetchVars, List!viewVars

\* Of rows with one for each symbol, the ones that pass are shown, once and in the
\* order of the column.
LEMMA AllShown ==
  ASSUME rows \in Seq(List!Stocks), OneEach(rows), listSort.col \in Columns \union {"symbol"}
  PROVE  LET list == List!FilteredRows IN
         /\ List!Range(list) = {r \in List!Range(rows) : List!Passes(r, listFilter)}
         /\ OneEach(list)
         /\ List!Ordered(list)
<1> DEFINE places == List!ApplyFilters(rows, listFilter)
           R == List!Sooner(rows, places, listSort)
           order == Arranged(places, R)
           V == [i \in places |-> rows[i][listSort.col]]
           list == List!FilteredRows
           c == Cardinality(places)
<1>1. PICK top \in Nat : DOMAIN rows = 1 .. top /\ \A i \in 1 .. top : rows[i] \in List!Stocks
  OBVIOUS
<1>3. places = {i \in 1 .. top : List!Passes(rows[i], listFilter)}
  BY <1>1 DEF List!ApplyFilters
<1>4. list = [n \in DOMAIN order |-> rows[order[n]]]
  BY SameArrangement DEF List!FilteredRows, List!SortStockRows
<1>5. IsFiniteSet(places) /\ places \in SUBSET Int
  <2>1. places \in SUBSET (1 .. top) /\ IsFiniteSet(1 .. top)
    BY <1>1, <1>3, FS_Interval
  <2> HIDE DEF places
  <2>2. IsFiniteSet(places)
    BY <2>1, FS_Subset
  <2> QED
    BY <2>1, <2>2
<1>6. PICK asc, col : asc = listSort.asc /\ col = listSort.col
  OBVIOUS
<1>7. \A i \in places : V[i] = rows[i][col]
  BY <1>6
<1>8. ByColumn(places, V, asc, R)
  <2>1. ASSUME NEW i \in places
        PROVE  V[i] \in Int \union {None}
    <3>1. rows[i] \in List!Stocks
      BY <1>1, <1>3
    <3>2. \A r \in List!Stocks, k \in Columns \union {"symbol"} : r[k] \in Int \union {None}
      BY CockpitViewsAssumption DEF List!StockListAssumption
    <3>3. PICK r : r = rows[i]
      OBVIOUS
    <3> QED
      BY <1>6, <1>7, <3>1, <3>2, <3>3
  <2>2. \A i, j \in places : <<i, j>> \in R <=>
          List!Before(rows[i], rows[j], listSort) \/ (~List!Before(rows[j], rows[i], listSort) /\ i < j)
    BY DEF List!Sooner
  <2>3. \A i, j \in places : List!Before(rows[i], rows[j], listSort) <=> Puts(V[i], V[j], asc)
    BY <1>6, <1>7 DEF List!Before, Puts
  <2> HIDE DEF places, R, V
  <2> QED
    BY <2>1, <2>2, <2>3 DEF ByColumn
<1> HIDE DEF places, R, V, list
<1>9. StrictTotal(places, R) /\ NoneBefore(places, V, asc, R)
  BY <1>5, <1>8, StableOrder
<1>10. /\ c \in Nat /\ order \in [1 .. c -> places]
       /\ \A i, j \in 1 .. c : i < j => <<order[i], order[j]>> \in R
       /\ \A p \in places : \E n \in 1 .. c : order[n] = p
       /\ \A n \in 1 .. c : Ahead(places, R, order[n]) = n - 1
  BY <1>5, <1>9, ArrangedIs
<1> HIDE DEF order, c
<1>11. DOMAIN list = 1 .. c /\ \A n \in 1 .. c : list[n] = rows[order[n]] /\ order[n] \in places
  BY <1>4, <1>10
<1>12. List!Range(list) = {r \in List!Range(rows) : List!Passes(r, listFilter)}
  <2>1. ASSUME NEW x \in List!Range(list)
        PROVE  x \in List!Range(rows) /\ List!Passes(x, listFilter)
    <3>1. PICK p \in places : x = rows[p]
      BY <1>11 DEF List!Range
    <3>2. p \in 1 .. top /\ List!Passes(x, listFilter)
      BY <1>3, <3>1
    <3> QED
      BY <1>1, <3>1, <3>2 DEF List!Range
  <2>2. ASSUME NEW x \in List!Range(rows), List!Passes(x, listFilter)
        PROVE  x \in List!Range(list)
    <3>1. PICK p \in 1 .. top : x = rows[p]
      BY <1>1 DEF List!Range
    <3>2. p \in places
      BY <1>3, <2>2, <3>1
    <3>3. PICK n \in 1 .. c : order[n] = p
      BY <1>10, <3>2
    <3>4. n \in DOMAIN list /\ list[n] = x
      BY <1>11, <3>1, <3>3
    <3> QED
      BY <3>4 DEF List!Range
  <2> QED
    BY <2>1, <2>2
<1>13. OneEach(list)
  <2> SUFFICES ASSUME NEW i \in 1 .. c, NEW j \in 1 .. c, list[i].symbol = list[j].symbol
               PROVE  i = j
    BY <1>11 DEF OneEach
  <2>1. order[i] \in 1 .. top /\ order[j] \in 1 .. top /\ rows[order[i]].symbol = rows[order[j]].symbol
    BY <1>3, <1>11
  <2>2. order[i] = order[j]
    BY <1>1, <2>1 DEF OneEach
  <2>3. i - 1 = j - 1
    BY <1>10, <2>2
  <2> QED
    BY <1>10, <2>3
<1>14. List!Ordered(list)
  <2> SUFFICES ASSUME NEW i \in DOMAIN list, NEW j \in DOMAIN list, i < j, list[j][listSort.col] # None
               PROVE  LET a == list[i][listSort.col]
                          b == list[j][listSort.col]
                      IN a # None /\ (IF listSort.asc THEN a <= b ELSE a >= b)
    BY DEF List!Ordered
  <2>1. i \in 1 .. c /\ j \in 1 .. c /\ order[i] \in places /\ order[j] \in places
    BY <1>11
  <2>2. list[i][listSort.col] = V[order[i]] /\ list[j][listSort.col] = V[order[j]]
    BY <1>6, <1>7, <1>11, <2>1
  <2>3. <<order[i], order[j]>> \in R
    BY <1>10, <2>1
  <2> QED
    BY <1>6, <1>9, <2>1, <2>2, <2>3 DEF NoneBefore
<1> QED
  BY <1>12, <1>13, <1>14 DEF list

(***************************************************************************)
(* useStockList: the list shows the rows it has that pass the filters, one *)
(* for a symbol and in the order of the column, whatever the server's rows *)
(* were when its pages were cut, and however requests overlapped or failed; *)
(* and once it has no more to load it has a row for every symbol of the    *)
(* server, unless a request was sent while another was on the way or the   *)
(* server's symbols changed or moved between two pages.                    *)
(***************************************************************************)
THEOREM EveryMatchIsShown == Spec => []EverythingMatchingShown
<1>1. Init => ListInv
  BY ListInit DEF Init
<1>2. ListInv /\ [Next]_vars => ListInv'
  BY ListNext, ListStep
<1>3. ListInv => EverythingMatchingShown
  <2> SUFFICES ASSUME ListInv
               PROVE  EverythingMatchingShown
    OBVIOUS
  <2>1. /\ List!Range(List!FilteredRows) = {r \in List!Range(rows) : List!Passes(r, listFilter)}
        /\ OneEach(List!FilteredRows)
        /\ List!Ordered(List!FilteredRows)
    BY AllShown DEF ListInv
  <2>2. ASSUME ~hasMore, ~overlapped, ~reordered
        PROVE  {r.symbol : r \in List!Range(rows)} = List!Range(listing)
    <3>1. Covers(rows, listing, Len(listing))
      BY <2>2 DEF ListInv, InStep
    <3>2. List!Range(listing) = {listing[i] : i \in 1 .. Len(listing)}
      BY DEF ListInv, List!Range
    <3> QED
      BY <3>1, <3>2 DEF Covers, SymbolsIn
  <2> QED
    BY <2>1, <2>2 DEF OneEach, EverythingMatchingShown, List!EverythingMatchingShown
<1> QED
  BY <1>1, <1>2, <1>3, PTL DEF Spec

-----------------------------------------------------------------------------
(* Sums of sequences of numbers (ChartData).                               *)

\* Induction: a set of places that holds 0 and with every place the next one
\* holds them all.
LEMMA PlaceByPlace ==
  ASSUME NEW n \in Nat, NEW T, 0 \in T, \A i \in 0 .. n : i \in T /\ i + 1 <= n => i + 1 \in T
  PROVE  \A i \in 0 .. n : i \in T
<1> DEFINE left == (0 .. n) \ T
<1> SUFFICES ASSUME left # {}
             PROVE  FALSE
  OBVIOUS
<1>1. left \subseteq Nat
  OBVIOUS
<1>2. PICK x \in left : \A y \in left : x <= y
  <2> HIDE DEF left
  <2> QED
    BY <1>1, LeastOfNats
<1>3. x # 0 /\ x \in 0 .. n
  BY <1>2
<1>4. x - 1 \in 0 .. n /\ ~(x <= x - 1) /\ x - 1 + 1 = x
  BY <1>3
<1>5. x - 1 \in T
  BY <1>2, <1>4
<1>6. x \in T
  BY <1>3, <1>4, <1>5
<1> QED
  BY <1>2, <1>6

\* A running sum of the first numbers of v.
SumOf(f, v, j) == f = [n \in 0 .. j |-> IF n = 0 THEN 0 ELSE f[n - 1] + v[n]]

\* Running is what its definition says: the sum of none is 0, and each one adds
\* the next number.
LEMMA RunningIs ==
  ASSUME NEW v, Len(v) \in Nat, \A i \in 1 .. Len(v) : v[i] \in Int
  PROVE  /\ Chart!Running(v)[0] = 0
         /\ \A i \in 0 .. Len(v) : i + 1 <= Len(v) => Chart!Running(v)[i + 1] = Chart!Running(v)[i] + v[i + 1]
         /\ \A i \in 0 .. Len(v) : Chart!Running(v)[i] \in Int
<1> DEFINE T == {j \in Nat : \E f : SumOf(f, v, j)}
<1>1. PICK n \in Nat : n = Len(v)
  OBVIOUS
<1>2. 0 \in T
  <2>1. SumOf([i \in 0 .. 0 |-> 0], v, 0)
    BY DEF SumOf
  <2> QED
    BY <2>1
<1>3. ASSUME NEW j \in 0 .. n, j \in T, j + 1 <= n
      PROVE  j + 1 \in T
  <2>1. PICK f : SumOf(f, v, j)
    BY <1>3
  <2> DEFINE g == [i \in 0 .. j + 1 |-> IF i = 0 THEN 0 ELSE f[i - 1] + v[i]]
  <2>2. ASSUME NEW i \in 0 .. j
        PROVE  g[i] = f[i]
    <3>1. i \in 0 .. j + 1
      OBVIOUS
    <3>2. f[i] = IF i = 0 THEN 0 ELSE f[i - 1] + v[i]
      BY <2>1 DEF SumOf
    <3> QED
      BY <3>1, <3>2
  <2>3. ASSUME NEW i \in 0 .. j + 1
        PROVE  g[i] = IF i = 0 THEN 0 ELSE g[i - 1] + v[i]
    <3>1. CASE i = 0
      BY <3>1
    <3>2. CASE i # 0
      <4>1. i - 1 \in 0 .. j
        BY <3>2
      <4>2. g[i - 1] = f[i - 1]
        BY <2>2, <4>1
      <4> QED
        BY <3>2, <4>2
    <3> QED
      BY <3>1, <3>2
  <2>4. SumOf(g, v, j + 1)
    <3>1. g = [i \in 0 .. j + 1 |-> g[i]]
      OBVIOUS
    <3> HIDE DEF g
    <3> QED
      BY <2>3, <3>1 DEF SumOf
  <2> QED
    BY <2>4
<1>4. n \in T
  <2>1. \A j \in 0 .. n : j \in T
    <3> HIDE DEF T
    <3> QED
      BY <1>2, <1>3, PlaceByPlace
  <2>2. n \in 0 .. n
    OBVIOUS
  <2> QED
    BY <2>1, <2>2
<1>5. PICK f : SumOf(f, v, n)
  BY <1>4
<1>6. Chart!Running(v) = [i \in 0 .. n |-> IF i = 0 THEN 0 ELSE Chart!Running(v)[i - 1] + v[i]]
  BY <1>1, <1>5 DEF Chart!Running, SumOf
<1>7. PICK r : r = Chart!Running(v)
  OBVIOUS
<1>8. r = [i \in 0 .. n |-> IF i = 0 THEN 0 ELSE r[i - 1] + v[i]]
  BY <1>6, <1>7
<1>9. r[0] = 0
  BY <1>8
<1>10. ASSUME NEW i \in 0 .. n, i + 1 <= n
       PROVE  r[i + 1] = r[i] + v[i + 1]
  <2>1. i + 1 \in 0 .. n /\ i + 1 # 0 /\ i + 1 - 1 = i
    BY <1>10
  <2> QED
    BY <1>8, <2>1
<1>11. \A i \in 0 .. n : r[i] \in Int
  <2> DEFINE S == {i \in Nat : r[i] \in Int}
  <2>1. 0 \in S
    BY <1>9
  <2>2. ASSUME NEW i \in 0 .. n, i \in S, i + 1 <= n
        PROVE  i + 1 \in S
    <3>1. v[i + 1] \in Int
      BY <1>1, <2>2
    <3> QED
      BY <1>10, <2>2, <3>1
  <2>3. \A i \in 0 .. n : i \in S
    <3> HIDE DEF S
    <3> QED
      BY <2>1, <2>2, PlaceByPlace
  <2> QED
    BY <2>3
<1> QED
  BY <1>1, <1>7, <1>9, <1>10, <1>11

\* A number at each of the places 1 .. n.
Numbers(v, n) == v \in [1 .. n -> Int]

\* r are the running sums of the numbers v at the places 1 .. n.
SumsTo(r, v, n) ==
  /\ r[0] = 0
  /\ \A i \in 0 .. n : i + 1 <= n => r[i + 1] = r[i] + v[i + 1]
  /\ \A i \in 0 .. n : r[i] \in Int

\* The sum of numbers at the places 1 .. n.
LEMMA NumbersAdd ==
  ASSUME NEW n \in Nat, NEW v, Numbers(v, n)
  PROVE  /\ SumsTo(Chart!Running(v), v, n)
         /\ Len(v) = n /\ Chart!Total(v) = Chart!Running(v)[n] /\ Chart!Total(v) \in Int
<1>1. Len(v) = n
  BY DEF Numbers
<1>2. \A i \in 1 .. Len(v) : v[i] \in Int
  BY <1>1 DEF Numbers
<1>3. /\ Chart!Running(v)[0] = 0
      /\ \A i \in 0 .. n : i + 1 <= n => Chart!Running(v)[i + 1] = Chart!Running(v)[i] + v[i + 1]
      /\ \A i \in 0 .. n : Chart!Running(v)[i] \in Int
  BY <1>1, <1>2, RunningIs
<1>4. n \in 0 .. n
  OBVIOUS
<1> QED
  BY <1>1, <1>3, <1>4 DEF Chart!Total, SumsTo

\* There is one sum.
LEMMA OneSum ==
  ASSUME NEW n \in Nat, NEW v, NEW r, NEW s, SumsTo(r, v, n), SumsTo(s, v, n)
  PROVE  r[n] = s[n]
<1> DEFINE T == {i \in Nat : r[i] = s[i]}
<1>1. 0 \in T
  BY DEF SumsTo
<1>2. ASSUME NEW i \in 0 .. n, i \in T, i + 1 <= n
      PROVE  i + 1 \in T
  <2>1. r[i + 1] = r[i] + v[i + 1] /\ s[i + 1] = s[i] + v[i + 1] /\ r[i] = s[i]
    BY <1>2 DEF SumsTo
  <2> QED
    BY <2>1
<1>3. \A i \in 0 .. n : i \in T
  <2> HIDE DEF T
  <2> QED
    BY <1>1, <1>2, PlaceByPlace
<1>4. n \in 0 .. n
  OBVIOUS
<1> QED
  BY <1>3, <1>4

\* So it is found by whatever has its steps.
LEMMA SumIs ==
  ASSUME NEW n \in Nat, NEW v, Numbers(v, n), NEW s, SumsTo(s, v, n)
  PROVE  Chart!Total(v) = s[n]
<1>1. PICK r : r = Chart!Running(v)
  OBVIOUS
<1>2. SumsTo(r, v, n) /\ Chart!Total(v) = r[n]
  BY <1>1, NumbersAdd
<1>3. r[n] = s[n]
  BY <1>2, OneSum
<1> QED
  BY <1>2, <1>3

\* The sum of a piece of a sequence is the difference of two running sums.
LEMMA SumOfPiece ==
  ASSUME NEW n \in Nat, NEW v, NEW q, SumsTo(q, v, n), NEW a \in 0 .. n, NEW b \in 0 .. n, a <= b,
         NEW w, Numbers(w, b - a), \A i \in 1 .. b - a : w[i] = v[a + i]
  PROVE  Chart!Total(w) = q[b] - q[a]
<1>1. PICK d \in Nat : d = b - a
  OBVIOUS
<1>2. /\ q[0] = 0
      /\ \A i \in 0 .. n : i + 1 <= n => q[i + 1] = q[i] + v[i + 1]
      /\ \A i \in 0 .. n : q[i] \in Int
  BY DEF SumsTo
<1>3. Numbers(w, d)
  BY <1>1
<1> DEFINE s == [i \in 0 .. d |-> q[a + i] - q[a]]
<1>4. ASSUME NEW i \in 0 .. d
      PROVE  s[i] = q[a + i] - q[a] /\ s[i] \in Int
  <2>1. a + i \in 0 .. n
    BY <1>1
  <2>2. q[a + i] \in Int /\ q[a] \in Int
    BY <1>2, <2>1
  <2> QED
    BY <2>2
<1>5. ASSUME NEW i \in 0 .. d, i + 1 <= d
      PROVE  s[i + 1] = s[i] + w[i + 1]
  <2>1. i + 1 \in 1 .. b - a /\ i + 1 \in 0 .. d /\ a + i \in 0 .. n /\ a + (i + 1) = (a + i) + 1 /\ (a + i) + 1 <= n
    BY <1>1, <1>5
  <2>2. w[i + 1] = v[a + (i + 1)] /\ q[(a + i) + 1] = q[a + i] + v[(a + i) + 1]
    BY <1>2, <2>1
  <2>3. s[i + 1] = q[(a + i) + 1] - q[a] /\ s[i] = q[a + i] - q[a]
    BY <1>4, <2>1
  <2>4. q[a + i] \in Int /\ q[a] \in Int /\ w[i + 1] \in Int
    BY <1>1, <1>2, <2>1 DEF Numbers
  <2> HIDE DEF s
  <2> QED
    BY <2>1, <2>2, <2>3, <2>4
<1>6. s[0] = 0
  <2>1. 0 \in 0 .. d /\ a + 0 = a
    OBVIOUS
  <2>2. s[0] = q[a] - q[a] /\ q[a] \in Int
    BY <1>2, <1>4, <2>1
  <2> QED
    BY <2>2
<1> HIDE DEF s
<1>7. PICK f : f = s
  OBVIOUS
<1>8. Chart!Total(w) = f[d]
  <2>1. SumsTo(f, w, d)
    BY <1>4, <1>5, <1>6, <1>7 DEF SumsTo
  <2> QED
    BY <1>3, <2>1, SumIs
<1>9. d \in 0 .. d /\ a + d = b
  BY <1>1
<1> QED
  BY <1>4, <1>7, <1>8, <1>9

\* The sum of sums, place by place.
LEMMA SumOfSums ==
  ASSUME NEW n \in Nat, NEW u, Numbers(u, n), NEW v, Numbers(v, n), NEW w, Numbers(w, n),
         \A i \in 1 .. n : w[i] = u[i] + v[i]
  PROVE  Chart!Total(w) = Chart!Total(u) + Chart!Total(v)
<1>1. PICK p : p = Chart!Running(u)
  OBVIOUS
<1>2. PICK q : q = Chart!Running(v)
  OBVIOUS
<1>3. SumsTo(p, u, n) /\ Chart!Total(u) = p[n] /\ SumsTo(q, v, n) /\ Chart!Total(v) = q[n]
  BY <1>1, <1>2, NumbersAdd
<1> DEFINE s == [i \in 0 .. n |-> p[i] + q[i]]
<1>4. ASSUME NEW i \in 0 .. n
      PROVE  s[i] = p[i] + q[i] /\ s[i] \in Int
  BY <1>3 DEF SumsTo
<1>5. ASSUME NEW i \in 0 .. n, i + 1 <= n
      PROVE  s[i + 1] = s[i] + w[i + 1]
  <2>1. i + 1 \in 1 .. n /\ i + 1 \in 0 .. n
    BY <1>5
  <2>2. u[i + 1] \in Int /\ v[i + 1] \in Int /\ w[i + 1] = u[i + 1] + v[i + 1]
    BY <2>1 DEF Numbers
  <2>3. /\ p[i + 1] = p[i] + u[i + 1] /\ q[i + 1] = q[i] + v[i + 1]
        /\ p[i] \in Int /\ q[i] \in Int
    BY <1>3, <1>5 DEF SumsTo
  <2>4. s[i + 1] = p[i + 1] + q[i + 1] /\ s[i] = p[i] + q[i]
    BY <1>4, <2>1
  <2> HIDE DEF s
  <2>5. p[i + 1] + q[i + 1] = (p[i] + q[i]) + w[i + 1]
    BY <2>2, <2>3
  <2> QED
    BY <2>4, <2>5
<1>6. s[0] = 0
  BY <1>3 DEF SumsTo
<1> HIDE DEF s
<1>7. PICK f : f = s
  OBVIOUS
<1>8. Chart!Total(w) = f[n]
  <2>1. SumsTo(f, w, n)
    BY <1>4, <1>5, <1>6, <1>7 DEF SumsTo
  <2> QED
    BY <2>1, SumIs
<1>9. n \in 0 .. n
  OBVIOUS
<1> QED
  BY <1>3, <1>4, <1>7, <1>8, <1>9

\* The sum of one number at the places after a up to b, and of nothing elsewhere.
LEMMA SumOfInterval ==
  ASSUME NEW n \in Nat, NEW a \in 0 .. n, NEW b \in 0 .. n, a <= b, NEW c \in Int, NEW w, Numbers(w, n),
         \A i \in 1 .. n : w[i] = IF a < i /\ i <= b THEN c ELSE 0
  PROVE  Chart!Total(w) = c * (b - a)
<1> DEFINE s == [i \in 0 .. n |-> IF i <= a THEN 0 ELSE IF i <= b THEN c * (i - a) ELSE c * (b - a)]
<1>1. ASSUME NEW i \in 0 .. n
      PROVE  s[i] = (IF i <= a THEN 0 ELSE IF i <= b THEN c * (i - a) ELSE c * (b - a)) /\ s[i] \in Int
  BY <1>1
<1>2. ASSUME NEW i \in 0 .. n, i + 1 <= n
      PROVE  s[i + 1] = s[i] + w[i + 1]
  <2>1. i + 1 \in 0 .. n /\ i + 1 \in 1 .. n
    BY <1>2
  <2>2. /\ s[i + 1] = IF i + 1 <= a THEN 0 ELSE IF i + 1 <= b THEN c * ((i + 1) - a) ELSE c * (b - a)
        /\ s[i] = IF i <= a THEN 0 ELSE IF i <= b THEN c * (i - a) ELSE c * (b - a)
        /\ w[i + 1] = IF a < i + 1 /\ i + 1 <= b THEN c ELSE 0
    BY <1>1, <2>1
  <2> HIDE DEF s
  <2>3. CASE i + 1 <= a
    BY <2>2, <2>3
  <2>4. CASE a < i + 1 /\ i + 1 <= b
    <3>1. c * ((i + 1) - a) = c * (i - a) + c
      OBVIOUS
    <3>2. i <= a => c * (i - a) = 0
      BY <2>4
    <3>3. s[i + 1] = c * ((i + 1) - a) /\ s[i] = c * (i - a) /\ w[i + 1] = c
      BY <2>2, <2>4, <3>2
    <3> QED
      BY <3>1, <3>3
  <2>5. CASE b < i + 1
    <3>1. s[i] = s[i + 1] /\ s[i] \in Int
      <4>1. CASE a < i /\ i <= b
        <5>1. i = b
          BY <2>5, <4>1
        <5> QED
          BY <1>1, <2>2, <2>5, <4>1, <5>1
      <4>2. CASE i <= a
        <5>1. i = a /\ a = b
          BY <2>5, <4>2
        <5>2. c * (b - a) = 0
          BY <5>1
        <5> QED
          BY <1>1, <2>2, <2>5, <4>2, <5>2
      <4>3. CASE b < i
        BY <1>1, <2>2, <2>5, <4>3
      <4> QED
        BY <4>1, <4>2, <4>3
    <3>2. w[i + 1] = 0
      BY <2>2, <2>5
    <3> QED
      BY <3>1, <3>2
  <2> QED
    BY <2>3, <2>4, <2>5
<1>3. s[0] = 0
  OBVIOUS
<1>4. s[n] = c * (b - a)
  <2>1. CASE n <= a
    <3>1. n = a /\ a = b
      BY <2>1
    <3> QED
      BY <1>1, <3>1
  <2>2. CASE ~(n <= a) /\ n <= b
    BY <1>1, <2>2
  <2>3. CASE ~(n <= a) /\ ~(n <= b)
    BY <1>1, <2>3
  <2> QED
    BY <2>1, <2>2, <2>3
<1>5. PICK f : f = s
  OBVIOUS
<1> HIDE DEF s
<1>6. SumsTo(f, w, n)
  BY <1>1, <1>2, <1>3, <1>5 DEF SumsTo
<1>7. Chart!Total(w) = f[n]
  BY <1>6, SumIs
<1> QED
  BY <1>4, <1>5, <1>7

\* The sum of nothing but zeros.
LEMMA SumOfZeros ==
  ASSUME NEW n \in Nat, NEW w, Numbers(w, n), \A i \in 1 .. n : w[i] = 0
  PROVE  Chart!Total(w) = 0
<1>1. PICK f : f = [i \in 0 .. n |-> 0]
  OBVIOUS
<1>2. \A i \in 0 .. n : i + 1 <= n => w[i + 1] = 0
  OBVIOUS
<1>3. SumsTo(f, w, n)
  BY <1>1, <1>2 DEF SumsTo
<1>4. Chart!Total(w) = f[n]
  BY <1>3, SumIs
<1> QED
  BY <1>1, <1>4

\* The sum of multiples.
LEMMA SumOfMultiples ==
  ASSUME NEW n \in Nat, NEW c \in Int, NEW v, Numbers(v, n), NEW w, Numbers(w, n),
         \A i \in 1 .. n : w[i] = c * v[i]
  PROVE  Chart!Total(w) = c * Chart!Total(v)
<1>1. PICK q : q = Chart!Running(v)
  OBVIOUS
<1>2. SumsTo(q, v, n) /\ Chart!Total(v) = q[n]
  BY <1>1, NumbersAdd
<1> DEFINE s == [i \in 0 .. n |-> c * q[i]]
<1>3. ASSUME NEW i \in 0 .. n
      PROVE  s[i] = c * q[i] /\ s[i] \in Int
  <2>1. q[i] \in Int
    BY <1>2 DEF SumsTo
  <2> QED
    BY <2>1
<1>4. ASSUME NEW i \in 0 .. n, i + 1 <= n
      PROVE  s[i + 1] = s[i] + w[i + 1]
  <2>1. i + 1 \in 1 .. n /\ i + 1 \in 0 .. n
    BY <1>4
  <2>2. v[i + 1] \in Int /\ w[i + 1] = c * v[i + 1]
    BY <2>1 DEF Numbers
  <2>3. q[i + 1] = q[i] + v[i + 1] /\ q[i] \in Int
    BY <1>2, <1>4 DEF SumsTo
  <2>4. s[i + 1] = c * q[i + 1] /\ s[i] = c * q[i]
    BY <1>3, <2>1
  <2>5. \A x, y \in Int : c * (x + y) = c * x + c * y
    OBVIOUS
  <2> HIDE DEF s
  <2> QED
    BY <2>2, <2>3, <2>4, <2>5
<1>5. s[0] = 0
  BY <1>2 DEF SumsTo
<1>6. PICK f : f = s
  OBVIOUS
<1> HIDE DEF s
<1>7. SumsTo(f, w, n)
  BY <1>3, <1>4, <1>5, <1>6 DEF SumsTo
<1>8. Chart!Total(w) = f[n] /\ n \in 0 .. n
  BY <1>7, SumIs
<1> QED
  BY <1>2, <1>3, <1>6, <1>8

\* A table of m rows of n numbers, the sums of its rows and those of its columns.
IsTable(table, m, n) == \A i \in 1 .. m : Numbers(table[i], n)

RowsAdd(sums, table, m) == sums = [i \in 1 .. m |-> Chart!Total(table[i])]

ColumnsAdd(sums, table, m, n) == sums = [j \in 1 .. n |-> Chart!Total([i \in 1 .. m |-> table[i][j]])]

\* A table is summed by its rows or by its columns.
LEMMA SumOfTable ==
  ASSUME NEW m \in Nat, NEW n \in Nat, NEW table, IsTable(table, m, n),
         NEW rowSums, RowsAdd(rowSums, table, m), NEW columnSums, ColumnsAdd(columnSums, table, m, n)
  PROVE  Chart!Total(rowSums) = Chart!Total(columnSums)
<1> USE DEF IsTable, RowsAdd, ColumnsAdd
<1> DEFINE Column(j) == [i \in 1 .. m |-> table[i][j]]
           R(j) == Chart!Running(Column(j))
           Part(k) == [j \in 1 .. n |-> R(j)[k]]
           s == [k \in 0 .. m |-> Chart!Total(Part(k))]
<1>1. ASSUME NEW j \in 1 .. n
      PROVE  SumsTo(R(j), Column(j), m) /\ Chart!Total(Column(j)) = R(j)[m]
  <2>1. Numbers(Column(j), m)
    BY DEF Numbers
  <2>2. PICK c : c = Column(j)
    OBVIOUS
  <2>3. SumsTo(Chart!Running(c), c, m) /\ Chart!Total(c) = Chart!Running(c)[m]
    <3>1. Numbers(c, m)
      BY <2>1, <2>2
    <3> QED
      BY <3>1, NumbersAdd
  <2> QED
    BY <2>2, <2>3
<1>2. ASSUME NEW k \in 0 .. m
      PROVE  Numbers(Part(k), n)
  <2>1. \A j \in 1 .. n : R(j)[k] \in Int
    <3> HIDE DEF R, Column
    <3> QED
      BY <1>1 DEF SumsTo
  <2> QED
    BY <2>1 DEF Numbers
<1>3. ASSUME NEW k \in 0 .. m
      PROVE  s[k] = Chart!Total(Part(k)) /\ s[k] \in Int
  <2>1. s[k] = Chart!Total(Part(k))
    OBVIOUS
  <2>2. PICK p : p = Part(k)
    OBVIOUS
  <2>3. Chart!Total(p) \in Int
    BY <1>2, <2>2, NumbersAdd
  <2> QED
    BY <2>1, <2>2, <2>3
<1>4. s[0] = 0
  <2>1. \A j \in 1 .. n : R(j)[0] = 0
    <3> HIDE DEF R, Column
    <3> QED
      BY <1>1 DEF SumsTo
  <2>2. PICK p : p = Part(0)
    OBVIOUS
  <2>3. Numbers(p, n)
    <3>1. 0 \in 0 .. m
      OBVIOUS
    <3> HIDE DEF Part
    <3> QED
      BY <1>2, <2>2, <3>1
  <2>4. \A j \in 1 .. n : p[j] = 0
    <3> HIDE DEF R
    <3> QED
      BY <2>1, <2>2
  <2>5. Chart!Total(p) = 0
    BY <2>3, <2>4, SumOfZeros
  <2>6. s[0] = Chart!Total(Part(0))
    BY <1>3
  <2> HIDE DEF s, Part
  <2> QED
    BY <2>2, <2>5, <2>6
<1>5. ASSUME NEW k \in 0 .. m, k + 1 <= m
      PROVE  s[k + 1] = s[k] + rowSums[k + 1]
  <2>1. k + 1 \in 1 .. m /\ k + 1 \in 0 .. m
    BY <1>5
  <2>2. PICK p : p = Part(k)
    OBVIOUS
  <2>3. PICK q : q = Part(k + 1)
    OBVIOUS
  <2>4. PICK t : t = table[k + 1]
    OBVIOUS
  <2>5. Numbers(p, n) /\ Numbers(q, n) /\ Numbers(t, n)
    BY <1>2, <2>1, <2>2, <2>3, <2>4
  <2>6. ASSUME NEW j \in 1 .. n
        PROVE  q[j] = p[j] + t[j]
    <3>1. R(j)[k + 1] = R(j)[k] + Column(j)[k + 1]
      <4> HIDE DEF R, Column
      <4> QED
        BY <1>1, <1>5 DEF SumsTo
    <3>2. Column(j)[k + 1] = table[k + 1][j]
      BY <2>1
    <3>3. q[j] = R(j)[k + 1] /\ p[j] = R(j)[k]
      BY <2>2, <2>3
    <3> HIDE DEF R, Column
    <3> QED
      BY <2>4, <3>1, <3>2, <3>3
  <2>7. Chart!Total(q) = Chart!Total(p) + Chart!Total(t)
    BY <2>5, <2>6, SumOfSums
  <2>8. s[k + 1] = Chart!Total(Part(k + 1)) /\ s[k] = Chart!Total(Part(k))
    BY <1>3, <2>1
  <2>9. rowSums[k + 1] = Chart!Total(t)
    BY <2>1, <2>4
  <2> HIDE DEF s, Part
  <2> QED
    BY <2>2, <2>3, <2>7, <2>8, <2>9
<1>6. Numbers(rowSums, m)
  <2>1. \A i \in 1 .. m : Chart!Total(table[i]) \in Int
    <3> TAKE i \in 1 .. m
    <3>1. PICK t : t = table[i]
      OBVIOUS
    <3>2. Chart!Total(t) \in Int
      BY <3>1, NumbersAdd
    <3> QED
      BY <3>1, <3>2
  <2> QED
    BY <2>1 DEF Numbers
<1>7. PICK f : f = s
  OBVIOUS
<1>8. Part(m) = columnSums
  <2>1. \A j \in 1 .. n : Chart!Total(Column(j)) = R(j)[m]
    BY <1>1
  <2>2. columnSums = [j \in 1 .. n |-> Chart!Total(Column(j))]
    OBVIOUS
  <2> HIDE DEF R, Column
  <2> QED
    BY <2>1, <2>2
<1> HIDE DEF s, Part
<1>9. SumsTo(f, rowSums, m)
  BY <1>3, <1>4, <1>5, <1>7 DEF SumsTo
<1>10. Chart!Total(rowSums) = f[m] /\ m \in 0 .. m
  BY <1>6, <1>9, SumIs
<1> QED
  BY <1>3, <1>7, <1>8, <1>10

-----------------------------------------------------------------------------
(* Bars, their extremes and their pieces (ChartData).                      *)

NumberBar == [time : Int, open : Int, high : Int, low : Int, close : Int, volume : Int]

\* n bars, at least one.
IsBars(bars, n) == n \in Nat \ {0} /\ bars \in [1 .. n -> NumberBar]

\* Among numbers there is a greatest.
LEMMA GreatestOfNumbers ==
  ASSUME NEW n \in Nat \ {0}, NEW v, Numbers(v, n)
  PROVE  \E i \in 1 .. n : \A j \in 1 .. n : v[j] <= v[i]
<1> DEFINE T == {k \in Nat : k = 0 \/ \E i \in 1 .. n : \A j \in 1 .. k : v[j] <= v[i]}
<1>1. 0 \in T
  OBVIOUS
<1>2. ASSUME NEW k \in 0 .. n, k \in T, k + 1 <= n
      PROVE  k + 1 \in T
  <2>1. k + 1 \in 1 .. n /\ v[k + 1] \in Int /\ \A i \in 1 .. n : v[i] \in Int
    BY <1>2 DEF Numbers
  <2>2. CASE k = 0
    <3>1. \A j \in 1 .. k + 1 : v[j] <= v[k + 1]
      BY <2>1, <2>2
    <3> QED
      BY <2>1, <3>1
  <2>3. CASE k # 0
    <3>1. PICK i \in 1 .. n : \A j \in 1 .. k : v[j] <= v[i]
      BY <1>2, <2>3
    <3>2. CASE v[k + 1] <= v[i]
      <4>1. \A j \in 1 .. k + 1 : v[j] <= v[i]
        BY <3>1, <3>2
      <4> QED
        BY <4>1
    <3>3. CASE ~(v[k + 1] <= v[i])
      <4>1. ASSUME NEW j \in 1 .. k + 1
            PROVE  v[j] <= v[k + 1]
        <5>1. v[i] \in Int /\ v[j] \in Int
          BY <2>1
        <5>2. CASE j = k + 1
          BY <2>1, <5>2
        <5>3. CASE j # k + 1
          <6>1. j \in 1 .. k
            BY <5>3
          <6>2. v[j] <= v[i]
            BY <3>1, <6>1
          <6> QED
            BY <2>1, <3>3, <5>1, <6>2
        <5> QED
          BY <5>2, <5>3
      <4> QED
        BY <2>1, <4>1
    <3> QED
      BY <3>2, <3>3
  <2> QED
    BY <2>2, <2>3
<1>3. \A k \in 0 .. n : k \in T
  <2> HIDE DEF T
  <2> QED
    BY <1>1, <1>2, PlaceByPlace
<1>4. n \in 0 .. n /\ n # 0
  OBVIOUS
<1> QED
  BY <1>3, <1>4

\* And a least.
LEMMA LeastOfNumbers ==
  ASSUME NEW n \in Nat \ {0}, NEW v, Numbers(v, n)
  PROVE  \E i \in 1 .. n : \A j \in 1 .. n : v[i] <= v[j]
<1>1. PICK w : w = [i \in 1 .. n |-> -v[i]]
  OBVIOUS
<1>2. Numbers(w, n)
  BY <1>1 DEF Numbers
<1>3. PICK i \in 1 .. n : \A j \in 1 .. n : w[j] <= w[i]
  BY <1>2, GreatestOfNumbers
<1>4. ASSUME NEW j \in 1 .. n
      PROVE  v[i] <= v[j]
  <2>1. v[i] \in Int /\ v[j] \in Int /\ w[i] = -v[i] /\ w[j] = -v[j] /\ w[j] <= w[i]
    BY <1>1, <1>3 DEF Numbers
  <2> QED
    BY <2>1
<1> QED
  BY <1>4

\* The highest price of bars is of one of them, and not below that of another.
LEMMA HighestIs ==
  ASSUME NEW n, NEW bars, IsBars(bars, n)
  PROVE  /\ Chart!Highest(bars) \in Int
         /\ \E i \in 1 .. n : Chart!Highest(bars) = bars[i].high
         /\ \A i \in 1 .. n : bars[i].high <= Chart!Highest(bars)
<1> DEFINE v == [i \in 1 .. n |-> bars[i].high]
           S == {bars[i].high : i \in DOMAIN bars}
<1>1. n \in Nat \ {0} /\ DOMAIN bars = 1 .. n /\ \A i \in 1 .. n : bars[i].high \in Int
  BY DEF IsBars, NumberBar
<1>2. PICK w : w = v
  OBVIOUS
<1>3. Numbers(w, n)
  BY <1>1, <1>2 DEF Numbers
<1>4. PICK i \in 1 .. n : \A j \in 1 .. n : w[j] <= w[i]
  BY <1>1, <1>3, GreatestOfNumbers
<1>5. \A j \in 1 .. n : bars[j].high <= bars[i].high
  BY <1>2, <1>4
<1>6. \E x \in S : \A y \in S : x >= y
  <2>1. bars[i].high \in S
    BY <1>1
  <2>2. \A y \in S : bars[i].high >= y
    BY <1>1, <1>5
  <2> QED
    BY <2>1, <2>2
<1>7. Chart!Highest(bars) \in S /\ \A y \in S : Chart!Highest(bars) >= y
  BY <1>6 DEF Chart!Highest, Chart!Max
<1> QED
  BY <1>1, <1>7

\* So is the lowest.
LEMMA LowestIs ==
  ASSUME NEW n, NEW bars, IsBars(bars, n)
  PROVE  /\ Chart!Lowest(bars) \in Int
         /\ \E i \in 1 .. n : Chart!Lowest(bars) = bars[i].low
         /\ \A i \in 1 .. n : Chart!Lowest(bars) <= bars[i].low
<1> DEFINE v == [i \in 1 .. n |-> bars[i].low]
           S == {bars[i].low : i \in DOMAIN bars}
<1>1. n \in Nat \ {0} /\ DOMAIN bars = 1 .. n /\ \A i \in 1 .. n : bars[i].low \in Int
  BY DEF IsBars, NumberBar
<1>2. PICK w : w = v
  OBVIOUS
<1>3. Numbers(w, n)
  BY <1>1, <1>2 DEF Numbers
<1>4. PICK i \in 1 .. n : \A j \in 1 .. n : w[i] <= w[j]
  BY <1>1, <1>3, LeastOfNumbers
<1>5. \A j \in 1 .. n : bars[i].low <= bars[j].low
  BY <1>2, <1>4
<1>6. \E x \in S : \A y \in S : x =< y
  <2>1. bars[i].low \in S
    BY <1>1
  <2>2. \A y \in S : bars[i].low =< y
    BY <1>1, <1>5
  <2> QED
    BY <2>1, <2>2
<1>7. Chart!Lowest(bars) \in S /\ \A y \in S : Chart!Lowest(bars) =< y
  BY <1>6 DEF Chart!Lowest, Chart!Min
<1> QED
  BY <1>1, <1>7

\* The bars after a up to b.
Piece(bars, a, b) == [i \in 1 .. b - a |-> bars[a + i]]

\* A piece of bars is bars, and its volume a difference of running sums.
LEMMA PieceIs ==
  ASSUME NEW n, NEW bars, IsBars(bars, n), NEW a \in 0 .. n, NEW b \in 0 .. n, a < b
  PROVE  /\ IsBars(Piece(bars, a, b), b - a)
         /\ \A i \in 1 .. b - a : Piece(bars, a, b)[i] = bars[a + i]
         /\ Len(Piece(bars, a, b)) = b - a
<1>1. n \in Nat \ {0} /\ \A i \in 1 .. n : bars[i] \in NumberBar
  BY DEF IsBars
<1>2. PICK d \in Nat \ {0} : d = b - a
  BY <1>1
<1>3. \A i \in 1 .. d : a + i \in 1 .. n
  BY <1>1, <1>2
<1>4. \A i \in 1 .. d : bars[a + i] \in NumberBar
  BY <1>1, <1>3
<1> QED
  BY <1>2, <1>4 DEF IsBars, Piece

\* The volume of bars.
LEMMA VolumeIs ==
  ASSUME NEW n, NEW bars, IsBars(bars, n)
  PROVE  LET v == [i \in 1 .. n |-> bars[i].volume] IN Numbers(v, n) /\ Chart!Volume(bars) = Chart!Total(v)
<1>1. n \in Nat \ {0} /\ DOMAIN bars = 1 .. n /\ \A i \in 1 .. n : bars[i].volume \in Int
  BY DEF IsBars, NumberBar
<1> QED
  BY <1>1 DEF Numbers, Chart!Volume

\* The volume of a piece is a difference of running sums.
LEMMA PieceVolume ==
  ASSUME NEW n, NEW bars, IsBars(bars, n), NEW a \in 0 .. n, NEW b \in 0 .. n, a < b,
         NEW q, SumsTo(q, [i \in 1 .. n |-> bars[i].volume], n)
  PROVE  Chart!Volume(Piece(bars, a, b)) = q[b] - q[a]
<1>1. n \in Nat \ {0} /\ a <= b
  BY DEF IsBars
<1>2. PICK p : p = Piece(bars, a, b)
  OBVIOUS
<1>3. PICK d : d = b - a
  OBVIOUS
<1>4. IsBars(p, d) /\ \A i \in 1 .. d : p[i] = bars[a + i]
  BY <1>2, <1>3, PieceIs
<1>5. PICK w : w = [i \in 1 .. d |-> p[i].volume]
  OBVIOUS
<1>6. Numbers(w, d) /\ Chart!Volume(p) = Chart!Total(w)
  BY <1>4, <1>5, VolumeIs
<1>7. PICK v : v = [i \in 1 .. n |-> bars[i].volume]
  OBVIOUS
<1>8. \A i \in 1 .. b - a : w[i] = v[a + i]
  <2> TAKE i \in 1 .. b - a
  <2>1. a + i \in 1 .. n /\ i \in 1 .. d
    BY <1>1, <1>3
  <2>2. v[a + i] = bars[a + i].volume
    BY <1>7, <2>1
  <2>3. w[i] = p[i].volume /\ p[i] = bars[a + i]
    BY <1>4, <1>5, <2>1
  <2> QED
    BY <2>2, <2>3
<1>9. Chart!Total(w) = q[b] - q[a]
  <2>1. SumsTo(q, v, n) /\ Numbers(w, b - a) /\ n \in Nat
    BY <1>1, <1>3, <1>6, <1>7
  <2> QED
    BY <1>1, <1>8, <2>1, SumOfPiece
<1> QED
  BY <1>2, <1>6, <1>9

\* The chart's operators are the ones of Arrangement.
LEMMA ChartArrangement ==
  /\ \A S, R : Chart!Arranged(S, R) = Arranged(S, R)
  /\ \A S : Chart!Lower(S) = Lower(S)
  /\ \A list, places : Chart!Picked(list, places) = Picked(list, places)
<1>1. ASSUME NEW S, NEW R
      PROVE  Chart!Arranged(S, R) = Arranged(S, R)
  BY DEF Chart!Arranged, Arranged, Chart!Ahead, Ahead, Chart!Cardinality, Cardinality
<1>2. ASSUME NEW S
      PROVE  Chart!Lower(S) = Lower(S)
  BY DEF Chart!Lower, Lower
<1>3. ASSUME NEW list, NEW places
      PROVE  Chart!Picked(list, places) = Picked(list, places)
  BY <1>1, <1>2 DEF Chart!Picked, Picked
<1> QED
  BY <1>1, <1>2, <1>3

\* Places without a gap before any are the first ones.
LEMMA FirstPlaces ==
  ASSUME NEW n \in Nat, NEW S \in SUBSET (1 .. n), \A i, j \in 1 .. n : i < j /\ j \in S => i \in S
  PROVE  \E e \in 0 .. n : S = 1 .. e
<1> DEFINE T == {e \in 0 .. n : \A i \in S : i <= e}
<1>1. n \in T
  OBVIOUS
<1>2. PICK e \in T : \A x \in T : e <= x
  <2>1. T \subseteq Nat /\ T # {}
    BY <1>1
  <2> HIDE DEF T
  <2> QED
    BY <2>1, LeastOfNats
<1>3. e \in 0 .. n /\ \A i \in S : i <= e
  BY <1>2
<1>4. e # 0 => e \in S
  <2> SUFFICES ASSUME e # 0, e \notin S
               PROVE  FALSE
    OBVIOUS
  <2>1. e - 1 \in 0 .. n
    BY <1>3
  <2>2. \A i \in S : i <= e - 1
    BY <1>3
  <2>3. e - 1 \in T
    BY <2>1, <2>2
  <2> QED
    BY <1>2, <1>3, <2>3
<1>5. \A i \in 1 .. e : i \in S
  <2> TAKE i \in 1 .. e
  <2>1. e # 0 /\ e \in 1 .. n /\ i \in 1 .. n /\ (i < e \/ i = e)
    BY <1>3
  <2> QED
    BY <1>4, <2>1
<1>6. \A i \in S : i \in 1 .. e
  BY <1>3
<1> QED
  BY <1>3, <1>5, <1>6

\* The bars at the places after a up to b, picked, are that piece.
LEMMA PickedPiece ==
  ASSUME NEW n, NEW bars, IsBars(bars, n), NEW a \in 0 .. n, NEW b \in 0 .. n, a < b
  PROVE  Chart!Picked(bars, a + 1 .. b) = Piece(bars, a, b)
<1> DEFINE places == a + 1 .. b
           o == Arranged(places, Lower(places))
<1>1. n \in Nat \ {0} /\ bars \in Seq(NumberBar) /\ DOMAIN bars = 1 .. n
  <2>1. n \in Nat \ {0} /\ bars = [k \in 1 .. n |-> bars[k]] /\ \A k \in 1 .. n : bars[k] \in NumberBar
    BY DEF IsBars
  <2> QED
    BY <2>1, FunIsSeq
<1>2. a \in Int /\ b \in Int /\ a + 1 \in Int /\ places \in SUBSET DOMAIN bars /\ places \in SUBSET Int
  BY <1>1
<1>3. IsFiniteSet(places) /\ Cardinality(places) = b - a
  <2>1. IsFiniteSet(places) /\ Cardinality(places) = IF a + 1 > b THEN 0 ELSE b - (a + 1) + 1
    BY <1>2, FS_Interval
  <2> QED
    BY <1>2, <2>1
<1>4. Picked(bars, places) = [k \in 1 .. Cardinality(places) |-> bars[o[k]]]
  <2> HIDE DEF places
  <2> QED
    BY <1>1, <1>2, PickedIs
<1>5. /\ o \in [1 .. Cardinality(places) -> places]
      /\ \A k \in 1 .. Cardinality(places) : Ahead(places, Lower(places), o[k]) = k - 1
  <2>1. StrictTotal(places, Lower(places))
    <3> HIDE DEF places
    <3> QED
      BY <1>2, LowerIsTotal
  <2> HIDE DEF places
  <2> QED
    BY <1>3, <2>1, ArrangedIs
<1>6. ASSUME NEW k \in 1 .. b - a
      PROVE  o[k] = a + k
  <2>1. PICK x \in places : x = o[k]
    <3> HIDE DEF places, o
    <3> QED
      BY <1>3, <1>5
  <2>2. Ahead(places, Lower(places), x) = k - 1
    <3> HIDE DEF places, o
    <3> QED
      BY <1>3, <1>5, <2>1
  <2>3. Ahead(places, Lower(places), x) = x - (a + 1)
    BY <1>2, RankInInterval
  <2>4. x \in Int /\ k - 1 = x - (a + 1)
    BY <1>2, <2>2, <2>3
  <2> QED
    BY <1>2, <2>1, <2>4
<1>7. Picked(bars, places) = Piece(bars, a, b)
  <2> HIDE DEF places, o
  <2> QED
    BY <1>3, <1>4, <1>6 DEF Piece
<1> QED
  BY <1>7, ChartArrangement

\* The bars of grouped are those of n bars, each of a piece of them: the j-th one
\* of those after the (j-1)-th end up to the j-th.
Groups(bars, n, grouped, m, ends, order) ==
  /\ m \in Nat \ {0} /\ ends \in [0 .. m -> 0 .. n] /\ ends[0] = 0 /\ ends[m] = n
  /\ \A j \in 1 .. m : ends[j - 1] < ends[j]
  /\ \A i \in 1 .. n : \E j \in 1 .. m : ends[j - 1] < i /\ i <= ends[j]
  /\ order \in [1 .. m -> Int] /\ \A i, j \in 1 .. m : i < j => order[i] < order[j]
  /\ grouped = [j \in 1 .. m |-> Chart!Merged(order[j], Piece(bars, ends[j - 1], ends[j]))]

\* Bars whose keys never fall are grouped by pieces.
LEMMA GroupIs ==
  ASSUME NEW n, NEW bars, IsBars(bars, n), NEW keys, Numbers(keys, n),
         \A i, j \in 1 .. n : i < j => keys[i] <= keys[j]
  PROVE  \E m, ends, order : Groups(bars, n, Chart!Group(bars, keys), m, ends, order)
<1> DEFINE K == {keys[i] : i \in 1 .. n}
           order == Arranged(K, Lower(K))
           m == Cardinality(K)
           Upto(j) == {i \in 1 .. n : keys[i] <= order[j]}
           ends == [j \in 0 .. m |-> IF j = 0 THEN 0 ELSE CHOOSE x \in 0 .. n : Upto(j) = 1 .. x]
           grouped == Chart!Group(bars, keys)
<1>1. n \in Nat \ {0} /\ DOMAIN bars = 1 .. n /\ DOMAIN keys = 1 .. n /\ \A i \in 1 .. n : keys[i] \in Int
  BY DEF IsBars, Numbers
<1>2. IsFiniteSet(K) /\ K \in SUBSET Int
  <2>1. keys \in Surjection(1 .. n, K)
    BY <1>1 DEF Numbers, Surjection
  <2>2. IsFiniteSet(1 .. n)
    BY <1>1, FS_Interval
  <2>3. IsFiniteSet(K)
    <3> HIDE DEF K
    <3> QED
      BY <2>1, <2>2, FS_Surjection
  <2> QED
    BY <1>1, <2>3
<1>3. /\ m \in Nat /\ order \in [1 .. m -> K]
      /\ \A i, j \in 1 .. m : i < j => order[i] < order[j]
      /\ \A x \in K : \E k \in 1 .. m : order[k] = x
  <2>1. StrictTotal(K, Lower(K)) /\ \A x, y \in K : <<x, y>> \in Lower(K) <=> x < y
    <3> HIDE DEF K
    <3> QED
      BY <1>2, LowerIsTotal
  <2>2. /\ m \in Nat /\ order \in [1 .. m -> K]
        /\ \A i, j \in 1 .. m : i < j => <<order[i], order[j]>> \in Lower(K)
        /\ \A x \in K : \E k \in 1 .. m : order[k] = x
    <3> HIDE DEF K
    <3> QED
      BY <1>2, <2>1, ArrangedIs
  <2>3. \A i, j \in 1 .. m : i < j => order[i] < order[j]
    <3> HIDE DEF K, order, m
    <3> QED
      BY <2>1, <2>2
  <2> HIDE DEF K, order, m
  <2> QED
    BY <2>2, <2>3
<1>4. grouped = [j \in 1 .. m |-> Chart!Merged(order[j], Chart!Picked(bars, {i \in 1 .. n : keys[i] = order[j]}))]
  <2>1. Chart!Range(keys) = K
    BY <1>1 DEF Chart!Range
  <2>2. Chart!Arranged(K, Chart!Lower(K)) = order
    BY ChartArrangement
  <2>3. DOMAIN order = 1 .. m
    <3> HIDE DEF order, m
    <3> QED
      BY <1>3
  <2> HIDE DEF K, order, m
  <2> QED
    BY <1>1, <2>1, <2>2, <2>3 DEF Chart!Group
<1> HIDE DEF order, m, grouped
<1>5. ASSUME NEW i \in 1 .. n
      PROVE  \E j \in 1 .. m : order[j] = keys[i]
  <2>1. keys[i] \in K
    OBVIOUS
  <2> HIDE DEF K
  <2> QED
    BY <1>3, <2>1
<1>6. \A j \in 1 .. m : order[j] \in Int
  <2> HIDE DEF K
  <2> QED
    BY <1>2, <1>3
<1>7. ASSUME NEW j \in 1 .. m
      PROVE  ends[j] \in 0 .. n /\ Upto(j) = 1 .. ends[j]
  <2>1. Upto(j) \in SUBSET (1 .. n)
    OBVIOUS
  <2>2. ASSUME NEW a \in 1 .. n, NEW b \in 1 .. n, a < b, b \in Upto(j)
        PROVE  a \in Upto(j)
    <3>1. keys[a] <= keys[b] /\ keys[b] <= order[j] /\ keys[a] \in Int /\ keys[b] \in Int /\ order[j] \in Int
      BY <1>1, <1>6, <2>2
    <3> QED
      BY <3>1
  <2>3. \E x \in 0 .. n : Upto(j) = 1 .. x
    <3> HIDE DEF Upto
    <3> QED
      BY <1>1, <2>1, <2>2, FirstPlaces
  <2>4. ends[j] = CHOOSE x \in 0 .. n : Upto(j) = 1 .. x
    <3>1. j \in 0 .. m /\ j # 0
      BY <1>3
    <3> HIDE DEF Upto
    <3> QED
      BY <3>1
  <2> HIDE DEF Upto, ends
  <2> QED
    BY <2>3, <2>4
<1>8. ends[0] = 0
  BY <1>3
<1>9. ends \in [0 .. m -> 0 .. n]
  <2>1. \A j \in 0 .. m : ends[j] \in 0 .. n
    <3> TAKE j \in 0 .. m
    <3>1. j = 0 \/ j \in 1 .. m
      BY <1>3
    <3>2. 0 \in 0 .. n
      BY <1>1
    <3> HIDE DEF ends
    <3> QED
      BY <1>7, <1>8, <3>1, <3>2
  <2>2. ends = [j \in 0 .. m |-> ends[j]]
    OBVIOUS
  <2> HIDE DEF ends
  <2> QED
    BY <2>1, <2>2
<1>10. ASSUME NEW i \in 1 .. n, NEW j \in 1 .. m
       PROVE  keys[i] = order[j] <=> ends[j - 1] < i /\ i <= ends[j]
  <2>1. PICK k \in 1 .. m : order[k] = keys[i]
    BY <1>5
  <2>2. /\ k \in Int /\ j \in Int /\ i \in Int
    BY <1>1, <1>3
  <2>3. \A x \in 1 .. m : i <= ends[x] <=> k <= x
    <3> TAKE x \in 1 .. m
    <3>1. i \in Upto(x) <=> keys[i] <= order[x]
      OBVIOUS
    <3>2. i <= ends[x] <=> i \in Upto(x)
      <4>1. ends[x] \in 0 .. n /\ Upto(x) = 1 .. ends[x]
        BY <1>7
      <4>2. i \in 1 .. ends[x] <=> i <= ends[x]
        BY <1>1, <4>1
      <4> HIDE DEF ends, Upto
      <4> QED
        BY <4>1, <4>2
    <3>3. order[k] <= order[x] <=> k <= x
      <4>1. /\ order[k] \in Int /\ order[x] \in Int /\ k \in Int /\ x \in Int
            /\ k < x => order[k] < order[x]
            /\ x < k => order[x] < order[k]
        BY <1>3, <1>6
      <4>2. CASE k = x
        BY <4>1, <4>2
      <4>3. CASE k < x
        BY <4>1, <4>3
      <4>4. CASE x < k
        BY <4>1, <4>4
      <4> QED
        BY <4>1, <4>2, <4>3, <4>4
    <3> HIDE DEF ends, Upto
    <3> QED
      BY <2>1, <3>1, <3>2, <3>3
  <2>4. ends[j - 1] < i <=> j - 1 < k
    <3>1. CASE j = 1
      <4>1. ends[j - 1] = 0
        BY <1>8, <3>1
      <4> HIDE DEF ends
      <4> QED
        BY <2>2, <3>1, <4>1
    <3>2. CASE j # 1
      <4>1. j - 1 \in 1 .. m
        BY <1>3, <3>2
      <4>2. i <= ends[j - 1] <=> k <= j - 1
        BY <2>3, <4>1
      <4>3. ends[j - 1] \in Int
        <5>1. ends[j - 1] \in 0 .. n
          <6> HIDE DEF ends, Upto
          <6> QED
            BY <1>7, <4>1
        <5> HIDE DEF ends
        <5> QED
          BY <1>1, <5>1
      <4> HIDE DEF ends
      <4> QED
        BY <2>2, <4>2, <4>3
    <3> QED
      BY <3>1, <3>2
  <2>5. keys[i] = order[j] <=> k = j
    <3>1. k = j => keys[i] = order[j]
      BY <2>1
    <3>2. /\ order[k] \in Int /\ order[j] \in Int
          /\ k < j => order[k] < order[j]
          /\ j < k => order[j] < order[k]
      BY <1>3, <1>6
    <3>3. k # j => order[k] # order[j]
      BY <2>2, <3>2
    <3> QED
      BY <2>1, <3>1, <3>3
  <2>6. i <= ends[j] <=> k <= j
    BY <2>3
  <2> HIDE DEF ends, Upto
  <2> QED
    BY <2>2, <2>4, <2>5, <2>6
<1> HIDE DEF ends, Upto
<1>11. ASSUME NEW j \in 1 .. m
       PROVE  /\ j - 1 \in 0 .. m /\ ends[j - 1] \in 0 .. n /\ ends[j] \in 0 .. n /\ ends[j - 1] < ends[j]
              /\ {i \in 1 .. n : keys[i] = order[j]} = ends[j - 1] + 1 .. ends[j]
  <2>1. j - 1 \in 0 .. m /\ j \in 0 .. m
    BY <1>3
  <2>2. PICK a \in 0 .. n : a = ends[j - 1]
    BY <1>9, <2>1
  <2>3. PICK b \in 0 .. n : b = ends[j]
    BY <1>9, <2>1
  <2>4. PICK i \in 1 .. n : keys[i] = order[j]
    BY <1>3
  <2>5. a < i /\ i <= b
    BY <1>10, <2>2, <2>3, <2>4
  <2>6. a < b
    BY <1>1, <2>5
  <2>7. {x \in 1 .. n : keys[x] = order[j]} = a + 1 .. b
    <3>1. ASSUME NEW x \in 1 .. n
          PROVE  keys[x] = order[j] <=> x \in a + 1 .. b
      <4>1. keys[x] = order[j] <=> a < x /\ x <= b
        BY <1>10, <2>2, <2>3
      <4> QED
        BY <1>1, <4>1
    <3>2. a + 1 .. b \subseteq 1 .. n
      BY <1>1
    <3> QED
      BY <3>1, <3>2
  <2> QED
    BY <2>1, <2>2, <2>3, <2>6, <2>7
<1>12. grouped = [j \in 1 .. m |-> Chart!Merged(order[j], Piece(bars, ends[j - 1], ends[j]))]
  <2>1. ASSUME NEW j \in 1 .. m
        PROVE  Chart!Picked(bars, {i \in 1 .. n : keys[i] = order[j]}) = Piece(bars, ends[j - 1], ends[j])
    <3>1. PICK a \in 0 .. n : a = ends[j - 1]
      BY <1>11
    <3>2. PICK b \in 0 .. n : b = ends[j]
      BY <1>11
    <3>3. a < b /\ {i \in 1 .. n : keys[i] = order[j]} = a + 1 .. b
      BY <1>11, <3>1, <3>2
    <3>4. Chart!Picked(bars, a + 1 .. b) = Piece(bars, a, b)
      BY <3>3, PickedPiece
    <3> QED
      BY <3>1, <3>2, <3>3, <3>4
  <2> QED
    BY <1>4, <2>1
<1>13. m # 0
  <2>1. 1 \in 1 .. n
    BY <1>1
  <2>2. PICK j \in 1 .. m : order[j] = keys[1]
    BY <1>5, <2>1
  <2> QED
    BY <1>3, <2>2
<1>14. \A i \in 1 .. n : \E j \in 1 .. m : ends[j - 1] < i /\ i <= ends[j]
  BY <1>5, <1>10
<1>15. ends[m] = n
  <2>1. n \in 1 .. n /\ m \in 1 .. m /\ m \in 0 .. m
    BY <1>1, <1>3, <1>13
  <2>2. PICK j \in 1 .. m : order[j] = keys[n]
    BY <1>5, <2>1
  <2>3. n <= ends[j]
    BY <1>10, <2>1, <2>2
  <2>4. ends[j] \in 0 .. n
    BY <1>11
  <2>5. ends[j] = n
    BY <1>1, <2>3, <2>4
  <2>6. j = m
    <3> SUFFICES ASSUME j # m
                 PROVE  FALSE
      OBVIOUS
    <3>1. j + 1 \in 1 .. m /\ (j + 1) - 1 = j
      BY <1>3
    <3>2. ends[j] < ends[j + 1] /\ ends[j + 1] \in 0 .. n
      BY <1>11, <3>1
    <3> QED
      BY <1>1, <2>5, <3>2
  <2> QED
    BY <2>5, <2>6
<1>16. order \in [1 .. m -> Int]
  <2> HIDE DEF K
  <2> QED
    BY <1>2, <1>3
<1>17. Groups(bars, n, grouped, m, ends, order)
  BY <1>3, <1>8, <1>9, <1>11, <1>12, <1>13, <1>14, <1>15, <1>16 DEF Groups
<1> QED
  BY <1>17 DEF grouped

\* A bar merges the bars after a up to b: the open of the first, the close of the
\* last, the extremes and the volume of all.
Merges(merged, bars, n, k, a, b) ==
  /\ merged \in NumberBar /\ merged.time = k /\ merged.volume = Chart!Volume(Piece(bars, a, b))
  /\ merged.open = bars[a + 1].open /\ merged.close = bars[b].close
  /\ \E i \in 1 .. n : a < i /\ i <= b /\ merged.high = bars[i].high
  /\ \E i \in 1 .. n : a < i /\ i <= b /\ merged.low = bars[i].low
  /\ \A i \in 1 .. n : a < i /\ i <= b => bars[i].high <= merged.high /\ merged.low <= bars[i].low

\* The bar of a group merges its bars.
LEMMA BarOfGroup ==
  ASSUME NEW n, NEW bars, IsBars(bars, n), NEW k \in Int, NEW a \in 0 .. n, NEW b \in 0 .. n, a < b
  PROVE  Merges(Chart!Merged(k, Piece(bars, a, b)), bars, n, k, a, b)
<1>0. PICK merged : merged = Chart!Merged(k, Piece(bars, a, b))
  OBVIOUS
<1>1. n \in Nat \ {0} /\ a \in Int /\ b \in Int
  BY DEF IsBars
<1>2. PICK p : p = Piece(bars, a, b)
  OBVIOUS
<1>3. PICK d \in Nat \ {0} : d = b - a
  BY <1>1
<1>4. IsBars(p, d) /\ (\A i \in 1 .. d : p[i] = bars[a + i]) /\ Len(p) = d
  <2>1. /\ IsBars(Piece(bars, a, b), b - a)
        /\ \A i \in 1 .. b - a : Piece(bars, a, b)[i] = bars[a + i]
        /\ Len(Piece(bars, a, b)) = b - a
    BY PieceIs
  <2> QED
    BY <1>2, <1>3, <2>1
<1>5. p \in Seq(NumberBar) /\ \A i \in 1 .. d : p[i] \in NumberBar
  <2>1. p = [i \in 1 .. d |-> p[i]] /\ \A i \in 1 .. d : p[i] \in NumberBar
    BY <1>4 DEF IsBars
  <2> QED
    BY <1>3, <2>1, FunIsSeq
<1>6. Head(p) = bars[a + 1] /\ p[Len(p)] = bars[b] /\ Head(p) \in NumberBar /\ p[Len(p)] \in NumberBar
  <2>1. p # <<>> /\ Head(p) = p[1]
    BY <1>3, <1>4, <1>5
  <2>2. p[Len(p)] = p[d]
    BY <1>4
  <2>3. 1 \in 1 .. d /\ d \in 1 .. d /\ a + d = b
    BY <1>1, <1>3
  <2> QED
    BY <1>4, <1>5, <2>1, <2>2, <2>3
<1>7. /\ Chart!Highest(p) \in Int
      /\ \E i \in 1 .. d : Chart!Highest(p) = p[i].high
      /\ \A i \in 1 .. d : p[i].high <= Chart!Highest(p)
  BY <1>4, HighestIs
<1>8. /\ Chart!Lowest(p) \in Int
      /\ \E i \in 1 .. d : Chart!Lowest(p) = p[i].low
      /\ \A i \in 1 .. d : Chart!Lowest(p) <= p[i].low
  BY <1>4, LowestIs
<1>9. Chart!Volume(p) \in Int
  <2>1. PICK v : v = [i \in 1 .. d |-> p[i].volume]
    OBVIOUS
  <2>2. Numbers(v, d) /\ Chart!Volume(p) = Chart!Total(v)
    BY <1>4, <2>1, VolumeIs
  <2>3. Chart!Total(v) \in Int
    BY <1>3, <2>2, NumbersAdd
  <2> QED
    BY <2>2, <2>3
<1>10. merged = [time |-> k, open |-> Head(p).open, close |-> p[Len(p)].close,
                 high |-> Chart!Highest(p), low |-> Chart!Lowest(p), volume |-> Chart!Volume(p)]
  BY <1>0, <1>2 DEF Chart!Merged
<1>11. merged \in NumberBar
  <2>1. Head(p).open \in Int /\ p[Len(p)].close \in Int
    BY <1>6 DEF NumberBar
  <2> QED
    BY <1>7, <1>8, <1>9, <1>10, <2>1 DEF NumberBar
<1>12. ASSUME NEW i \in 1 .. d
       PROVE  a + i \in 1 .. n /\ a < a + i /\ a + i <= b
  BY <1>1, <1>3
<1>13. \E i \in 1 .. n : a < i /\ i <= b /\ merged.high = bars[i].high
  <2>1. PICK i \in 1 .. d : Chart!Highest(p) = p[i].high
    BY <1>7
  <2>2. merged.high = bars[a + i].high
    BY <1>4, <1>10, <2>1
  <2> QED
    BY <1>12, <2>2
<1>14. \E i \in 1 .. n : a < i /\ i <= b /\ merged.low = bars[i].low
  <2>1. PICK i \in 1 .. d : Chart!Lowest(p) = p[i].low
    BY <1>8
  <2>2. merged.low = bars[a + i].low
    BY <1>4, <1>10, <2>1
  <2> QED
    BY <1>12, <2>2
<1>15. ASSUME NEW i \in 1 .. n, a < i, i <= b
       PROVE  bars[i].high <= merged.high /\ merged.low <= bars[i].low
  <2>1. PICK x \in 1 .. d : a + x = i
    <3>1. i - a \in 1 .. d /\ a + (i - a) = i
      BY <1>1, <1>3, <1>15
    <3> QED
      BY <3>1
  <2>2. p[x] = bars[i]
    BY <1>4, <2>1
  <2> QED
    BY <1>7, <1>8, <1>10, <2>2
<1>16. merged.time = k /\ merged.volume = Chart!Volume(p) /\ merged.open = bars[a + 1].open /\ merged.close = bars[b].close
  BY <1>6, <1>10
<1> QED
  BY <1>0, <1>2, <1>11, <1>13, <1>14, <1>15, <1>16 DEF Merges

\* Grouping loses no volume and no extreme, and keeps the first open and the last
\* close; the groups come in the order of their keys.
LEMMA GroupedIs ==
  ASSUME NEW n, NEW bars, IsBars(bars, n), \A i \in 1 .. n : bars[i].low <= bars[i].high,
         NEW grouped, NEW m, NEW ends, NEW order, Groups(bars, n, grouped, m, ends, order)
  PROVE  /\ IsBars(grouped, m)
         /\ \A i \in 1 .. m : grouped[i].low <= grouped[i].high
         /\ \A i, j \in 1 .. m : i < j => grouped[i].time < grouped[j].time
         /\ Chart!Volume(grouped) = Chart!Volume(bars)
         /\ Chart!Highest(grouped) = Chart!Highest(bars)
         /\ Chart!Lowest(grouped) = Chart!Lowest(bars)
         /\ grouped[1].open = bars[1].open /\ grouped[m].close = bars[n].close
<1>1. n \in Nat \ {0} /\ m \in Nat \ {0} /\ \A i \in 1 .. n : bars[i] \in NumberBar
  BY DEF IsBars, Groups
<1>2. ASSUME NEW j \in 1 .. m
      PROVE  /\ ends[j - 1] \in 0 .. n /\ ends[j] \in 0 .. n /\ ends[j - 1] < ends[j] /\ order[j] \in Int
             /\ grouped[j] = Chart!Merged(order[j], Piece(bars, ends[j - 1], ends[j]))
  <2>1. j - 1 \in 0 .. m /\ j \in 0 .. m
    BY <1>1
  <2> QED
    BY <2>1 DEF Groups
<1>3. ASSUME NEW j \in 1 .. m
      PROVE  /\ grouped[j] \in NumberBar /\ grouped[j].time = order[j]
             /\ grouped[j].volume = Chart!Volume(Piece(bars, ends[j - 1], ends[j]))
             /\ grouped[j].open = bars[ends[j - 1] + 1].open /\ grouped[j].close = bars[ends[j]].close
             /\ \E i \in 1 .. n : ends[j - 1] < i /\ i <= ends[j] /\ grouped[j].high = bars[i].high
             /\ \E i \in 1 .. n : ends[j - 1] < i /\ i <= ends[j] /\ grouped[j].low = bars[i].low
             /\ \A i \in 1 .. n : ends[j - 1] < i /\ i <= ends[j] =>
                  bars[i].high <= grouped[j].high /\ grouped[j].low <= bars[i].low
  <2>1. PICK a \in 0 .. n : a = ends[j - 1]
    BY <1>2
  <2>2. PICK b \in 0 .. n : b = ends[j]
    BY <1>2
  <2>3. PICK k \in Int : k = order[j]
    BY <1>2
  <2>4. Merges(Chart!Merged(k, Piece(bars, a, b)), bars, n, k, a, b)
    BY <1>2, <2>1, <2>2, BarOfGroup
  <2>5. grouped[j] = Chart!Merged(k, Piece(bars, a, b))
    BY <1>2, <2>1, <2>2, <2>3
  <2> QED
    BY <2>1, <2>2, <2>3, <2>4, <2>5 DEF Merges
<1>4. IsBars(grouped, m)
  <2>1. grouped = [j \in 1 .. m |-> grouped[j]]
    BY DEF Groups
  <2> QED
    BY <1>1, <1>3, <2>1 DEF IsBars
<1>5. \A i \in 1 .. n : bars[i].high \in Int /\ bars[i].low \in Int
  BY <1>1 DEF NumberBar
<1>6. \A j \in 1 .. m : grouped[j].high \in Int /\ grouped[j].low \in Int
  BY <1>3 DEF NumberBar
<1>7. ASSUME NEW j \in 1 .. m
      PROVE  grouped[j].low <= grouped[j].high
  <2>1. PICK i \in 1 .. n : ends[j - 1] < i /\ i <= ends[j] /\ grouped[j].high = bars[i].high
    BY <1>3
  <2>2. grouped[j].low <= bars[i].low /\ bars[i].low <= bars[i].high
    BY <1>3, <2>1
  <2> QED
    BY <1>5, <1>6, <2>1, <2>2
<1>8. ASSUME NEW i \in 1 .. m, NEW j \in 1 .. m, i < j
      PROVE  grouped[i].time < grouped[j].time
  <2>1. order[i] < order[j]
    BY <1>8 DEF Groups
  <2>2. grouped[i].time = order[i] /\ grouped[j].time = order[j]
    BY <1>3
  <2> QED
    BY <2>1, <2>2
<1>9. ASSUME NEW i \in 1 .. n
      PROVE  \E j \in 1 .. m : bars[i].high <= grouped[j].high /\ grouped[j].low <= bars[i].low
  <2>1. PICK j \in 1 .. m : ends[j - 1] < i /\ i <= ends[j]
    BY DEF Groups
  <2> QED
    BY <1>3, <2>1
<1>10. Chart!Highest(grouped) = Chart!Highest(bars)
  <2>1. PICK h \in Int : h = Chart!Highest(bars)
    BY HighestIs
  <2>2. PICK g \in Int : g = Chart!Highest(grouped)
    BY <1>4, HighestIs
  <2>3. (\E i \in 1 .. n : h = bars[i].high) /\ \A i \in 1 .. n : bars[i].high <= h
    BY <2>1, HighestIs
  <2>4. (\E j \in 1 .. m : g = grouped[j].high) /\ \A j \in 1 .. m : grouped[j].high <= g
    BY <1>4, <2>2, HighestIs
  <2>5. h <= g
    <3>1. PICK i \in 1 .. n : h = bars[i].high
      BY <2>3
    <3>2. PICK j \in 1 .. m : bars[i].high <= grouped[j].high
      BY <1>9
    <3> QED
      BY <1>6, <2>4, <3>1, <3>2
  <2>6. g <= h
    <3>1. PICK j \in 1 .. m : g = grouped[j].high
      BY <2>4
    <3>2. PICK i \in 1 .. n : grouped[j].high = bars[i].high
      BY <1>3
    <3> QED
      BY <2>3, <3>1, <3>2
  <2> QED
    BY <2>1, <2>2, <2>5, <2>6
<1>11. Chart!Lowest(grouped) = Chart!Lowest(bars)
  <2>1. PICK h \in Int : h = Chart!Lowest(bars)
    BY LowestIs
  <2>2. PICK g \in Int : g = Chart!Lowest(grouped)
    BY <1>4, LowestIs
  <2>3. (\E i \in 1 .. n : h = bars[i].low) /\ \A i \in 1 .. n : h <= bars[i].low
    BY <2>1, LowestIs
  <2>4. (\E j \in 1 .. m : g = grouped[j].low) /\ \A j \in 1 .. m : g <= grouped[j].low
    BY <1>4, <2>2, LowestIs
  <2>5. g <= h
    <3>1. PICK i \in 1 .. n : h = bars[i].low
      BY <2>3
    <3>2. PICK j \in 1 .. m : grouped[j].low <= bars[i].low
      BY <1>9
    <3> QED
      BY <1>6, <2>4, <3>1, <3>2
  <2>6. h <= g
    <3>1. PICK j \in 1 .. m : g = grouped[j].low
      BY <2>4
    <3>2. PICK i \in 1 .. n : grouped[j].low = bars[i].low
      BY <1>3
    <3> QED
      BY <2>3, <3>1, <3>2
  <2> QED
    BY <2>1, <2>2, <2>5, <2>6
<1>12. Chart!Volume(grouped) = Chart!Volume(bars)
  <2>1. PICK v : v = [i \in 1 .. n |-> bars[i].volume]
    OBVIOUS
  <2>2. Numbers(v, n) /\ Chart!Volume(bars) = Chart!Total(v)
    BY <2>1, VolumeIs
  <2>3. PICK q : q = Chart!Running(v)
    OBVIOUS
  <2>4. SumsTo(q, v, n) /\ Chart!Total(v) = q[n]
    BY <1>1, <2>2, <2>3, NumbersAdd
  <2>5. PICK w : w = [j \in 1 .. m |-> grouped[j].volume]
    OBVIOUS
  <2>6. Numbers(w, m) /\ Chart!Volume(grouped) = Chart!Total(w)
    BY <1>4, <2>5, VolumeIs
  <2>7. PICK s : s = [j \in 0 .. m |-> q[ends[j]]]
    OBVIOUS
  <2>8. ASSUME NEW j \in 1 .. m
        PROVE  w[j] = q[ends[j]] - q[ends[j - 1]]
    <3>1. PICK a \in 0 .. n : a = ends[j - 1]
      BY <1>2
    <3>2. PICK b \in 0 .. n : b = ends[j]
      BY <1>2
    <3>3. a < b /\ SumsTo(q, [i \in 1 .. n |-> bars[i].volume], n)
      BY <1>2, <2>1, <2>4, <3>1, <3>2
    <3>4. Chart!Volume(Piece(bars, a, b)) = q[b] - q[a]
      BY <3>3, PieceVolume
    <3> QED
      BY <1>3, <2>5, <3>1, <3>2, <3>4
  <2>9. \A j \in 0 .. m : s[j] = q[ends[j]] /\ s[j] \in Int
    <3>1. \A i \in 0 .. n : q[i] \in Int
      BY <2>4 DEF SumsTo
    <3>2. \A j \in 0 .. m : ends[j] \in 0 .. n
      BY DEF Groups
    <3> QED
      BY <2>7, <3>1, <3>2
  <2>10. s[0] = 0 /\ s[m] = q[n]
    <3>1. 0 \in 0 .. m /\ m \in 0 .. m /\ q[0] = 0 /\ ends[0] = 0 /\ ends[m] = n
      BY <1>1, <2>4 DEF Groups, SumsTo
    <3> QED
      BY <2>9, <3>1
  <2>11. \A j \in 0 .. m : j + 1 <= m => s[j + 1] = s[j] + w[j + 1]
    <3> TAKE j \in 0 .. m
    <3> SUFFICES ASSUME j + 1 <= m
                 PROVE  s[j + 1] = s[j] + w[j + 1]
      OBVIOUS
    <3>1. j + 1 \in 1 .. m /\ j + 1 \in 0 .. m /\ (j + 1) - 1 = j
      BY <1>1
    <3>2. w[j + 1] = q[ends[j + 1]] - q[ends[j]]
      BY <2>8, <3>1
    <3>3. PICK x \in Int : x = s[j]
      BY <2>9
    <3>4. PICK y \in Int : y = s[j + 1]
      BY <2>9, <3>1
    <3>5. w[j + 1] = y - x
      BY <2>9, <3>1, <3>2, <3>3, <3>4
    <3> QED
      BY <3>3, <3>4, <3>5
  <2>12. SumsTo(s, w, m)
    BY <2>9, <2>10, <2>11 DEF SumsTo
  <2>13. Chart!Total(w) = s[m]
    BY <1>1, <2>6, <2>12, SumIs
  <2> QED
    BY <2>2, <2>4, <2>6, <2>10, <2>13
<1>13. grouped[1].open = bars[1].open
  <2>1. 1 \in 1 .. m /\ 1 - 1 = 0 /\ ends[0] = 0 /\ 0 + 1 = 1
    BY <1>1 DEF Groups
  <2>2. grouped[1].open = bars[ends[1 - 1] + 1].open
    BY <1>3, <2>1
  <2> QED
    BY <2>1, <2>2
<1>14. grouped[m].close = bars[n].close
  <2>1. m \in 1 .. m /\ ends[m] = n
    BY <1>1 DEF Groups
  <2> QED
    BY <1>3, <2>1
<1> QED
  BY <1>4, <1>7, <1>8, <1>10, <1>11, <1>12, <1>13, <1>14

\* m bars are drawn for n bars served: in the order of their times, of the same
\* volume and extremes, the same first open and last close.
DrawnFor(bars, m, raw, n) ==
  /\ IsBars(raw, n) /\ IsBars(bars, m)
  /\ \A i \in 1 .. m : bars[i].low <= bars[i].high
  /\ \A i, j \in 1 .. m : i < j => bars[i].time < bars[j].time
  /\ Chart!Volume(bars) = Chart!Volume(raw)
  /\ Chart!Highest(bars) = Chart!Highest(raw) /\ Chart!Lowest(bars) = Chart!Lowest(raw)
  /\ bars[1].open = raw[1].open /\ bars[m].close = raw[n].close

\* Bars grouped by keys that never fall are drawn for those bars.
LEMMA GroupDrawn ==
  ASSUME NEW n, NEW raw, IsBars(raw, n), \A i \in 1 .. n : raw[i].low <= raw[i].high,
         NEW keys, Numbers(keys, n), \A i, j \in 1 .. n : i < j => keys[i] <= keys[j]
  PROVE  \E m : DrawnFor(Chart!Group(raw, keys), m, raw, n)
<1>1. PICK bars : bars = Chart!Group(raw, keys)
  OBVIOUS
<1>2. PICK m, ends, order : Groups(raw, n, bars, m, ends, order)
  BY <1>1, GroupIs
<1>3. DrawnFor(bars, m, raw, n)
  BY <1>2, GroupedIs DEF DrawnFor
<1> QED
  BY <1>1, <1>3

\* The Mondays of days in order are in order.
LEMMA MondaysAscend ==
  ASSUME NEW d \in Int, NEW e \in Int, d < e
  PROVE  Chart!Monday(d) \in Int /\ Chart!Monday(e) \in Int /\ Chart!Monday(d) <= Chart!Monday(e)
<1>1. PICK x \in Int, r \in 0 .. 6 : d = 7 * x + r /\ d % 7 = r
  <2>1. d % 7 \in 0 .. 6 /\ d \div 7 \in Int /\ d = 7 * (d \div 7) + (d % 7)
    OBVIOUS
  <2> QED
    BY <2>1
<1>2. PICK y \in Int, s \in 0 .. 6 : e = 7 * y + s /\ e % 7 = s
  <2>1. e % 7 \in 0 .. 6 /\ e \div 7 \in Int /\ e = 7 * (e \div 7) + (e % 7)
    OBVIOUS
  <2> QED
    BY <2>1
<1>3. Chart!Monday(d) = IF r = 0 THEN 7 * x - 6 ELSE 7 * x + 1
  BY <1>1 DEF Chart!Monday
<1>4. Chart!Monday(e) = IF s = 0 THEN 7 * y - 6 ELSE 7 * y + 1
  BY <1>2 DEF Chart!Monday
<1>5. 7 * x + r < 7 * y + s
  BY <1>1, <1>2
<1> QED
  BY <1>3, <1>4, <1>5

\* Resampled bars are drawn for the bars served.
LEMMA ResampledDrawn ==
  ASSUME NEW raw, Chart!Sound(raw), NEW tf
  PROVE  \E m, n : DrawnFor(Chart!Resampled(raw, tf), m, raw, n)
<1>1. PICK n : n = Len(raw)
  OBVIOUS
<1>2. /\ n \in Nat \ {0} /\ raw \in [1 .. n -> Chart!Bar] /\ DOMAIN raw = 1 .. n
      /\ \A i \in 1 .. n : raw[i] \in Chart!Bar
  BY <1>1 DEF Chart!Sound
<1>3. Chart!Bar \subseteq NumberBar
  BY DEF Chart!Bar, NumberBar
<1>4. IsBars(raw, n)
  BY <1>2, <1>3 DEF IsBars
<1>5. \A i \in 1 .. n : raw[i].time \in Int /\ raw[i].low <= raw[i].high /\ MonthStart(raw[i].time) \in Int
  BY <1>2 DEF Chart!Bar, Chart!Sound
<1>6. \A i, j \in 1 .. n :
        i < j => raw[i].time < raw[j].time /\ MonthStart(raw[i].time) <= MonthStart(raw[j].time)
  BY <1>2 DEF Chart!Sound
<1>7. CASE tf = "1w"
  <2>1. PICK keys : keys = [i \in DOMAIN raw |-> Chart!Monday(raw[i].time)]
    OBVIOUS
  <2>2. \A i, j \in 1 .. n : i < j => keys[i] <= keys[j]
    BY <1>2, <1>5, <1>6, <2>1, MondaysAscend
  <2>3. Numbers(keys, n)
    <3>1. \A d \in Int : Chart!Monday(d) \in Int
      BY MondaysAscend
    <3> QED
      BY <1>2, <1>5, <2>1, <3>1 DEF Numbers
  <2>4. PICK m : DrawnFor(Chart!Group(raw, keys), m, raw, n)
    BY <1>4, <1>5, <2>2, <2>3, GroupDrawn
  <2>5. Chart!Resampled(raw, tf) = Chart!Group(raw, keys)
    BY <1>7, <2>1 DEF Chart!Resampled
  <2> QED
    BY <2>4, <2>5
<1>8. CASE tf = "1mo"
  <2>1. PICK keys : keys = [i \in DOMAIN raw |-> MonthStart(raw[i].time)]
    OBVIOUS
  <2>2. \A i, j \in 1 .. n : i < j => keys[i] <= keys[j]
    BY <1>2, <1>6, <2>1
  <2>3. Numbers(keys, n)
    BY <1>2, <1>5, <2>1 DEF Numbers
  <2>4. PICK m : DrawnFor(Chart!Group(raw, keys), m, raw, n)
    BY <1>4, <1>5, <2>2, <2>3, GroupDrawn
  <2>5. Chart!Resampled(raw, tf) = Chart!Group(raw, keys)
    BY <1>8, <2>1 DEF Chart!Resampled
  <2> QED
    BY <2>4, <2>5
<1>9. CASE tf # "1w" /\ tf # "1mo"
  <2>1. Chart!Resampled(raw, tf) = raw
    BY <1>9 DEF Chart!Resampled
  <2>2. DrawnFor(raw, n, raw, n)
    BY <1>4, <1>5, <1>6 DEF DrawnFor
  <2> QED
    BY <2>1, <2>2
<1> QED
  BY <1>7, <1>8, <1>9

\* The bars of a key are drawn for those the server has.
LEMMA BarsDrawn ==
  ASSUME NEW k \in Chart!Keys
  PROVE  \E m, n : DrawnFor(Chart!Bars(k), m, Served(k.symbol, Chart!Endpoint(k.tf)), n)
<1>1. k.symbol \in Symbols /\ k.tf \in Offered
  BY DEF Chart!Keys
<1>2. Chart!Sound(Served(k.symbol, Chart!Endpoint(k.tf)))
  BY <1>1, CockpitViewsAssumption DEF Chart!DailyChartAssumption
<1> QED
  BY <1>2, ResampledDrawn DEF Chart!Bars

\* An average ends at the last bar, or has no point.
LEMMA LineEnds ==
  ASSUME NEW k \in Chart!Keys, NEW line \in {"fast", "slow"},
         NEW times, times = Chart!LineTimes(k, line), times # <<>>
  PROVE  times[Len(times)] = Chart!Bars(k)[Len(Chart!Bars(k))].time
<1>1. PICK period : period = Chart!EmaPeriods(k.tf)[line]
  OBVIOUS
<1>2. period \in Nat \ {0}
  <2>1. k.tf \in {"1m", "15m", "1d", "1w", "1mo"}
    BY CockpitViewsAssumption DEF Chart!Keys, Chart!DailyChartAssumption, Chart!Timeframes
  <2>2. CASE k.tf = "1m"
    BY <1>1, <2>2 DEF Chart!EmaPeriods
  <2>3. CASE k.tf = "15m"
    BY <1>1, <2>3 DEF Chart!EmaPeriods
  <2>4. CASE k.tf = "1d"
    BY <1>1, <2>4 DEF Chart!EmaPeriods
  <2>5. CASE k.tf = "1w"
    BY <1>1, <2>5 DEF Chart!EmaPeriods
  <2>6. CASE k.tf = "1mo"
    BY <1>1, <2>6 DEF Chart!EmaPeriods
  <2> QED
    BY <2>1, <2>2, <2>3, <2>4, <2>5, <2>6
<1>3. PICK m, n : DrawnFor(Chart!Bars(k), m, Served(k.symbol, Chart!Endpoint(k.tf)), n)
  BY BarsDrawn
<1>4. PICK bars : bars = Chart!Bars(k)
  OBVIOUS
<1>5. m \in Nat \ {0} /\ DOMAIN bars = 1 .. m /\ Len(bars) = m /\ \A i \in 1 .. m : bars[i].time \in Int
  BY <1>3, <1>4 DEF DrawnFor, IsBars, NumberBar
<1>6. PICK all : all = Chart!Times(bars)
  OBVIOUS
<1>7. all = [i \in 1 .. m |-> bars[i].time] /\ all \in Seq(Int) /\ Len(all) = m
  BY <1>5, <1>6 DEF Chart!Times
<1>8. times = SubSeq(all, period, m)
  BY <1>1, <1>4, <1>5, <1>6 DEF Chart!LineTimes, Chart!EmaTimes
<1>9. period <= m
  <2>1. period > m => SubSeq(all, period, m) = <<>>
    BY <1>2, <1>5, <1>7
  <2> QED
    BY <1>2, <1>5, <1>8, <2>1
<1>10. Len(times) = m - period + 1 /\ \A i \in 1 .. m - period + 1 : times[i] = all[period + i - 1]
  BY <1>2, <1>5, <1>7, <1>8, <1>9
<1>11. times[Len(times)] = all[m]
  <2>1. PICK x \in Nat \ {0} : x = m - period + 1
    BY <1>2, <1>5, <1>9
  <2>2. x \in 1 .. x /\ period + x - 1 = m
    <3>1. period \in Int /\ m \in Int
      BY <1>2, <1>5
    <3> QED
      BY <2>1, <3>1
  <2> QED
    BY <1>10, <2>1, <2>2
<1>12. bars[Len(bars)] = bars[m]
  BY <1>5
<1>13. m \in 1 .. m
  BY <1>5
<1> QED
  BY <1>4, <1>7, <1>11, <1>12, <1>13

-----------------------------------------------------------------------------
(* The volume profile (VolumeProfile).                                     *)

\* f is the factorial up to j.
FactorialUpto(f, j) == f = [n \in 0 .. j |-> IF n = 0 THEN 1 ELSE n * f[n - 1]]

\* Factorial is what its definition says.
LEMMA FactorialIs ==
  /\ Chart!Factorial[0] = 1
  /\ \A i \in 0 .. Buckets : i + 1 <= Buckets => Chart!Factorial[i + 1] = (i + 1) * Chart!Factorial[i]
  /\ \A i \in 0 .. Buckets : Chart!Factorial[i] \in Int
<1> DEFINE T == {j \in Nat : \E f : FactorialUpto(f, j)}
<1>1. PICK n \in Nat \ {0} : n = Buckets
  BY CockpitViewsAssumption DEF Chart!DailyChartAssumption
<1>2. 0 \in T
  <2>1. FactorialUpto([i \in 0 .. 0 |-> 1], 0)
    BY DEF FactorialUpto
  <2> QED
    BY <2>1
<1>3. ASSUME NEW j \in 0 .. n, j \in T, j + 1 <= n
      PROVE  j + 1 \in T
  <2>1. PICK f : FactorialUpto(f, j)
    BY <1>3
  <2> DEFINE g == [i \in 0 .. j + 1 |-> IF i = 0 THEN 1 ELSE i * f[i - 1]]
  <2>2. ASSUME NEW i \in 0 .. j
        PROVE  g[i] = f[i]
    <3>1. i \in 0 .. j + 1
      OBVIOUS
    <3>2. f[i] = IF i = 0 THEN 1 ELSE i * f[i - 1]
      BY <2>1 DEF FactorialUpto
    <3> QED
      BY <3>1, <3>2
  <2>3. ASSUME NEW i \in 0 .. j + 1
        PROVE  g[i] = IF i = 0 THEN 1 ELSE i * g[i - 1]
    <3>1. CASE i = 0
      BY <3>1
    <3>2. CASE i # 0
      <4>1. i - 1 \in 0 .. j
        BY <3>2
      <4>2. g[i - 1] = f[i - 1]
        BY <2>2, <4>1
      <4> QED
        BY <3>2, <4>2
    <3> QED
      BY <3>1, <3>2
  <2>4. FactorialUpto(g, j + 1)
    <3>1. g = [i \in 0 .. j + 1 |-> g[i]]
      OBVIOUS
    <3> HIDE DEF g
    <3> QED
      BY <2>3, <3>1 DEF FactorialUpto
  <2> QED
    BY <2>4
<1>4. n \in T
  <2>1. \A j \in 0 .. n : j \in T
    <3> HIDE DEF T
    <3> QED
      BY <1>2, <1>3, PlaceByPlace
  <2>2. n \in 0 .. n
    OBVIOUS
  <2> QED
    BY <2>1, <2>2
<1>5. PICK f : FactorialUpto(f, n)
  BY <1>4
<1>6. Chart!Factorial = [i \in 0 .. n |-> IF i = 0 THEN 1 ELSE i * Chart!Factorial[i - 1]]
  BY <1>1, <1>5 DEF Chart!Factorial, FactorialUpto
<1>7. PICK r : r = Chart!Factorial
  OBVIOUS
<1>8. r = [i \in 0 .. n |-> IF i = 0 THEN 1 ELSE i * r[i - 1]]
  BY <1>6, <1>7
<1>9. r[0] = 1
  BY <1>8
<1>10. ASSUME NEW i \in 0 .. n, i + 1 <= n
       PROVE  r[i + 1] = (i + 1) * r[i]
  <2>1. i + 1 \in 0 .. n /\ i + 1 # 0 /\ i + 1 - 1 = i
    BY <1>10
  <2> QED
    BY <1>8, <2>1
<1>11. \A i \in 0 .. n : r[i] \in Int
  <2> DEFINE S == {i \in Nat : r[i] \in Int}
  <2>1. 0 \in S
    BY <1>9
  <2>2. ASSUME NEW i \in 0 .. n, i \in S, i + 1 <= n
        PROVE  i + 1 \in S
    BY <1>10, <2>2
  <2>3. \A i \in 0 .. n : i \in S
    <3> HIDE DEF S
    <3> QED
      BY <2>1, <2>2, PlaceByPlace
  <2> QED
    BY <2>3
<1> QED
  BY <1>1, <1>7, <1>9, <1>10, <1>11

\* Scale is a multiple of every number of buckets.
LEMMA ScaleDivides ==
  ASSUME NEW c \in 1 .. Buckets
  PROVE  \E q \in Int : Chart!Scale = c * q
<1> DEFINE T == {k \in Nat : \A x \in 1 .. k : \E q \in Int : Chart!Factorial[k] = x * q}
<1>1. PICK n \in Nat \ {0} : n = Buckets
  BY CockpitViewsAssumption DEF Chart!DailyChartAssumption
<1>2. 0 \in T
  OBVIOUS
<1>3. ASSUME NEW k \in 0 .. n, k \in T, k + 1 <= n
      PROVE  k + 1 \in T
  <2>1. PICK f \in Int : f = Chart!Factorial[k]
    BY <1>1, FactorialIs
  <2>2. Chart!Factorial[k + 1] = (k + 1) * f
    BY <1>1, <1>3, <2>1, FactorialIs
  <2>3. ASSUME NEW x \in 1 .. k + 1
        PROVE  \E q \in Int : (k + 1) * f = x * q
    <3>1. CASE x = k + 1
      BY <3>1
    <3>2. CASE x # k + 1
      <4>1. x \in 1 .. k
        BY <3>2
      <4>2. PICK p \in Int : f = x * p
        BY <1>3, <2>1, <4>1
      <4>3. (k + 1) * (x * p) = x * ((k + 1) * p)
        BY <4>1
      <4>4. (k + 1) * p \in Int
        OBVIOUS
      <4> QED
        BY <4>2, <4>3, <4>4
    <3> QED
      BY <3>1, <3>2
  <2>4. k + 1 \in Nat
    BY <1>3
  <2>5. \A x \in 1 .. k + 1 : \E q \in Int : Chart!Factorial[k + 1] = x * q
    BY <2>2, <2>3
  <2> QED
    BY <2>4, <2>5
<1>4. \A k \in 0 .. n : k \in T
  <2> HIDE DEF T
  <2> QED
    BY <1>2, <1>3, PlaceByPlace
<1>5. n \in 0 .. n /\ c \in 1 .. n
  BY <1>1
<1>6. \E q \in Int : Chart!Factorial[n] = c * q
  BY <1>4, <1>5
<1> QED
  BY <1>1, <1>6 DEF Chart!Scale

\* A factor of a positive product is positive if the other one is.
LEMMA PositiveFactor ==
  ASSUME NEW d \in Nat \ {0}, NEW y \in Int, d * y > 0
  PROVE  y > 0
OBVIOUS

\* A quotient, rounded down.
LEMMA Quotient ==
  ASSUME NEW x \in Int, NEW d \in Nat \ {0}
  PROVE  x \div d \in Int /\ d * (x \div d) <= x /\ x < d * (x \div d) + d
OBVIOUS

\* A multiple divided has no rest.
LEMMA ExactQuotient ==
  ASSUME NEW d \in Nat \ {0}, NEW z \in Int
  PROVE  (d * z) \div d = z
<1>1. PICK q \in Int : q = (d * z) \div d
  BY Quotient
<1>2. d * q <= d * z /\ d * z < d * q + d
  BY <1>1, Quotient
<1>3. z - q + 1 > 0
  <2>1. d * (z - q + 1) > 0
    BY <1>2
  <2> QED
    BY <2>1, PositiveFactor
<1>4. q - z + 1 > 0
  <2>1. d * (q - z + 1) > 0
    BY <1>2
  <2> QED
    BY <2>1, PositiveFactor
<1> QED
  BY <1>1, <1>3, <1>4

\* A price between the extremes has a bucket, but the highest one, whose bucket
\* would be one past the last; a higher price has no lower bucket.
LEMMA BucketIs ==
  ASSUME NEW lo \in Int, NEW hi \in Int, lo < hi, NEW x \in lo .. hi, NEW y \in lo .. hi, x <= y
  PROVE  /\ Chart!BucketOf(x, lo, hi) \in 0 .. Buckets /\ Chart!BucketOf(y, lo, hi) \in 0 .. Buckets
         /\ Chart!BucketOf(x, lo, hi) <= Chart!BucketOf(y, lo, hi)
         /\ x < hi => Chart!BucketOf(x, lo, hi) < Buckets
         /\ x = hi => Chart!BucketOf(x, lo, hi) = Buckets
<1>1. PICK n \in Nat \ {0} : n = Buckets
  BY CockpitViewsAssumption DEF Chart!DailyChartAssumption
<1>2. PICK d \in Nat \ {0} : d = hi - lo
  OBVIOUS
<1>3. ASSUME NEW z \in lo .. hi
      PROVE  LET b == Chart!BucketOf(z, lo, hi) IN
             b \in 0 .. n /\ d * b <= (z - lo) * n /\ (z - lo) * n < d * b + d /\ (z < hi => b < n) /\ (z = hi => b = n)
  <2>1. PICK e \in Nat : e = z - lo
    OBVIOUS
  <2>2. e <= d /\ e * n \in Int
    BY <1>2, <2>1
  <2>3. PICK b : b = (e * n) \div d
    OBVIOUS
  <2>4. b \in Int /\ d * b <= e * n /\ e * n < d * b + d
    BY <2>2, <2>3, Quotient
  <2>5. b >= 0
    <3>1. e * n >= 0
      OBVIOUS
    <3>2. d * (b + 1) > 0
      BY <2>4, <3>1
    <3>3. b + 1 > 0
      BY <2>4, <3>2, PositiveFactor
    <3> QED
      BY <2>4, <3>3
  <2>6. e = d => b = n
    <3> SUFFICES ASSUME e = d
                 PROVE  b = n
      OBVIOUS
    <3> QED
      BY <2>3, ExactQuotient
  <2>7. e < d => b < n
    <3> SUFFICES ASSUME e < d
                 PROVE  b < n
      OBVIOUS
    <3>1. e * n < d * n
      <4>1. n * (d - e) > 0
        OBVIOUS
      <4> QED
        BY <4>1
    <3>2. d * (n - b) > 0
      BY <2>4, <3>1
    <3>3. n - b > 0
      BY <2>4, <3>2, PositiveFactor
    <3> QED
      BY <2>4, <3>3
  <2>8. Chart!BucketOf(z, lo, hi) = b
    BY <1>1, <1>2, <2>1, <2>3 DEF Chart!BucketOf
  <2> QED
    BY <1>2, <2>1, <2>2, <2>4, <2>5, <2>6, <2>7, <2>8
<1>4. PICK b : b = Chart!BucketOf(x, lo, hi)
  OBVIOUS
<1>5. PICK c : c = Chart!BucketOf(y, lo, hi)
  OBVIOUS
<1>6. b \in 0 .. n /\ (x - lo) * n < d * b + d /\ d * b <= (x - lo) * n /\ (x < hi => b < n) /\ (x = hi => b = n)
  BY <1>3, <1>4
<1>7. c \in 0 .. n /\ (y - lo) * n < d * c + d
  BY <1>3, <1>5
<1>8. b <= c
  <2>1. (x - lo) * n <= (y - lo) * n
    <3>1. n * (y - x) >= 0
      OBVIOUS
    <3> QED
      BY <3>1
  <2>2. d * (c - b + 1) > 0
    BY <1>6, <1>7, <2>1
  <2>3. c - b + 1 > 0
    BY <1>6, <1>7, <2>2, PositiveFactor
  <2> QED
    BY <1>6, <1>7, <2>3
<1> QED
  BY <1>1, <1>4, <1>5, <1>6, <1>7, <1>8

\* What a bar puts in the buckets.
Shares(bar, lo, hi) == [i \in 1 .. Buckets |-> Chart!Share(bar, i - 1, lo, hi)]

\* Together it is its volume, but for a bar which traded at the highest price alone.
LEMMA SharesOfBar ==
  ASSUME NEW lo \in Int, NEW hi \in Int, lo < hi, NEW bar \in NumberBar,
         lo <= bar.low, bar.low <= bar.high, bar.high <= hi
  PROVE  /\ Numbers(Shares(bar, lo, hi), Buckets)
         /\ Chart!Total(Shares(bar, lo, hi)) = Chart!Scale * (IF bar.low < hi THEN bar.volume ELSE 0)
<1>0. PICK w : w = Shares(bar, lo, hi)
  OBVIOUS
<1>1. PICK n \in Nat \ {0} : n = Buckets
  BY CockpitViewsAssumption DEF Chart!DailyChartAssumption
<1>2. bar.low \in lo .. hi /\ bar.high \in lo .. hi /\ bar.volume \in Int
  BY DEF NumberBar
<1>3. PICK x : x = Chart!BucketOf(bar.low, lo, hi)
  OBVIOUS
<1>4. PICK y : y = Chart!BucketOf(bar.high, lo, hi)
  OBVIOUS
<1>5. x \in 0 .. n /\ y \in 0 .. n /\ x <= y /\ (bar.low < hi => x < n) /\ (bar.low = hi => x = n)
  BY <1>1, <1>2, <1>3, <1>4, BucketIs
<1>6. PICK scale \in Int : scale = Chart!Scale
  <2>1. Chart!Factorial[Buckets] \in Int
    BY <1>1, FactorialIs
  <2> QED
    BY <2>1 DEF Chart!Scale
<1>7. Chart!BottomBucket(bar, lo, hi) = x
  <2>1. Chart!Max({0, x}) = x
    BY <1>5 DEF Chart!Max
  <2> QED
    BY <1>3, <2>1 DEF Chart!BottomBucket
<1>8. PICK t \in Int : t = Chart!TopBucket(bar, lo, hi) /\ t <= n - 1 /\ (x < n => x <= t)
  <2>1. PICK t \in Int : t = IF y <= n - 1 THEN y ELSE n - 1
    BY <1>5
  <2>2. Chart!Min({n - 1, y}) = t
    BY <1>5, <2>1 DEF Chart!Min
  <2>3. Chart!TopBucket(bar, lo, hi) = t
    BY <1>1, <1>4, <2>2 DEF Chart!TopBucket
  <2>4. t <= n - 1 /\ (x < n => x <= t)
    BY <1>5, <2>1
  <2> QED
    BY <2>3, <2>4
<1>9. ASSUME NEW i \in 1 .. n
      PROVE  w[i] = IF x < i /\ i <= t + 1 THEN (scale * bar.volume) \div (t - x + 1) ELSE 0
  <2>1. w[i] = Chart!Share(bar, i - 1, lo, hi)
    BY <1>0, <1>1 DEF Shares
  <2>2. Chart!Share(bar, i - 1, lo, hi) = IF i - 1 \in x .. t THEN (scale * bar.volume) \div (t - x + 1) ELSE 0
    BY <1>6, <1>7, <1>8 DEF Chart!Share
  <2>3. i - 1 \in x .. t <=> x < i /\ i <= t + 1
    BY <1>5, <1>8
  <2> QED
    BY <2>1, <2>2, <2>3
<1>10. w = [i \in 1 .. n |-> w[i]]
  <2>1. w = [i \in 1 .. Buckets |-> w[i]]
    BY <1>0 DEF Shares
  <2> QED
    BY <1>1, <2>1
<1>11. CASE bar.low < hi
  <2>1. PICK k \in 1 .. n : k = t - x + 1
    BY <1>5, <1>8, <1>11
  <2>2. PICK q \in Int : scale = k * q
    BY <1>1, <1>6, ScaleDivides
  <2>3. PICK c \in Int : c = q * bar.volume
    BY <1>2
  <2>4. scale * bar.volume = k * c
    BY <1>2, <2>2, <2>3
  <2>5. (scale * bar.volume) \div k = c
    BY <2>4, ExactQuotient
  <2>6. \A i \in 1 .. n : w[i] = IF x < i /\ i <= t + 1 THEN c ELSE 0
    BY <1>9, <2>1, <2>5
  <2>7. Numbers(w, n)
    <3>1. \A i \in 1 .. n : w[i] \in Int
      BY <2>6
    <3> QED
      BY <1>10, <3>1 DEF Numbers
  <2>8. PICK b \in Int : b = t + 1
    BY <1>8
  <2>9. x \in 0 .. n /\ b \in 0 .. n /\ x <= b /\ b - x = k
    <3>1. x \in 0 .. n /\ x < n
      BY <1>5, <1>11
    <3>2. x <= t /\ t <= n - 1
      BY <1>8, <3>1
    <3> QED
      BY <2>1, <2>8, <3>1, <3>2
  <2>10. Chart!Total(w) = c * (b - x)
    <3>1. \A i \in 1 .. n : w[i] = IF x < i /\ i <= b THEN c ELSE 0
      BY <2>6, <2>8
    <3>2. n \in Nat
      OBVIOUS
    <3>3. PICK a \in 0 .. n : a = x
      BY <2>9
    <3>4. a <= b /\ b \in 0 .. n /\ \A i \in 1 .. n : w[i] = IF a < i /\ i <= b THEN c ELSE 0
      BY <2>9, <3>1, <3>3
    <3>5. Chart!Total(w) = c * (b - a)
      BY <2>7, <3>2, <3>4, SumOfInterval
    <3> QED
      BY <3>3, <3>5
  <2>11. c * k = scale * bar.volume
    BY <2>4
  <2> QED
    BY <1>0, <1>1, <1>6, <1>11, <2>7, <2>9, <2>10, <2>11
<1>12. CASE ~(bar.low < hi)
  <2>1. x = n
    BY <1>2, <1>5, <1>12
  <2>2. \A i \in 1 .. n : w[i] = 0
    BY <1>8, <1>9, <2>1
  <2>3. Numbers(w, n)
    <3>1. \A i \in 1 .. n : w[i] \in Int
      BY <2>2
    <3> QED
      BY <1>10, <3>1 DEF Numbers
  <2>4. Chart!Total(w) = 0
    BY <2>2, <2>3, SumOfZeros
  <2> QED
    BY <1>0, <1>1, <1>6, <1>12, <2>3, <2>4
<1> QED
  BY <1>0, <1>11, <1>12

\* The profile of bars spreads their volume.
LEMMA ProfileSpreads ==
  ASSUME NEW n, NEW bars, IsBars(bars, n), \A i \in 1 .. n : bars[i].low <= bars[i].high,
         Chart!VolumeProfile(bars) # <<>>
  PROVE  Chart!Total(Chart!VolumeProfile(bars)) = Chart!Scale * Chart!SpreadVolume(bars)
<1>1. PICK m \in Nat \ {0} : m = Buckets
  BY CockpitViewsAssumption DEF Chart!DailyChartAssumption
<1>2. n \in Nat \ {0} /\ DOMAIN bars = 1 .. n /\ \A i \in 1 .. n : bars[i] \in NumberBar
  BY DEF IsBars
<1>3. PICK lo \in Int : lo = Chart!Lowest(bars)
  BY LowestIs
<1>4. PICK hi \in Int : hi = Chart!Highest(bars)
  BY HighestIs
<1>5. \A j \in 1 .. n : lo <= bars[j].low /\ bars[j].high <= hi /\ bars[j].low \in Int /\ bars[j].high \in Int
  BY <1>2, <1>3, <1>4, HighestIs, LowestIs DEF NumberBar
<1>6. lo < hi
  <2>1. hi # lo
    BY <1>3, <1>4 DEF Chart!VolumeProfile
  <2>2. 1 \in 1 .. n
    BY <1>2
  <2>3. lo <= bars[1].low /\ bars[1].low <= bars[1].high /\ bars[1].high <= hi /\ bars[1].low \in Int /\ bars[1].high \in Int
    BY <1>5, <2>2
  <2> QED
    BY <2>1, <2>3
<1> DEFINE table == [i \in 1 .. m |-> [j \in 1 .. n |-> Chart!Share(bars[j], i - 1, lo, hi)]]
           Column(j) == [i \in 1 .. m |-> table[i][j]]
<1>7. ASSUME NEW j \in 1 .. n
      PROVE  Numbers(Column(j), m) /\ Chart!Total(Column(j)) = Chart!Scale * (IF bars[j].low < hi THEN bars[j].volume ELSE 0)
  <2>1. PICK bar \in NumberBar : bar = bars[j]
    BY <1>2
  <2>2. PICK w : w = Shares(bar, lo, hi)
    OBVIOUS
  <2>3. lo <= bar.low /\ bar.low <= bar.high /\ bar.high <= hi
    BY <1>5, <2>1
  <2>4. Numbers(w, Buckets) /\ Chart!Total(w) = Chart!Scale * (IF bar.low < hi THEN bar.volume ELSE 0)
    BY <1>6, <2>2, <2>3, SharesOfBar
  <2>5. Column(j) = w
    BY <1>1, <2>1, <2>2 DEF Shares
  <2> HIDE DEF Column
  <2> QED
    BY <1>1, <2>1, <2>4, <2>5
<1>8. ASSUME NEW i \in 1 .. m
      PROVE  Numbers(table[i], n)
  <2>1. \A j \in 1 .. n : table[i][j] \in Int
    <3> TAKE j \in 1 .. n
    <3>1. Column(j)[i] \in Int
      <4> HIDE DEF Column
      <4> QED
        BY <1>7 DEF Numbers
    <3>2. Column(j)[i] = table[i][j]
      OBVIOUS
    <3> QED
      BY <3>1, <3>2
  <2>2. table[i] = [j \in 1 .. n |-> table[i][j]]
    OBVIOUS
  <2> HIDE DEF table
  <2> QED
    BY <2>1, <2>2 DEF Numbers
<1>9. PICK sums : sums = [i \in 1 .. m |-> Chart!Total(table[i])]
  OBVIOUS
<1>10. Chart!VolumeProfile(bars) = sums
  <2>1. Chart!VolumeProfile(bars) = [i \in 1 .. Buckets |-> Chart!Total([j \in DOMAIN bars |-> Chart!Share(bars[j], i - 1, lo, hi)])]
    BY <1>3, <1>4 DEF Chart!VolumeProfile
  <2>2. \A i \in 1 .. m : table[i] = [j \in 1 .. n |-> Chart!Share(bars[j], i - 1, lo, hi)]
    OBVIOUS
  <2>3. PICK drawing : drawing = Chart!VolumeProfile(bars)
    OBVIOUS
  <2> HIDE DEF table
  <2>4. drawing = [i \in 1 .. m |-> Chart!Total([j \in 1 .. n |-> Chart!Share(bars[j], i - 1, lo, hi)])]
    BY <1>1, <1>2, <2>1, <2>3
  <2>5. \A i \in 1 .. m : drawing[i] = sums[i]
    <3> TAKE i \in 1 .. m
    <3>1. drawing[i] = Chart!Total([j \in 1 .. n |-> Chart!Share(bars[j], i - 1, lo, hi)])
      BY <2>4
    <3> QED
      BY <1>9, <2>2, <3>1
  <2>6. drawing = [i \in 1 .. m |-> drawing[i]] /\ sums = [i \in 1 .. m |-> sums[i]]
    BY <1>9, <2>4
  <2> QED
    BY <2>3, <2>5, <2>6
<1>11. PICK columns : columns = [j \in 1 .. n |-> Chart!Total(Column(j))]
  OBVIOUS
<1>12. Chart!Total(sums) = Chart!Total(columns)
  <2>1. PICK grid : grid = table
    OBVIOUS
  <2>2. columns = [j \in 1 .. n |-> Chart!Total([i \in 1 .. m |-> grid[i][j]])]
    <3>1. columns = [j \in 1 .. n |-> Chart!Total([i \in 1 .. m |-> table[i][j]])]
      BY <1>11
    <3> HIDE DEF table
    <3> QED
      BY <2>1, <3>1
  <2>3. ColumnsAdd(columns, grid, m, n)
    BY <2>2 DEF ColumnsAdd
  <2>4. RowsAdd(sums, grid, m)
    <3> HIDE DEF table
    <3> QED
      BY <1>9, <2>1 DEF RowsAdd
  <2>5. IsTable(grid, m, n)
    <3> HIDE DEF table
    <3> QED
      BY <1>8, <2>1 DEF IsTable
  <2> QED
    BY <1>2, <2>3, <2>4, <2>5, SumOfTable
<1>13. PICK spread : spread = [j \in 1 .. n |-> IF bars[j].low < hi THEN bars[j].volume ELSE 0]
  OBVIOUS
<1>14. Numbers(spread, n) /\ Chart!SpreadVolume(bars) = Chart!Total(spread)
  <2>1. \A j \in 1 .. n : bars[j].volume \in Int
    BY <1>2 DEF NumberBar
  <2>2. Numbers(spread, n)
    BY <1>13, <2>1 DEF Numbers
  <2>3. spread = [i \in DOMAIN bars |-> IF bars[i].low < Chart!Highest(bars) THEN bars[i].volume ELSE 0]
    BY <1>2, <1>4, <1>13
  <2> QED
    BY <2>2, <2>3 DEF Chart!SpreadVolume
<1>15. PICK scale \in Int : scale = Chart!Scale
  <2>1. Chart!Factorial[Buckets] \in Int
    BY <1>1, FactorialIs
  <2> QED
    BY <2>1 DEF Chart!Scale
<1>16. \A j \in 1 .. n : columns[j] = scale * spread[j]
  <2> HIDE DEF Column
  <2> QED
    BY <1>7, <1>11, <1>13, <1>15
<1>17. Numbers(columns, n)
  <2>1. \A j \in 1 .. n : columns[j] \in Int
    <3>1. \A j \in 1 .. n : spread[j] \in Int
      BY <1>14 DEF Numbers
    <3> QED
      BY <1>16, <3>1
  <2>2. columns = [j \in 1 .. n |-> columns[j]]
    BY <1>11
  <2> QED
    BY <2>1, <2>2 DEF Numbers
<1>18. Chart!Total(columns) = scale * Chart!Total(spread)
  BY <1>2, <1>14, <1>16, <1>17, SumOfMultiples
<1> QED
  BY <1>10, <1>12, <1>14, <1>15, <1>18

\* The profile of some of the bars of a key spreads their volume.
LEMMA DrawnProfileSpreads ==
  ASSUME NEW k \in Chart!Keys, NEW from \in DOMAIN Chart!Bars(k), NEW to \in DOMAIN Chart!Bars(k), from <= to,
         NEW bars, bars = SubSeq(Chart!Bars(k), from, to), Chart!VolumeProfile(bars) # <<>>
  PROVE  Chart!Total(Chart!VolumeProfile(bars)) = Chart!Scale * Chart!SpreadVolume(bars)
<1>1. PICK m, n : DrawnFor(Chart!Bars(k), m, Served(k.symbol, Chart!Endpoint(k.tf)), n)
  BY BarsDrawn
<1>2. PICK all : all = Chart!Bars(k)
  OBVIOUS
<1>3. IsBars(all, m) /\ \A i \in 1 .. m : all[i].low <= all[i].high
  BY <1>1, <1>2 DEF DrawnFor
<1>4. m \in Nat \ {0} /\ DOMAIN all = 1 .. m /\ from \in 1 .. m /\ to \in 1 .. m
  BY <1>2, <1>3 DEF IsBars
<1>5. PICK a \in 0 .. m : a = from - 1
  BY <1>4
<1>6. to \in 0 .. m /\ a < to /\ a + 1 = from
  BY <1>4, <1>5
<1>7. bars = Piece(all, a, to)
  <2>1. all \in Seq(NumberBar) /\ Len(all) = m
    <3>1. all = [i \in 1 .. m |-> all[i]] /\ \A i \in 1 .. m : all[i] \in NumberBar
      BY <1>3 DEF IsBars
    <3> QED
      BY <1>4, <3>1, FunIsSeq
  <2>2. bars = [i \in 1 .. to - from + 1 |-> all[from + i - 1]]
    BY <1>2, <1>4, <2>1
  <2>3. to - from + 1 = to - a /\ \A i \in Int : from + i - 1 = a + i
    BY <1>4, <1>5
  <2>4. \A i \in 1 .. to - from + 1 : i \in Int
    BY <1>4
  <2> QED
    BY <2>2, <2>3, <2>4 DEF Piece
<1>8. IsBars(bars, to - a) /\ \A i \in 1 .. to - a : bars[i] = all[a + i]
  BY <1>3, <1>6, <1>7, PieceIs
<1>9. \A i \in 1 .. to - a : bars[i].low <= bars[i].high
  <2>1. \A i \in 1 .. to - a : a + i \in 1 .. m
    BY <1>4, <1>5
  <2> QED
    BY <1>3, <1>8, <2>1
<1>10. PICK d : d = to - a
  OBVIOUS
<1>11. IsBars(bars, d) /\ \A i \in 1 .. d : bars[i].low <= bars[i].high
  BY <1>8, <1>9, <1>10
<1> QED
  BY <1>11, ProfileSpreads

-----------------------------------------------------------------------------
(* What the chart draws (DrawnDataSound).                                  *)

\* The profiles of bars there are.
Profiles ==
  {p \in [key : Chart!Keys, from : Nat, to : Nat] :
     p.from \in DOMAIN Chart!Bars(p.key) /\ p.to \in DOMAIN Chart!Bars(p.key) /\ p.from <= p.to}

ChartTypesInv == Chart!TypeOK /\ profile \in Profiles \union {None}

\* A key has bars.
LEMMA BarsRange ==
  ASSUME NEW k \in Chart!Keys
  PROVE  \E m \in Nat \ {0} : DOMAIN Chart!Bars(k) = 1 .. m /\ Len(Chart!Bars(k)) = m
<1>1. PICK m, n : DrawnFor(Chart!Bars(k), m, Served(k.symbol, Chart!Endpoint(k.tf)), n)
  BY BarsDrawn
<1> QED
  BY <1>1 DEF DrawnFor, IsBars

\* What is drawn as profile of the bars in sight are bars there are.
LEMMA RefreshTyped ==
  ASSUME ChartTypesInv, NEW on, Chart!RefreshVP(on)
  PROVE  profile' \in Profiles \union {None}
<1>1. data \in Chart!Keys \union {None}
  BY DEF ChartTypesInv, Chart!TypeOK, Chart!Drawing
<1>2. CASE data = None
  BY <1>2 DEF Chart!RefreshVP
<1>3. CASE data # None
  <2>1. data \in Chart!Keys
    BY <1>1, <1>3
  <2>2. PICK from, to \in DOMAIN Chart!Bars(data) : from <= to /\ profile' = Chart!DrawVP(data, from, to, on)
    BY <1>3 DEF Chart!RefreshVP
  <2>3. from \in Nat /\ to \in Nat
    BY <2>1, <2>2, BarsRange
  <2>4. CASE profile' = None
    BY <2>4
  <2>5. CASE profile' # None
    <3>1. profile' = [key |-> data, from |-> from, to |-> to]
      BY <2>2, <2>5 DEF Chart!DrawVP
    <3> QED
      BY <2>1, <2>2, <2>3, <3>1 DEF Profiles
  <2> QED
    BY <2>4, <2>5
<1> QED
  BY <1>2, <1>3

\* So is what a frame draws.
LEMMA WholeTyped ==
  ASSUME NEW k \in Chart!Keys, NEW on
  PROVE  Chart!WholeVP(k, on) \in Profiles \union {None}
<1>1. PICK p : p = Chart!WholeVP(k, on)
  OBVIOUS
<1>2. CASE p = None
  BY <1>1, <1>2
<1>3. CASE p # None
  <2>1. k # None
    BY <1>1, <1>3 DEF Chart!WholeVP, Chart!DrawVP
  <2>2. p = [key |-> k, from |-> 1, to |-> Len(Chart!Bars(k))]
    BY <1>1, <1>3, <2>1 DEF Chart!WholeVP, Chart!DrawVP
  <2>3. PICK m \in Nat \ {0} : DOMAIN Chart!Bars(k) = 1 .. m /\ Len(Chart!Bars(k)) = m
    BY BarsRange
  <2> QED
    BY <1>1, <2>2, <2>3 DEF Profiles
<1> QED
  BY <1>2, <1>3

\* What is drawn for a key, or for none.
LEMMA OverlaysTyped ==
  ASSUME NEW k \in Chart!Drawing, NEW on
  PROVE  Chart!OverlaysOf(k, on) \in [Chart!Indicators \ {"vp"} -> Chart!Drawing]
BY DEF Chart!OverlaysOf, Chart!Drawing

\* A new chart has its types.
LEMMA ChartTypesInit == Init => ChartTypesInv
<1> SUFFICES ASSUME Init
             PROVE  ChartTypesInv
  OBVIOUS
<1>1. key \in Chart!Keys /\ 1 \in 1 .. MaxAsked
  BY CockpitViewsAssumption DEF Init, Chart!Init, Chart!Keys, Chart!DailyChartAssumption
<1>2. frames \in Seq(Chart!Keys)
  BY DEF Init, Chart!Init
<1>3. overlays \in [Chart!Indicators \ {"vp"} -> Chart!Drawing]
  BY DEF Init, Chart!Init, Chart!Drawing
<1>4. chartAsks \subseteq [id : 1 .. MaxAsked, key : Chart!Keys]
  BY <1>1 DEF Init, Chart!Init
<1> QED
  BY <1>1, <1>2, <1>3, <1>4 DEF Init, Chart!Init, ChartTypesInv, Chart!TypeOK, Chart!Drawing

\* Every step of the chart keeps its types.
LEMMA ChartTypesNext == ChartTypesInv /\ [Chart!Next]_(Chart!dailyChartVars) => ChartTypesInv'
<1> SUFFICES ASSUME ChartTypesInv, [Chart!Next]_(Chart!dailyChartVars)
             PROVE  ChartTypesInv'
  OBVIOUS
<1>0. /\ key \in Chart!Keys /\ vis \subseteq Chart!Indicators /\ busy \in BOOLEAN /\ failed \in BOOLEAN
      /\ legend \in Chart!Drawing /\ candles \in Chart!Drawing /\ data \in Chart!Drawing
      /\ overlays \in [Chart!Indicators \ {"vp"} -> Chart!Drawing]
      /\ profile \in {None} \union [key : Chart!Keys, from : Nat, to : Nat]
      /\ frames \in Seq(Chart!Keys)
      /\ chartAsks \subseteq [id : 1 .. MaxAsked, key : Chart!Keys] /\ current \in 1 .. MaxAsked
      /\ profile \in Profiles \union {None} /\ None \in Chart!Drawing
  BY DEF ChartTypesInv, Chart!TypeOK, Chart!Drawing
<1>1. \A p \in Profiles : p \in [key : Chart!Keys, from : Nat, to : Nat]
  BY DEF Profiles
<1>2. ASSUME NEW k \in Chart!Keys, Chart!Select(k)
      PROVE  ChartTypesInv'
  <2>1. current + 1 \in 1 .. MaxAsked
    BY <1>0, <1>2, CockpitViewsAssumption DEF Chart!Select, Chart!DailyChartAssumption
  <2>2. chartAsks' \subseteq [id : 1 .. MaxAsked, key : Chart!Keys]
    BY <1>0, <1>2, <2>1 DEF Chart!Select
  <2>3. overlays' \in [Chart!Indicators \ {"vp"} -> Chart!Drawing]
    BY <1>0, <1>2, OverlaysTyped DEF Chart!Select
  <2> QED
    BY <1>0, <1>2, <2>1, <2>2, <2>3 DEF Chart!Select, ChartTypesInv, Chart!TypeOK
<1>3. ASSUME NEW r \in chartAsks, Chart!Answer(r)
      PROVE  ChartTypesInv'
  <2>1. r.key \in Chart!Keys /\ r.key \in Chart!Drawing
    BY <1>0 DEF Chart!Drawing
  <2>2. /\ data' \in Chart!Drawing /\ candles' \in Chart!Drawing /\ busy' \in BOOLEAN
        /\ overlays' \in [Chart!Indicators \ {"vp"} -> Chart!Drawing] /\ frames' \in Seq(Chart!Keys)
    <3>1. CASE Chart!Live(r)
      <4>1. Chart!OverlaysOf(r.key, vis) \in [Chart!Indicators \ {"vp"} -> Chart!Drawing]
        BY <2>1, OverlaysTyped
      <4>2. Append(frames, r.key) \in Seq(Chart!Keys)
        BY <1>0, <2>1
      <4> QED
        BY <1>3, <2>1, <3>1, <4>1, <4>2 DEF Chart!Answer
    <3>2. CASE ~Chart!Live(r)
      BY <1>0, <1>3, <3>2 DEF Chart!Answer
    <3> QED
      BY <3>1, <3>2
  <2>3. chartAsks' \subseteq [id : 1 .. MaxAsked, key : Chart!Keys]
    BY <1>0, <1>3 DEF Chart!Answer
  <2> QED
    BY <1>0, <1>3, <2>2, <2>3 DEF Chart!Answer, ChartTypesInv, Chart!TypeOK
<1>4. ASSUME NEW r \in chartAsks, Chart!Fail(r)
      PROVE  ChartTypesInv'
  <2>1. failed' \in BOOLEAN /\ busy' \in BOOLEAN
    BY <1>0, <1>4 DEF Chart!Fail
  <2>2. chartAsks' \subseteq [id : 1 .. MaxAsked, key : Chart!Keys]
    BY <1>0, <1>4 DEF Chart!Fail
  <2> QED
    BY <1>0, <1>4, <2>1, <2>2 DEF Chart!Fail, ChartTypesInv, Chart!TypeOK
<1>5. ASSUME NEW i \in Chart!Indicators, Chart!Toggle(i)
      PROVE  ChartTypesInv'
  <2>1. vis' \subseteq Chart!Indicators
    BY <1>0, <1>5 DEF Chart!Toggle
  <2>2. overlays' \in [Chart!Indicators \ {"vp"} -> Chart!Drawing]
    BY <1>0, <1>5, OverlaysTyped DEF Chart!Toggle
  <2>3. profile' \in Profiles \union {None}
    BY <1>5, RefreshTyped DEF Chart!Toggle
  <2> QED
    BY <1>0, <1>1, <1>5, <2>1, <2>2, <2>3 DEF Chart!Toggle, ChartTypesInv, Chart!TypeOK
<1>6. CASE Chart!Frame
  <2>1. Head(frames) \in Chart!Keys /\ frames' \in Seq(Chart!Keys)
    BY <1>0, <1>6 DEF Chart!Frame
  <2>2. profile' \in Profiles \union {None}
    BY <1>6, <2>1, WholeTyped DEF Chart!Frame
  <2> QED
    BY <1>0, <1>1, <1>6, <2>1, <2>2 DEF Chart!Frame, ChartTypesInv, Chart!TypeOK
<1>7. CASE Chart!Redraw
  <2>1. profile' \in Profiles \union {None}
    BY <1>7, RefreshTyped DEF Chart!Redraw
  <2> QED
    BY <1>0, <1>1, <1>7, <2>1 DEF Chart!Redraw, ChartTypesInv, Chart!TypeOK
<1>8. CASE Chart!Hover
  BY <1>0, <1>8 DEF Chart!Hover, ChartTypesInv, Chart!TypeOK
<1>9. CASE UNCHANGED Chart!dailyChartVars
  BY <1>9 DEF Chart!dailyChartVars, ChartTypesInv, Chart!TypeOK
<1> QED
  BY <1>2, <1>3, <1>4, <1>5, <1>6, <1>7, <1>8, <1>9 DEF Chart!Next

\* The chart's types hold in every state.
LEMMA ChartTyped == Spec => []ChartTypesInv
<1>1. ChartTypesInv /\ [Next]_vars => ChartTypesInv'
  BY ChartTypesNext, ChartStep
<1> QED
  BY <1>1, ChartTypesInit, PTL DEF Spec

\* The candles of a key are sound.
LEMMA CandlesSound ==
  ASSUME NEW k \in Chart!Keys, NEW raw, raw = Served(k.symbol, Chart!Endpoint(k.tf)),
         NEW bars, bars = Chart!Bars(k)
  PROVE  /\ \A i \in 2 .. Len(bars) : bars[i - 1].time < bars[i].time
         /\ Chart!Volume(bars) = Chart!Volume(raw)
         /\ Chart!Highest(bars) = Chart!Highest(raw) /\ Chart!Lowest(bars) = Chart!Lowest(raw)
         /\ bars[1].open = raw[1].open /\ bars[Len(bars)].close = raw[Len(raw)].close
<1>1. PICK m, n : DrawnFor(bars, m, raw, n)
  BY BarsDrawn
<1>2. m \in Nat \ {0} /\ Len(bars) = m /\ n \in Nat \ {0} /\ Len(raw) = n
  BY <1>1 DEF DrawnFor, IsBars
<1>3. bars[Len(bars)] = bars[m] /\ raw[Len(raw)] = raw[n]
  BY <1>2
<1>4. ASSUME NEW i \in 2 .. Len(bars)
      PROVE  bars[i - 1].time < bars[i].time
  <2>1. i - 1 \in 1 .. m /\ i \in 1 .. m /\ i - 1 < i
    BY <1>2
  <2> QED
    BY <1>1, <2>1 DEF DrawnFor
<1> QED
  BY <1>1, <1>3, <1>4 DEF DrawnFor

(***************************************************************************)
(* What the chart draws is sound, for every series the server answers: the *)
(* candles' times ascend, weeks and months lose no volume, no extreme, no  *)
(* first open and no last close of the bars they are made of, an average   *)
(* ends at the last bar, and the profile spreads the volume of the bars it *)
(* was drawn of, but of those that have no price but the highest.          *)
(***************************************************************************)
THEOREM WhatIsDrawnIsSound == Spec => []DrawnDataSound
<1>1. ASSUME ChartTypesInv
      PROVE  DrawnDataSound
  <2>1. ASSUME candles # None
        PROVE  LET raw  == Served(candles.symbol, Chart!Endpoint(candles.tf))
                   bars == Chart!Bars(candles)
               IN /\ \A i \in 2 .. Len(bars) : bars[i - 1].time < bars[i].time
                  /\ Chart!Volume(bars) = Chart!Volume(raw)
                  /\ Chart!Highest(bars) = Chart!Highest(raw) /\ Chart!Lowest(bars) = Chart!Lowest(raw)
                  /\ bars[1].open = raw[1].open /\ bars[Len(bars)].close = raw[Len(raw)].close
    <3>1. candles \in Chart!Keys
      BY <1>1, <2>1 DEF ChartTypesInv, Chart!TypeOK, Chart!Drawing
    <3> QED
      BY <3>1, CandlesSound
  <2>2. ASSUME NEW line \in {"fast", "slow"}, overlays[line] # None
        PROVE  LET times == Chart!LineTimes(overlays[line], line)
               IN times = <<>> \/ times[Len(times)] = Chart!Bars(overlays[line])[Len(Chart!Bars(overlays[line]))].time
    <3>1. overlays[line] \in Chart!Keys
      BY <1>1, <2>2 DEF ChartTypesInv, Chart!TypeOK, Chart!Drawing, Chart!Indicators
    <3> QED
      BY <3>1, LineEnds
  <2>3. ASSUME profile # None
        PROVE  LET bars == SubSeq(Chart!Bars(profile.key), profile.from, profile.to)
                   drawing == Chart!VolumeProfile(bars)
               IN drawing # <<>> => Chart!Total(drawing) = Chart!Scale * Chart!SpreadVolume(bars)
    <3>1. profile \in Profiles
      BY <1>1, <2>3 DEF ChartTypesInv
    <3>2. /\ profile.key \in Chart!Keys /\ profile.from \in DOMAIN Chart!Bars(profile.key)
          /\ profile.to \in DOMAIN Chart!Bars(profile.key) /\ profile.from <= profile.to
      BY <3>1 DEF Profiles
    <3> QED
      BY <3>2, DrawnProfileSpreads
  <2> QED
    BY <2>1, <2>2, <2>3 DEF DrawnDataSound, Chart!DrawnDataSound
<1> QED
  BY <1>1, ChartTyped, PTL

-----------------------------------------------------------------------------
(* The types of the views (TypeOK).                                        *)

RegimeTypesInv == RegimesInv /\ Regime!TypeOK

\* Every step of the regimes keeps their types.
LEMMA RegimeTypesNext == RegimeTypesInv /\ [Regime!Next]_(Regime!signalRegimesVars) => RegimeTypesInv'
<1> SUFFICES ASSUME RegimeTypesInv, [Regime!Next]_(Regime!signalRegimesVars)
             PROVE  RegimeTypesInv'
  OBVIOUS
<1>0. RegimesInv'
  BY RegimesNext DEF RegimeTypesInv
<1>1. /\ connected \in BOOLEAN /\ paused \in BOOLEAN
      /\ aged \subseteq RegimeKinds /\ missed \subseteq Regime!KindSymbols
  BY DEF RegimeTypesInv, Regime!TypeOK
<1> SUFFICES /\ connected' \in BOOLEAN /\ paused' \in BOOLEAN
             /\ aged' \subseteq RegimeKinds /\ missed' \subseteq Regime!KindSymbols
  BY <1>0 DEF RegimeTypesInv, Regime!TypeOK, RegimesInv, Regime!KindSymbols
<1>2. ASSUME NEW k \in RegimeKinds, NEW r, NEW late, Regime!Receive(k, r, late)
      PROVE  aged' \subseteq RegimeKinds
  BY <1>1, <1>2 DEF Regime!Receive
<1>3. ASSUME NEW k \in RegimeKinds, Regime!Signal(k) \/ \E r \in Regimes : Regime!Replay(k, r)
      PROVE  /\ connected' \in BOOLEAN /\ paused' \in BOOLEAN
             /\ aged' \subseteq RegimeKinds /\ missed' \subseteq Regime!KindSymbols
  <2>1. aged' \subseteq RegimeKinds
    BY <1>2, <1>3 DEF Regime!Signal, Regime!Replay
  <2>2. UNCHANGED <<connected, paused, missed>>
    BY <1>3 DEF Regime!Signal, Regime!Replay
  <2> QED
    BY <1>1, <2>1, <2>2
<1>4. ASSUME NEW s \in Regime!KindSymbols, NEW r \in Regimes, Regime!RegimeUpdate(s, r)
      PROVE  /\ connected' \in BOOLEAN /\ paused' \in BOOLEAN
             /\ aged' \subseteq RegimeKinds /\ missed' \subseteq Regime!KindSymbols
  <2>1. UNCHANGED <<connected, paused>>
    BY <1>4 DEF Regime!RegimeUpdate
  <2>2. aged' \subseteq aged /\ missed' \subseteq missed \union {s}
    BY <1>4 DEF Regime!RegimeUpdate
  <2> QED
    BY <1>1, <2>1, <2>2
<1>5. CASE Regime!Connect \/ Regime!Disconnect
  BY <1>1, <1>5 DEF Regime!Connect, Regime!Disconnect
<1>6. CASE Regime!Reload \/ Regime!Pause
  BY <1>1, <1>6 DEF Regime!Reload, Regime!Pause
<1>7. CASE Regime!Resume
  BY <1>1, <1>7 DEF Regime!Resume
<1>8. CASE Regime!Clear \/ UNCHANGED Regime!signalRegimesVars
  BY <1>1, <1>8 DEF Regime!Clear, Regime!signalRegimesVars
<1> QED
  BY <1>3, <1>4, <1>5, <1>6, <1>7, <1>8 DEF Regime!Next

\* The list of expiries is asked for first.
ModalTypesInv ==
  /\ symbol \in Symbols \union {None} /\ tab \in {"details", "chart", "oc"}
  /\ known \in BOOLEAN /\ rowAsked \in BOOLEAN /\ loading \in BOOLEAN /\ error \in BOOLEAN /\ crossed \in BOOLEAN
  /\ fetchedRow \in {None, "metrics", "bare"}
  /\ selected \in Modal!AllExpiries \union {None} /\ chain \in Modal!AllExpiries \union {None}
  /\ asks \subseteq [id : 1 .. MaxAsks, expiry : Modal!AllExpiries \union {None}] /\ sent \in 0 .. MaxAsks
  /\ \A r \in asks : r.expiry = None => sent = 1

\* Nothing is asked for.
LEMMA ModalTypesInit == Modal!Init => ModalTypesInv
<1> SUFFICES ASSUME Modal!Init
             PROVE  ModalTypesInv
  OBVIOUS
<1>1. sent = 0 /\ 0 \in 0 .. MaxAsks
  BY CockpitViewsAssumption DEF Modal!Init, Modal!SymbolModalAssumption
<1>2. \A r \in asks : FALSE
  BY DEF Modal!Init
<1>3. asks \subseteq [id : 1 .. MaxAsks, expiry : Modal!AllExpiries \union {None}]
  BY <1>2
<1> QED
  BY <1>1, <1>2, <1>3 DEF Modal!Init, ModalTypesInv

\* The request of an expiry, the older ones kept or, for the list's answer, gone.
LEMMA AskTyped ==
  ASSUME ModalTypesInv, NEW e \in Modal!AllExpiries, e # None, sent < MaxAsks,
         NEW kept \in SUBSET asks, \A r \in kept : r.expiry # None,
         sent' = sent + 1, asks' = kept \union {[id |-> sent', expiry |-> e]}
  PROVE  /\ asks' \subseteq [id : 1 .. MaxAsks, expiry : Modal!AllExpiries \union {None}]
         /\ sent' \in 0 .. MaxAsks
         /\ \A r \in asks' : r.expiry = None => sent' = 1
<1>1. sent \in 0 .. MaxAsks /\ MaxAsks \in Nat
  BY CockpitViewsAssumption DEF ModalTypesInv, Modal!SymbolModalAssumption
<1>2. PICK q : q = [id |-> sent', expiry |-> e]
  OBVIOUS
<1>3. q \in [id : 1 .. MaxAsks, expiry : Modal!AllExpiries \union {None}] /\ q.expiry # None
  BY <1>1, <1>2
<1> QED
  BY <1>1, <1>2, <1>3 DEF ModalTypesInv

\* Every step of the modal keeps its types.
LEMMA ModalTypesNext ==
  ASSUME ModalInv, ModalTypesInv, [Modal!Next]_(Modal!symbolModalVars)
  PROVE  ModalTypesInv'
<1> USE DEF Modal!panelVars, Modal!rowVars
<1>0. MaxAsks \in Nat /\ MaxAsks > 1
  BY CockpitViewsAssumption DEF Modal!SymbolModalAssumption
<1>1. ASSUME NEW s \in Symbols
      PROVE  \A e \in Modal!Range(Expiries(s)) : e \in Modal!AllExpiries /\ e # None
  BY CockpitViewsAssumption DEF Modal!AllExpiries, Modal!SymbolModalAssumption
<1>2. ASSUME NEW s \in Symbols, NEW t \in {"details", "chart", "oc"}, Modal!Open(s, t)
      PROVE  ModalTypesInv'
  <2>1. rowAsked' \in BOOLEAN /\ known' \in BOOLEAN
    BY <1>2 DEF Modal!Open
  <2> QED
    BY <1>0, <1>2, <2>1 DEF Modal!Open, ModalTypesInv
<1>3. ASSUME NEW t \in {"details", "chart", "oc"}, Modal!SetTab(t)
      PROVE  ModalTypesInv'
  BY <1>3 DEF Modal!SetTab, ModalTypesInv
<1>4. CASE Modal!Close
  <2>1. sent' = 0 /\ 0 \in 0 .. MaxAsks
    BY <1>0, <1>4 DEF Modal!Close
  <2>2. \A r \in asks' : FALSE
    BY <1>4 DEF Modal!Close
  <2>3. asks' \subseteq [id : 1 .. MaxAsks, expiry : Modal!AllExpiries \union {None}]
    BY <2>2
  <2> QED
    BY <1>4, <2>1, <2>2, <2>3 DEF Modal!Close, ModalTypesInv
<1>5. CASE Modal!RowChanges \/ Modal!RowAnswer \/ UNCHANGED Modal!symbolModalVars
  <2>1. known' \in BOOLEAN /\ rowAsked' \in BOOLEAN /\ fetchedRow' \in {None, "metrics", "bare"}
    BY <1>5 DEF Modal!RowChanges, Modal!RowAnswer, Modal!symbolModalVars, ModalTypesInv
  <2>2. UNCHANGED <<symbol, tab, selected, chain, loading, error, asks, sent, crossed>>
    BY <1>5 DEF Modal!RowChanges, Modal!RowAnswer, Modal!symbolModalVars
  <2> QED
    BY <2>1, <2>2 DEF ModalTypesInv
<1>6. ASSUME NEW e \in Modal!AllExpiries, Modal!SelectExpiry(e)
      PROVE  ModalTypesInv'
  <2>1. /\ symbol # None /\ e \in Modal!Range(Expiries(symbol)) /\ selected # None /\ sent < MaxAsks
        /\ selected' = e /\ sent' = sent + 1 /\ asks' = asks \union {[id |-> sent', expiry |-> e]}
        /\ loading' = TRUE /\ error' = FALSE /\ crossed' = FALSE
        /\ UNCHANGED <<symbol, tab, chain, known, fetchedRow, rowAsked>>
    BY <1>6 DEF Modal!SelectExpiry, Modal!Ask
  <2>2. e # None /\ \A r \in asks : r.expiry # None
    BY <1>1, <2>1 DEF ModalInv, SelectedInv
  <2>3. /\ asks' \subseteq [id : 1 .. MaxAsks, expiry : Modal!AllExpiries \union {None}]
        /\ sent' \in 0 .. MaxAsks
        /\ \A r \in asks' : r.expiry = None => sent' = 1
    BY <2>1, <2>2, AskTyped
  <2> QED
    BY <2>1, <2>3 DEF ModalTypesInv
<1>7. ASSUME NEW r \in asks, Modal!ExpiriesAnswer(r)
      PROVE  ModalTypesInv'
  <2>1. symbol \in Symbols /\ sent = 1 /\ UNCHANGED <<symbol, tab, chain, known, fetchedRow, rowAsked>>
    BY <1>7 DEF Modal!ExpiriesAnswer, ModalInv, SelectedInv, ModalTypesInv
  <2>2. CASE Expiries(symbol) = <<>>
    BY <1>7, <2>1, <2>2 DEF Modal!ExpiriesAnswer, ModalTypesInv
  <2>3. CASE Expiries(symbol) # <<>>
    <3>1. PICK e : e = Head(Expiries(symbol))
      OBVIOUS
    <3>2. Expiries(symbol) \in Seq(Modal!Range(Expiries(symbol)))
      BY <2>1, CockpitViewsAssumption DEF Modal!SymbolModalAssumption
    <3>3. e \in Modal!Range(Expiries(symbol))
      BY <2>3, <3>1, <3>2 DEF Modal!Range
    <3>4. e \in Modal!AllExpiries /\ e # None
      BY <1>1, <2>1, <3>3
    <3>5. /\ selected' = e /\ sent' = sent + 1
          /\ asks' = (asks \ {r}) \union {[id |-> sent', expiry |-> e]}
          /\ loading' = TRUE /\ error' = FALSE /\ crossed' = FALSE
      BY <1>7, <2>3, <3>1 DEF Modal!ExpiriesAnswer
    <3>6. asks \ {r} = {}
      BY <1>7 DEF Modal!ExpiriesAnswer, ModalInv, AsksInv
    <3>7. /\ asks' \subseteq [id : 1 .. MaxAsks, expiry : Modal!AllExpiries \union {None}]
          /\ sent' \in 0 .. MaxAsks
          /\ \A q \in asks' : q.expiry = None => sent' = 1
      BY <1>0, <2>1, <3>4, <3>5, <3>6, AskTyped
    <3> QED
      BY <2>1, <3>4, <3>5, <3>7 DEF ModalTypesInv
  <2> QED
    BY <2>2, <2>3
<1>8. ASSUME NEW r \in asks, Modal!ChainAnswer(r) \/ Modal!AskFails(r)
      PROVE  ModalTypesInv'
  <2>1. r.expiry \in Modal!AllExpiries \union {None}
    BY DEF ModalTypesInv
  <2>2. crossed' \in BOOLEAN /\ loading' \in BOOLEAN /\ error' \in BOOLEAN
    BY <1>8 DEF Modal!ChainAnswer, Modal!AskFails, ModalTypesInv
  <2>3. /\ chain' \in Modal!AllExpiries \union {None} /\ asks' = asks \ {r}
        /\ UNCHANGED <<symbol, tab, selected, sent, known, fetchedRow, rowAsked>>
    BY <1>8, <2>1 DEF Modal!ChainAnswer, Modal!AskFails, ModalTypesInv
  <2> QED
    BY <2>2, <2>3 DEF ModalTypesInv
<1> QED
  BY <1>2, <1>3, <1>4, <1>5, <1>6, <1>7, <1>8 DEF Modal!Next

\* What the accounts panel loads and does is numbered as it begins.
AccountsTypesInv == AccountsInv /\ Accounts!TypeOK

\* The first load begins.
LEMMA AccountsTypesInit == Accounts!Init => AccountsTypesInv
<1> SUFFICES ASSUME Accounts!Init
             PROVE  AccountsTypesInv
  OBVIOUS
<1>1. MaxLoads \in Nat \ {0} /\ MaxOps \in Nat
  BY CockpitViewsAssumption DEF Accounts!AccountsAssumption
<1>2. loads \subseteq [id : 1 .. MaxLoads, parts : [Accounts!Parts -> (0 .. accountData) \union {None}]]
  BY <1>1 DEF Accounts!Init, Accounts!NewLoad
<1>3. AccountsInv
  BY AccountsInit
<1>4. /\ 0 \in Nat /\ [p \in Accounts!Parts |-> 0] \in [Accounts!Parts -> 0 .. 0] /\ 0 \in 0 .. 0
      /\ 1 \in 0 .. MaxLoads /\ 0 \in 0 .. MaxOps /\ 0 \in 0 .. 1
  BY <1>1
<1>5. ops \subseteq [id : 1 .. MaxOps, kind : Accounts!Kinds, step : {"sent", "made"}]
  BY DEF Accounts!Init
<1>6. message \in Accounts!Messages /\ accountsLoading \in BOOLEAN /\ stuck \in BOOLEAN
  BY DEF Accounts!Init, Accounts!Messages
<1>7. accountData \in Nat /\ shown \in [Accounts!Parts -> 0 .. accountData] /\ own \in 0 .. accountData
  BY <1>4 DEF Accounts!Init
<1>8. begun \in 0 .. MaxLoads /\ started \in 0 .. MaxOps /\ showing \in 0 .. begun
  BY <1>4 DEF Accounts!Init
<1> QED
  BY <1>2, <1>3, <1>5, <1>6, <1>7, <1>8 DEF AccountsTypesInv, Accounts!TypeOK

\* A load that begins has its type.
LEMMA BeginTyped ==
  ASSUME AccountsTypesInv, Accounts!BeginLoad
  PROVE  /\ loads' \subseteq [id : 1 .. MaxLoads, parts : [Accounts!Parts -> (0 .. accountData) \union {None}]]
         /\ begun' \in 0 .. MaxLoads /\ showing \in 0 .. begun' /\ accountsLoading' \in BOOLEAN
<1>1. MaxLoads \in Nat \ {0} /\ begun \in 0 .. MaxLoads /\ showing \in 0 .. begun
  BY CockpitViewsAssumption DEF Accounts!AccountsAssumption, AccountsTypesInv, Accounts!TypeOK
<1>2. begun' = begun + 1 /\ begun' \in 1 .. MaxLoads
  BY <1>1 DEF Accounts!BeginLoad
<1>3. Accounts!NewLoad(begun') \in [id : 1 .. MaxLoads, parts : [Accounts!Parts -> (0 .. accountData) \union {None}]]
  BY <1>2 DEF Accounts!NewLoad
<1> QED
  BY <1>1, <1>2, <1>3 DEF Accounts!BeginLoad, AccountsTypesInv, Accounts!TypeOK

\* Every step of the panel keeps its types.
LEMMA AccountsTypesNext ==
  AccountsTypesInv /\ [Accounts!Next]_(Accounts!accountsVars) => AccountsTypesInv'
<1> SUFFICES ASSUME AccountsTypesInv, [Accounts!Next]_(Accounts!accountsVars)
             PROVE  AccountsTypesInv'
  OBVIOUS
<1>0. AccountsInv'
  BY AccountsNext DEF AccountsTypesInv
<1> DEFINE LoadSet(d) == [id : 1 .. MaxLoads, parts : [Accounts!Parts -> (0 .. d) \union {None}]]
           OpSet == [id : 1 .. MaxOps, kind : Accounts!Kinds, step : {"sent", "made"}]
<1>1. /\ accountData \in Nat /\ shown \in [Accounts!Parts -> 0 .. accountData] /\ own \in 0 .. accountData
      /\ message \in Accounts!Messages /\ accountsLoading \in BOOLEAN /\ stuck \in BOOLEAN
      /\ loads \subseteq LoadSet(accountData) /\ ops \subseteq OpSet
      /\ begun \in 0 .. MaxLoads /\ started \in 0 .. MaxOps /\ showing \in 0 .. begun
      /\ MaxOps \in Nat
  BY CockpitViewsAssumption DEF AccountsTypesInv, Accounts!TypeOK, Accounts!AccountsAssumption
<1> SUFFICES Accounts!TypeOK'
  BY <1>0 DEF AccountsTypesInv
<1>2. CASE Accounts!Refresh \/ Accounts!LoginMessage
  <2>1. Accounts!BeginLoad /\ UNCHANGED <<accountData, shown, ops, started, own, showing, stuck>>
    BY <1>2 DEF Accounts!Refresh, Accounts!LoginMessage
  <2>2. message' \in Accounts!Messages
    BY <1>1, <1>2 DEF Accounts!Refresh, Accounts!LoginMessage, Accounts!Messages
  <2> QED
    BY <1>1, <2>1, <2>2, BeginTyped DEF Accounts!TypeOK
<1>3. ASSUME NEW l \in loads, Accounts!LoadAnswer(l)
      PROVE  Accounts!TypeOK'
  <2>1. l.parts \in [Accounts!Parts -> (0 .. accountData) \union {None}]
    BY <1>1
  <2>2. shown' \in [Accounts!Parts -> 0 .. accountData]
    BY <1>3, <2>1 DEF Accounts!LoadAnswer
  <2>3. l.id \in 0 .. begun
    <3>1. l.id \in Nat /\ l.id <= begun
      BY DEF AccountsTypesInv, AccountsInv, NewestInv
    <3> QED
      BY <1>1, <3>1
  <2> QED
    BY <1>1, <1>3, <2>2, <2>3 DEF Accounts!LoadAnswer, Accounts!TypeOK, Accounts!Messages
<1>4. ASSUME NEW l \in loads, Accounts!LoadFails(l)
      PROVE  Accounts!TypeOK'
  BY <1>1, <1>4 DEF Accounts!LoadFails, Accounts!TypeOK, Accounts!Messages
<1>5. ASSUME NEW l \in loads, NEW p \in Accounts!Parts, Accounts!ServePart(l, p)
      PROVE  Accounts!TypeOK'
  <2>1. [l EXCEPT !.parts[p] = accountData] \in LoadSet(accountData)
    BY <1>1
  <2>2. loads' \subseteq LoadSet(accountData)
    BY <1>1, <1>5, <2>1 DEF Accounts!ServePart
  <2> QED
    BY <1>1, <1>5, <2>2 DEF Accounts!ServePart, Accounts!TypeOK
<1>6. ASSUME NEW kind \in Accounts!Kinds, Accounts!Start(kind)
      PROVE  Accounts!TypeOK'
  <2>1. started + 1 \in 1 .. MaxOps /\ started' = started + 1
    BY <1>1, <1>6 DEF Accounts!Start
  <2>2. ops' \subseteq OpSet
    BY <1>1, <1>6, <2>1 DEF Accounts!Start
  <2>3. accountsLoading' \in BOOLEAN
    BY <1>1, <1>6 DEF Accounts!Start
  <2> QED
    BY <1>1, <1>6, <2>1, <2>2, <2>3 DEF Accounts!Start, Accounts!TypeOK
<1>7. ASSUME NEW o \in ops, Accounts!Make(o)
      PROVE  Accounts!TypeOK'
  <2>1. accountData' = accountData + 1 /\ accountData' \in Nat
    BY <1>1, <1>7 DEF Accounts!Make
  <2>2. 0 .. accountData \subseteq 0 .. accountData'
    BY <1>1, <2>1
  <2>3. loads \subseteq LoadSet(accountData')
    <3>1. LoadSet(accountData) \subseteq LoadSet(accountData')
      BY <2>2
    <3> QED
      BY <1>1, <3>1
  <2>4. ops' \subseteq OpSet
    BY <1>1, <1>7 DEF Accounts!Make
  <2>5. shown \in [Accounts!Parts -> 0 .. accountData'] /\ own \in 0 .. accountData'
    BY <1>1, <2>2
  <2> QED
    BY <1>1, <1>7, <2>1, <2>3, <2>4, <2>5 DEF Accounts!Make, Accounts!TypeOK
<1>8. ASSUME NEW o \in ops, Accounts!Done(o)
      PROVE  Accounts!TypeOK'
  <2>1. Accounts!BeginLoad /\ UNCHANGED <<accountData, shown, started, showing, stuck>>
    BY <1>8 DEF Accounts!Done, Accounts!LoadAfter
  <2>2. message' \in Accounts!Messages /\ own' = accountData /\ ops' = ops \ {o}
    BY <1>8 DEF Accounts!Done, Accounts!Messages
  <2> QED
    BY <1>1, <2>1, <2>2, BeginTyped DEF Accounts!TypeOK
<1>9. ASSUME NEW o \in ops, Accounts!Refused(o)
      PROVE  Accounts!TypeOK'
  <2>1. ops' = ops \ {o} /\ message' \in Accounts!Messages /\ UNCHANGED <<accountData, shown, started, own, showing, stuck>>
    BY <1>9 DEF Accounts!Refused, Accounts!Messages
  <2>2. Accounts!BeginLoad \/ UNCHANGED <<begun, loads, accountsLoading>>
    BY <1>9 DEF Accounts!Refused
  <2>3. CASE Accounts!BeginLoad
    BY <1>1, <2>1, <2>3, BeginTyped DEF Accounts!TypeOK
  <2>4. CASE UNCHANGED <<begun, loads, accountsLoading>>
    BY <1>1, <2>1, <2>4 DEF Accounts!TypeOK
  <2> QED
    BY <2>2, <2>3, <2>4
<1>10. ASSUME NEW o \in ops, Accounts!Rejected(o)
       PROVE  Accounts!TypeOK'
  <2>1. stuck' \in BOOLEAN
    BY <1>1, <1>10 DEF Accounts!Rejected
  <2> QED
    BY <1>1, <1>10, <2>1 DEF Accounts!Rejected, Accounts!TypeOK
<1>11. CASE UNCHANGED Accounts!accountsVars
  BY <1>1, <1>11 DEF Accounts!accountsVars, Accounts!TypeOK
<1> QED
  BY <1>2, <1>3, <1>4, <1>5, <1>6, <1>7, <1>8, <1>9, <1>10, <1>11 DEF Accounts!Next

\* The regimes, the modal and the accounts have their types always.
LEMMA PanelsTyped == Spec => [](Regime!TypeOK /\ Modal!TypeOK /\ Accounts!TypeOK)
<1> DEFINE I == RegimeTypesInv /\ ModalInv /\ ModalTypesInv /\ AccountsTypesInv
<1>1. Init => I
  <2>1. Regime!Init => Regime!TypeOK
    <3>1. /\ Regime!NoRows \in [RegimeKinds -> Regimes \union {None}]
          /\ [s \in Regime!KindSymbols |-> None] \in [Regime!KindSymbols -> Regimes \union {None}]
      BY DEF Regime!NoRows
    <3> QED
      BY <3>1 DEF Regime!Init, Regime!TypeOK
  <2> QED
    BY <2>1, RegimesInit, ModalInit, ModalTypesInit, AccountsTypesInit DEF Init, RegimeTypesInv
<1>2. I /\ [Next]_vars => I'
  BY RegimeTypesNext, RegimeStep, ModalNext, ModalTypesNext, ModalStep, AccountsTypesNext, AccountsStep
<1>3. ModalTypesInv => Modal!TypeOK
  <2>1. ASSUME ModalTypesInv PROVE {known, rowAsked, loading, error, crossed} \subseteq BOOLEAN
    BY <2>1 DEF ModalTypesInv
  <2> QED
    BY <2>1 DEF ModalTypesInv, Modal!TypeOK
<1>4. I => Regime!TypeOK /\ Modal!TypeOK /\ Accounts!TypeOK
  BY <1>3 DEF RegimeTypesInv, AccountsTypesInv
<1> QED
  BY <1>1, <1>2, <1>4, PTL DEF Spec

\* What is asked for is among what is known to be asked for; the timer is on or off.
FetchTypesInv ==
  /\ timer \in BOOLEAN /\ batch \subseteq fetching /\ metricsAsks \subseteq SUBSET fetching
  /\ metrics \in [Metrics!AllSymbols -> Metrics!Range(MetricsOf) \union {None}]
  /\ sort \in [key : SortKeys \union {None}, asc : BOOLEAN]
  /\ refused \subseteq Metrics!AllSymbols /\ restored \subseteq Metrics!AllSymbols

\* Nothing is asked for.
LEMMA FetchTypesInit == Metrics!Init => FetchTypesInv
<1> SUFFICES ASSUME Metrics!Init
             PROVE  FetchTypesInv
  OBVIOUS
<1>1. metrics \in [Metrics!AllSymbols -> Metrics!Range(MetricsOf) \union {None}]
  BY DEF Metrics!Init, Metrics!NoMetrics
<1>2. sort \in [key : SortKeys \union {None}, asc : BOOLEAN]
  BY DEF Metrics!Init
<1> QED
  BY <1>1, <1>2 DEF Metrics!Init, FetchTypesInv

\* Every step keeps them.
LEMMA FetchTypesNext ==
  ASSUME MetricsInv, FetchTypesInv, [Metrics!Next]_(Metrics!signalMetricsVars)
  PROVE  FetchTypesInv'
<1> USE DEF Metrics!fetchVars
<1>0. fetching \subseteq Metrics!AllSymbols
  BY DEF MetricsInv
<1>1. ASSUME NEW k \in MetricKinds, Metrics!Push(k)
      PROVE  FetchTypesInv'
  <2>1. timer' \in BOOLEAN
    BY <1>1 DEF Metrics!Push, Metrics!QueueMetrics, FetchTypesInv
  <2>2. fetching \subseteq fetching' /\ batch' \subseteq fetching' /\ restored' \subseteq restored
        /\ UNCHANGED <<metricsAsks, metrics, refused, sort>>
    BY <1>1 DEF Metrics!Push, Metrics!QueueMetrics, FetchTypesInv
  <2> QED
    BY <2>1, <2>2 DEF FetchTypesInv
<1>2. CASE Metrics!Clear
  BY <1>2 DEF Metrics!Clear, FetchTypesInv
<1>3. CASE Metrics!Reload
  <2>1. \A s \in restored' : s \in Metrics!AllSymbols
    <3>1. \A k \in Metrics!Range(listed) : k.symbol \in Metrics!AllSymbols
      BY CockpitViewsAssumption DEF MetricsInv, Metrics!SignalMetricsAssumption, Metrics!Range
    <3> QED
      BY <1>3, <3>1 DEF Metrics!Reload
  <2>2. metrics' \in [Metrics!AllSymbols -> Metrics!Range(MetricsOf) \union {None}]
    BY <1>3 DEF Metrics!Reload, Metrics!NoMetrics
  <2>3. sort' \in [key : SortKeys \union {None}, asc : BOOLEAN]
    BY <1>3 DEF Metrics!Reload
  <2>4. timer' = FALSE /\ batch' = {} /\ metricsAsks' = {} /\ refused' = {}
    BY <1>3 DEF Metrics!Reload
  <2> QED
    BY <2>1, <2>2, <2>3, <2>4 DEF FetchTypesInv
<1>4. CASE Metrics!FlushMetricsBatch
  <2>1. /\ timer' = FALSE /\ batch' = {} /\ metricsAsks' = metricsAsks \union {batch}
        /\ UNCHANGED <<fetching, metrics, refused, sort, restored>>
    BY <1>4 DEF Metrics!FlushMetricsBatch
  <2>2. metricsAsks' \subseteq SUBSET fetching'
    BY <2>1 DEF FetchTypesInv
  <2>3. timer' \in BOOLEAN /\ batch' \subseteq fetching'
    BY <2>1
  <2> QED
    BY <2>1, <2>2, <2>3 DEF FetchTypesInv
<1>5. CASE Metrics!ClearSort
  <2>1. sort' \in [key : SortKeys \union {None}, asc : BOOLEAN]
    BY <1>5 DEF Metrics!ClearSort
  <2> QED
    BY <1>5, <2>1 DEF Metrics!ClearSort, FetchTypesInv
<1>6. ASSUME NEW syms \in metricsAsks, Metrics!Answer(syms)
      PROVE  FetchTypesInv'
  <2>1. /\ metricsAsks' = metricsAsks \ {syms}
        /\ UNCHANGED <<listed, fetching, batch, timer, filter, sort, restored>>
        /\ refused' = refused \union {s \in syms : MetricsOf[s] = None}
    BY <1>6 DEF Metrics!Answer
  <2>2. metrics' = [s \in Metrics!AllSymbols |->
                      IF s \in syms THEN (IF MetricsOf[s] # None THEN MetricsOf[s] ELSE metrics[s]) ELSE metrics[s]]
    BY <1>6 DEF Metrics!Answer, Metrics!OrElse
  <2>3. \A s \in Metrics!AllSymbols : MetricsOf[s] \in Metrics!Range(MetricsOf)
    BY DEF Metrics!AllSymbols, Metrics!Range
  <2>4. \A s \in Metrics!AllSymbols : metrics[s] \in Metrics!Range(MetricsOf) \union {None}
    BY DEF FetchTypesInv
  <2>5. metrics' \in [Metrics!AllSymbols -> Metrics!Range(MetricsOf) \union {None}]
    BY <2>2, <2>3, <2>4
  <2>6. refused' \subseteq Metrics!AllSymbols
    BY <1>0, <2>1 DEF FetchTypesInv
  <2> QED
    BY <2>1, <2>5, <2>6 DEF FetchTypesInv
<1>7. ASSUME NEW syms \in metricsAsks, Metrics!Fail(syms)
      PROVE  FetchTypesInv'
  BY <1>0, <1>7 DEF Metrics!Fail, FetchTypesInv
<1>8. ASSUME NEW f \in Filters, Metrics!SetFilter(f)
      PROVE  FetchTypesInv'
  BY <1>8 DEF Metrics!SetFilter, FetchTypesInv
<1>9. ASSUME NEW c \in SortKeys, Metrics!HandleSort(c)
      PROVE  FetchTypesInv'
  <2>1. sort.asc \in BOOLEAN
    BY DEF FetchTypesInv
  <2>2. PICK up \in BOOLEAN : up = IF sort.key = c THEN ~sort.asc ELSE c = "timestamp"
    BY <2>1
  <2>3. sort' = [key |-> c, asc |-> up]
    BY <1>9, <2>2 DEF Metrics!HandleSort
  <2>4. sort' \in [key : SortKeys \union {None}, asc : BOOLEAN]
    BY <2>2, <2>3
  <2> QED
    BY <1>9, <2>4 DEF Metrics!HandleSort, FetchTypesInv
<1>10. CASE UNCHANGED Metrics!signalMetricsVars
  BY <1>10 DEF Metrics!signalMetricsVars, FetchTypesInv
<1> QED
  BY <1>1, <1>2, <1>3, <1>4, <1>5, <1>6, <1>7, <1>8, <1>9, <1>10 DEF Metrics!Next

\* The metrics have their types always.
LEMMA MetricsTyped == Spec => []Metrics!TypeOK
<1>1. Init => MetricsInv /\ FetchTypesInv
  BY MetricsInit, FetchTypesInit DEF Init
<1>2. MetricsInv /\ FetchTypesInv /\ [Next]_vars => (MetricsInv /\ FetchTypesInv)'
  BY MetricsNext, FetchTypesNext, MetricsStep
<1>3. MetricsInv /\ FetchTypesInv => Metrics!TypeOK
  BY DEF MetricsInv, FetchTypesInv, Metrics!TypeOK
<1> QED
  BY <1>1, <1>2, <1>3, PTL DEF Spec

\* The pane is mounted or not, its requests are numbered, no change is known before it is made.
PaneTypesInv ==
  /\ mounted \in BOOLEAN /\ saveStatus \in {"idle", "running", "ok", "error"}
  /\ configSent \in 0 .. MaxSent
  /\ \A r \in configLoads : r.id \in 1 .. MaxSent
  /\ \A r \in patches : r.id \in 1 .. MaxSent
  /\ \A k \in ConfigKeys : version[k] <= served
  /\ seen \in 0 .. served

\* Nothing is asked for or known.
LEMMA PaneTypesInit == Config!Init => PaneTypesInv
<1> SUFFICES ASSUME Config!Init
             PROVE  PaneTypesInv
  OBVIOUS
<1>1. MaxSent \in Nat
  BY CockpitViewsAssumption DEF Config!ServiceConfigAssumption
<1>2. configSent \in 0 .. MaxSent /\ seen \in 0 .. served /\ \A k \in ConfigKeys : version[k] <= served
  BY <1>1 DEF Config!Init
<1> QED
  BY <1>2 DEF Config!Init, PaneTypesInv

\* Settings that change are told as changed later than what is known.
LEMMA BecomeTypes ==
  ASSUME ServerInv, PaneTypesInv, NEW settings, Config!Become(settings), seen' = seen
  PROVE  seen' \in 0 .. served' /\ \A k \in ConfigKeys : version'[k] <= served'
<1>1. served \in Nat /\ served' = served + 1
  BY DEF ServerInv, Config!Become
<1>2. \A k \in ConfigKeys : version'[k] = (IF settings[k] # applied[k] THEN served' ELSE version[k])
  BY DEF Config!Become
<1>3. \A k \in ConfigKeys : version[k] \in Nat /\ version[k] <= served
  BY DEF ServerInv, PaneTypesInv
<1>4. ASSUME NEW k \in ConfigKeys PROVE version'[k] <= served'
  BY <1>1, <1>2, <1>3
<1> QED
  BY <1>1, <1>4 DEF PaneTypesInv

\* The next request has its number.
LEMMA NextNumber ==
  ASSUME PaneTypesInv, configSent < MaxSent, configSent' = configSent + 1
  PROVE  configSent' \in 0 .. MaxSent /\ configSent' \in 1 .. MaxSent
BY CockpitViewsAssumption DEF PaneTypesInv, Config!ServiceConfigAssumption

\* Every step of the service, the pane and the other pages keeps them.
LEMMA PaneTypesNext ==
  ASSUME ConfigInv, PaneTypesInv, [Config!Next]_(Config!serviceConfigVars)
  PROVE  PaneTypesInv'
<1>0. /\ ServerInv /\ served \in Nat /\ seen \in 0 .. served
      /\ \A r \in patches : PatchOK(r)
      /\ initial # None => AnswerOK(initial)
  BY PatchesAre DEF ConfigInv, PageInv, ServerInv, PaneTypesInv
<1>1. \A a : AnswerOK(a) => a.seen \in 0 .. served
  BY <1>0 DEF AnswerOK, Config!Answer
<1>2. UNCHANGED Config!serverVars => UNCHANGED <<served, version>>
  BY DEF Config!serverVars
<1>3. UNCHANGED <<served, version>> =>
        (\A k \in ConfigKeys : version'[k] <= served') /\ \A n : n \in 0 .. served => n \in 0 .. served'
  BY DEF PaneTypesInv
<1>4. ASSUME Config!Unmount
      PROVE  PaneTypesInv'
  <2>1. /\ mounted' = FALSE /\ saveStatus' = "idle" /\ seen' = 0 /\ configLoads' = {} /\ configSent' = configSent
        /\ UNCHANGED Config!serverVars
        /\ patches' = {[r EXCEPT !.mine = FALSE] : r \in {x \in patches : x.step # "done"}}
    BY <1>4 DEF Config!Unmount
  <2>2. ASSUME NEW q \in patches'
        PROVE  q.id \in 1 .. MaxSent
    <3>1. PICK r \in patches : q = [r EXCEPT !.mine = FALSE]
      BY <2>1
    <3>2. q.id = r.id
      BY <1>0, <3>1 DEF PatchOK, PatchType
    <3> QED
      BY <3>2 DEF PaneTypesInv
  <2>3. seen' \in 0 .. served'
    BY <1>0, <1>2, <2>1
  <2> QED
    BY <1>2, <1>3, <2>1, <2>2, <2>3 DEF PaneTypesInv
<1>5. CASE Config!ReloadPage \/ Config!LeaveSection
  BY <1>4, <1>5 DEF Config!ReloadPage, Config!LeaveSection
<1>6. ASSUME Config!SendLoad, UNCHANGED Config!serverVars, mounted' \in BOOLEAN, UNCHANGED <<saveStatus, seen>>
      PROVE  PaneTypesInv'
  <2>1. /\ configSent < MaxSent /\ configSent' = configSent + 1 /\ patches' = patches
        /\ configLoads' = configLoads \union {[id |-> configSent', answer |-> None]}
    BY <1>6 DEF Config!SendLoad
  <2>2. configSent' \in 0 .. MaxSent /\ configSent' \in 1 .. MaxSent
    BY <2>1, NextNumber
  <2>3. PICK q : q = [id |-> configSent', answer |-> None]
    OBVIOUS
  <2>4. q.id \in 1 .. MaxSent /\ \A r \in configLoads' : r \in configLoads \/ r = q
    BY <2>1, <2>2, <2>3
  <2> QED
    BY <1>0, <1>2, <1>3, <1>6, <2>1, <2>2, <2>4 DEF PaneTypesInv
<1>7. CASE Config!EnterSection
  <2>1. mounted' = TRUE /\ UNCHANGED Config!serverVars /\ UNCHANGED saveStatus
    BY <1>7 DEF Config!EnterSection
  <2>2. CASE initial = None
    BY <1>6, <1>7, <2>1, <2>2 DEF Config!EnterSection
  <2>3. CASE initial # None
    <3>1. seen' \in 0 .. served /\ UNCHANGED <<configLoads, patches, configSent>>
      BY <1>0, <1>1, <1>7, <2>3 DEF Config!EnterSection, Config!wireVars
    <3> QED
      BY <1>2, <1>3, <2>1, <3>1 DEF PaneTypesInv
  <2> QED
    BY <2>2, <2>3
<1>8. CASE Config!Load
  BY <1>6, <1>8 DEF Config!Load, Config!paneVars, Config!pageVars, PaneTypesInv
<1>9. ASSUME NEW mine, NEW body, NEW keys, NEW told, Config!SendPatch(mine, body, keys, told),
             saveStatus' \in {"idle", "running", "ok", "error"}
      PROVE  PaneTypesInv'
  <2>1. PICK q : q = [id |-> configSent', mine |-> mine, body |-> body, edited |-> keys,
                      seen |-> told, step |-> "sent", answer |-> None]
    OBVIOUS
  <2>2. /\ configSent < MaxSent /\ configSent' = configSent + 1 /\ patches' = patches \union {q}
        /\ UNCHANGED <<configLoads, seen, mounted>> /\ UNCHANGED Config!serverVars
    BY <1>9, <2>1 DEF Config!SendPatch, Config!pageVars
  <2>3. configSent' \in 0 .. MaxSent /\ configSent' \in 1 .. MaxSent
    BY <2>2, NextNumber
  <2>4. q.id \in 1 .. MaxSent
    BY <2>1, <2>3
  <2> QED
    BY <1>0, <1>2, <1>3, <1>9, <2>2, <2>3, <2>4 DEF PaneTypesInv
<1>10. CASE Config!Save \/ Config!SaveElsewhere
  BY <1>9, <1>10 DEF Config!Save, Config!SaveElsewhere, PaneTypesInv
<1>11. ASSUME NEW k \in ConfigKeys, NEW v \in Values, Config!HandleChange(k, v)
       PROVE  PaneTypesInv'
  BY <1>0, <1>2, <1>3, <1>11 DEF Config!HandleChange, Config!wireVars, Config!pageVars, PaneTypesInv
<1>12. ASSUME NEW r \in configLoads, Config!ServeLoad(r)
       PROVE  PaneTypesInv'
  <2>1. PICK q : q = [r EXCEPT !.answer = Config!Tunable]
    OBVIOUS
  <2>2. /\ configLoads' = (configLoads \ {r}) \union {q} /\ UNCHANGED Config!serverVars
        /\ UNCHANGED <<mounted, saveStatus, configSent, patches, seen>>
    BY <1>12, <2>1 DEF Config!ServeLoad, Config!paneVars, Config!pageVars
  <2>3. q.id = r.id
    <3>1. r = [id |-> r.id, answer |-> r.answer]
      BY DEF ConfigInv, PageInv
    <3> QED
      BY <2>1, <3>1
  <2> QED
    BY <1>0, <1>2, <1>3, <2>2, <2>3 DEF PaneTypesInv
<1>13. ASSUME NEW r \in configLoads, Config!LoadAnswer(r)
       PROVE  PaneTypesInv'
  <2>1. /\ configLoads' = configLoads \ {r} /\ UNCHANGED Config!serverVars /\ seen' = r.answer.seen
        /\ UNCHANGED <<mounted, saveStatus, configSent, patches>>
    BY <1>13 DEF Config!LoadAnswer, Config!Show, Config!pageVars
  <2>2. AnswerOK(r.answer)
    BY <1>13 DEF Config!LoadAnswer, ConfigInv, PageInv
  <2> QED
    BY <1>1, <1>2, <1>3, <2>1, <2>2 DEF PaneTypesInv
<1>14. ASSUME NEW r \in configLoads, Config!LoadFails(r)
       PROVE  PaneTypesInv'
  BY <1>0, <1>2, <1>3, <1>14 DEF Config!LoadFails, Config!paneVars, Config!pageVars, PaneTypesInv
<1>15. ASSUME NEW r \in patches, Config!SaveAnswer(r)
       PROVE  PaneTypesInv'
  <2>1. /\ patches' = patches \ {r} /\ UNCHANGED Config!serverVars /\ seen' = r.answer.seen /\ saveStatus' = "ok"
        /\ UNCHANGED <<mounted, configSent, configLoads>>
    BY <1>15 DEF Config!SaveAnswer, Config!Show, Config!pageVars
  <2>2. AnswerOK(r.answer)
    BY <1>0, <1>15 DEF Config!SaveAnswer, PatchOK
  <2> QED
    BY <1>1, <1>2, <1>3, <2>1, <2>2 DEF PaneTypesInv
<1>16. ASSUME NEW r \in patches, Config!SaveFails(r)
       PROVE  PaneTypesInv'
  <2>1. /\ patches' = patches \ {r} /\ UNCHANGED Config!serverVars
        /\ UNCHANGED <<mounted, configSent, configLoads, seen>>
    BY <1>16 DEF Config!SaveFails, Config!pageVars
  <2>2. saveStatus' \in {"idle", "running", "ok", "error"}
    BY <1>16 DEF Config!SaveFails, PaneTypesInv
  <2> QED
    BY <1>0, <1>2, <1>3, <2>1, <2>2 DEF PaneTypesInv
<1>17. ASSUME NEW r \in patches, Config!ServeSave(r)
       PROVE  PaneTypesInv'
  <2>1. PICK q : q = [r EXCEPT !.step = "saved"]
    OBVIOUS
  <2>2. /\ patches' = (patches \ {r}) \union {q}
        /\ UNCHANGED <<mounted, saveStatus, configSent, configLoads, seen, served, version>>
    BY <1>17, <2>1 DEF Config!ServeSave, Config!paneVars, Config!pageVars
  <2>3. q.id = r.id
    BY <1>0, <2>1 DEF PatchOK, PatchType
  <2> QED
    BY <1>0, <1>3, <2>2, <2>3 DEF PaneTypesInv
<1>18. ASSUME NEW r \in patches, Config!ServeApply(r)
       PROVE  PaneTypesInv'
  <2>1. PICK q : q = [r EXCEPT !.step = "done", !.answer = [config |-> applied', seen |-> served']]
    OBVIOUS
  <2>2. /\ Config!Become(Config!Over(r.body, applied)) /\ \A p \in patches' : p \in patches \/ p = q
        /\ UNCHANGED <<mounted, saveStatus, configSent, configLoads, seen>>
    BY <1>18, <2>1 DEF Config!ServeApply, Config!paneVars, Config!pageVars
  <2>3. q.id = r.id
    BY <1>0, <2>1 DEF PatchOK, PatchType
  <2>4. seen' \in 0 .. served' /\ \A k \in ConfigKeys : version'[k] <= served'
    BY <1>0, <2>2, BecomeTypes
  <2> QED
    BY <2>2, <2>3, <2>4 DEF PaneTypesInv
<1>19. CASE Config!Restart
  <2>1. /\ Config!Become(Config!Effective(stored)) /\ patches' \subseteq patches
        /\ UNCHANGED <<mounted, configSent, configLoads, seen>>
    BY <1>19 DEF Config!Restart, Config!pageVars
  <2>2. saveStatus' \in {"idle", "running", "ok", "error"}
    BY <1>19 DEF Config!Restart, PaneTypesInv
  <2>3. seen' \in 0 .. served' /\ \A k \in ConfigKeys : version'[k] <= served'
    BY <1>0, <2>1, BecomeTypes
  <2> QED
    BY <2>1, <2>2, <2>3 DEF PaneTypesInv
<1>20. CASE UNCHANGED Config!serviceConfigVars
  BY <1>0, <1>2, <1>3, <1>20
     DEF Config!serviceConfigVars, Config!paneVars, Config!wireVars, Config!pageVars, PaneTypesInv
<1> QED
  BY <1>5, <1>7, <1>8, <1>10, <1>11, <1>12, <1>13, <1>14, <1>15, <1>16, <1>17, <1>18, <1>19, <1>20 DEF Config!Next

\* What the invariants say of the types.
LEMMA ConfigTypes ==
  ASSUME ConfigInv, CountInv, MarkInv, PaneTypesInv
  PROVE  Config!TypeOK
<1>1. \A a : AnswerOK(a) => a \in Config!Answer
  BY DEF AnswerOK
<1>2. /\ initial \in Config!Answer \union {None} /\ config \in Config!Settings \union {None}
  BY <1>1 DEF ConfigInv, PageInv
<1>3. configLoads \subseteq [id : 1 .. MaxSent, answer : Config!Answer \union {None}]
  <2>1. ASSUME NEW r \in configLoads
        PROVE  r \in [id : 1 .. MaxSent, answer : Config!Answer \union {None}]
    <3>1. r = [id |-> r.id, answer |-> r.answer] /\ (r.answer # None => AnswerOK(r.answer))
      BY DEF ConfigInv, PageInv
    <3>2. r.id \in 1 .. MaxSent
      BY DEF PaneTypesInv
    <3> QED
      BY <1>1, <3>1, <3>2
  <2> QED
    BY <2>1
<1>4. patches \subseteq [id : 1 .. MaxSent, mine : BOOLEAN, body : Config!Overrides, edited : SUBSET ConfigKeys,
                         seen : Nat, step : {"sent", "saved", "done"}, answer : Config!Answer \union {None}]
  <2>1. ASSUME NEW r \in patches
        PROVE  r \in [id : 1 .. MaxSent, mine : BOOLEAN, body : Config!Overrides, edited : SUBSET ConfigKeys,
                      seen : Nat, step : {"sent", "saved", "done"}, answer : Config!Answer \union {None}]
    <3>1. r \in PatchType /\ r.id \in 1 .. MaxSent
      BY DEF ConfigInv, PatchesInv, PaneTypesInv
    <3> QED
      BY <3>1 DEF PatchType
  <2> QED
    BY <2>1
<1>5. /\ version \in [ConfigKeys -> 0 .. served] /\ raced \subseteq ConfigKeys
      /\ savedBy \in [ConfigKeys -> 0 .. configSent] /\ appliedBy \in [ConfigKeys -> 0 .. configSent]
  BY DEF ConfigInv, ServerInv, PaneTypesInv, MarkInv
<1>6. /\ stored \in Config!Overrides /\ applied \in Config!Settings
      /\ served \in Nat /\ edited \subseteq ConfigKeys
  BY DEF ConfigInv, ServerInv, CountInv
<1> QED
  BY <1>2, <1>3, <1>4, <1>5, <1>6 DEF PaneTypesInv, Config!TypeOK

\* The settings have their types always.
LEMMA ConfigTyped == Spec => []Config!TypeOK
<1> DEFINE I == ConfigInv /\ CountInv /\ MarkInv /\ OrderInv /\ PaneTypesInv
<1>1. Init => I
  <2>1. Config!Init => CountInv
    BY DEF Config!Init, CountInv
  <2> QED
    BY <2>1, ConfigInit, RaceInit, PaneTypesInit DEF Init
<1>2. I /\ [Next]_vars => I'
  BY ConfigNext, CountNext, RaceNext, PaneTypesNext, ConfigStep
<1>3. I => Config!TypeOK
  BY ConfigTypes
<1> QED
  BY <1>1, <1>2, <1>3, PTL DEF Spec

\* Requests have numbers and offsets.
RequestsInv ==
  /\ listSent \in 0 .. MaxListSent /\ offset \in Nat
  /\ requests \subseteq List!Request

\* What the server last said, and what is drawn of it.
RowsTypesInv ==
  /\ total \in Nat
  /\ listing \in {List!SymbolsOf(s) : s \in Snapshots} \union {<<>>}
  /\ hasMore \in BOOLEAN /\ drawn \in [loading : BOOLEAN, hasMore : BOOLEAN]

FlagsInv ==
  /\ listLoading \in BOOLEAN /\ fetched \in BOOLEAN /\ active \in BOOLEAN
  /\ overlapped \in BOOLEAN /\ reordered \in BOOLEAN

BarTypesInv ==
  /\ clicks \in 0 .. MaxClicks
  /\ listFilter \in [query : Queries \union {None}, presets : SUBSET PresetKeys, fnoOnly : BOOLEAN]
  /\ listSort \in [col : Columns \union {"symbol"}, asc : BOOLEAN]

ListTypesInv == RequestsInv /\ RowsTypesInv /\ FlagsInv /\ BarTypesInv

\* What the bounds are.
LEMMA ListBounds == PageSize \in Nat \ {0} /\ MaxListSent \in Nat /\ MaxClicks \in Nat
BY CockpitViewsAssumption DEF List!StockListAssumption

\* No page is asked for, and nothing clicked.
LEMMA ListTypesInit == List!Init => ListTypesInv
<1> SUFFICES ASSUME List!Init
             PROVE  ListTypesInv
  OBVIOUS
<1>1. RequestsInv
  BY ListBounds DEF List!Init, RequestsInv
<1>2. RowsTypesInv
  <2>1. /\ total = 0 /\ hasMore = FALSE /\ listing = <<>>
        /\ drawn = [loading |-> FALSE, hasMore |-> FALSE]
    BY DEF List!Init
  <2>2. total \in Nat
    BY <2>1
  <2>3. hasMore \in BOOLEAN /\ drawn \in [loading : BOOLEAN, hasMore : BOOLEAN]
    BY <2>1
  <2>4. listing \in {List!SymbolsOf(s) : s \in Snapshots} \union {<<>>}
    BY <2>1
  <2> QED
    BY <2>2, <2>3, <2>4 DEF RowsTypesInv
<1>3. FlagsInv
  BY DEF List!Init, FlagsInv
<1>4. BarTypesInv
  <2>1. clicks \in 0 .. MaxClicks
    BY ListBounds DEF List!Init
  <2>2. listFilter \in [query : Queries \union {None}, presets : SUBSET PresetKeys, fnoOnly : BOOLEAN]
    BY DEF List!Init, List!NoFilter
  <2>3. listSort \in [col : Columns \union {"symbol"}, asc : BOOLEAN]
    BY DEF List!Init
  <2> QED
    BY <2>1, <2>2, <2>3 DEF BarTypesInv
<1> QED
  BY <1>1, <1>2, <1>3, <1>4 DEF ListTypesInv

\* A step that no answer comes with keeps what the server said.
LEMMA SameShown ==
  ASSUME RowsTypesInv, UNCHANGED <<total, hasMore, listing>>,
         drawn' \in [loading : BOOLEAN, hasMore : BOOLEAN]
  PROVE  RowsTypesInv'
<1>1. {List!SymbolsOf(s) : s \in Snapshots}' = {List!SymbolsOf(s) : s \in Snapshots}
  BY DEF List!SymbolsOf
<1> QED
  BY <1>1 DEF RowsTypesInv

\* A load or a next page is asked for.
LEMMA AskKeepsTypes ==
  ASSUME ListTypesInv, NEW kind \in {"load", "more"}, NEW at \in Nat, List!Send(kind, at), offset' \in Nat,
         drawn' \in [loading : BOOLEAN, hasMore : BOOLEAN], active' \in BOOLEAN
  PROVE  ListTypesInv'
<1>1. RequestsInv'
  <2>1. PICK q : q = [id |-> listSent', kind |-> kind, at |-> at]
    OBVIOUS
  <2>2. /\ listSent < MaxListSent /\ listSent' = listSent + 1 /\ requests' = requests \union {q}
    BY <2>1 DEF List!Send
  <2>3. listSent' \in 1 .. MaxListSent /\ listSent' \in 0 .. MaxListSent
    BY <2>2, ListBounds DEF ListTypesInv, RequestsInv
  <2>4. q \in List!Request
    BY <2>1, <2>3 DEF List!Request
  <2> QED
    BY <2>2, <2>3, <2>4 DEF ListTypesInv, RequestsInv, List!Request
<1>2. UNCHANGED <<rows, total, hasMore, listing, reordered, fetched, listFilter, listSort, clicks>>
  BY DEF List!Send, List!viewVars
<1>3. RowsTypesInv'
  BY <1>2, SameShown DEF ListTypesInv
<1>4. FlagsInv'
  BY <1>2 DEF ListTypesInv, FlagsInv, List!Send
<1>5. BarTypesInv'
  BY <1>2 DEF ListTypesInv, BarTypesInv
<1> QED
  BY <1>1, <1>3, <1>4, <1>5 DEF ListTypesInv

\* A click changes the filter or the order, once more.
LEMMA ClickKeepsTypes ==
  ASSUME ListTypesInv, List!Click,
         listFilter' \in [query : Queries \union {None}, presets : SUBSET PresetKeys, fnoOnly : BOOLEAN],
         listSort' \in [col : Columns \union {"symbol"}, asc : BOOLEAN]
  PROVE  ListTypesInv'
<1>1. /\ UNCHANGED <<rows, listLoading, hasMore, total, offset, fetched, requests, listSent, overlapped, listing, reordered,
                   active, drawn>>
      /\ clicks < MaxClicks /\ clicks' = clicks + 1
  BY DEF List!Click, List!fetchVars
<1>2. RequestsInv'
  BY <1>1 DEF ListTypesInv, RequestsInv, List!Request
<1>3. RowsTypesInv'
  BY <1>1, SameShown DEF ListTypesInv, RowsTypesInv
<1>4. FlagsInv'
  BY <1>1 DEF ListTypesInv, FlagsInv
<1>5. clicks' \in 0 .. MaxClicks
  BY <1>1, ListBounds DEF ListTypesInv, BarTypesInv
<1>6. BarTypesInv'
  BY <1>5 DEF BarTypesInv
<1> QED
  BY <1>2, <1>3, <1>4, <1>6 DEF ListTypesInv

\* Every step of the list, its bar and its head keeps the types.
LEMMA ListTypesNext ==
  ASSUME ListTypesInv, [List!Next]_(List!stockListVars)
  PROVE  ListTypesInv'
<1>0. /\ offset \in Nat /\ drawn \in [loading : BOOLEAN, hasMore : BOOLEAN] /\ active \in BOOLEAN
      /\ listFilter \in [query : Queries \union {None}, presets : SUBSET PresetKeys, fnoOnly : BOOLEAN]
      /\ listSort \in [col : Columns \union {"symbol"}, asc : BOOLEAN]
  BY DEF ListTypesInv, RequestsInv, RowsTypesInv, FlagsInv, BarTypesInv
<1>1. ASSUME List!Load, drawn' \in [loading : BOOLEAN, hasMore : BOOLEAN], active' \in BOOLEAN
      PROVE  ListTypesInv'
  <2>1. 0 \in Nat /\ offset' \in Nat /\ List!Send("load", 0) /\ offset' = 0
    BY <1>0, <1>1 DEF List!Load
  <2> QED
    BY <1>1, <2>1, AskKeepsTypes
<1>2. ASSUME UNCHANGED List!fetchVars, UNCHANGED List!viewVars,
             drawn' \in [loading : BOOLEAN, hasMore : BOOLEAN], active' \in BOOLEAN
      PROVE  ListTypesInv'
  <2>1. RequestsInv'
    BY <1>2 DEF ListTypesInv, RequestsInv, List!Request, List!fetchVars
  <2>2. RowsTypesInv'
    BY <1>2, SameShown DEF ListTypesInv, List!fetchVars
  <2>3. FlagsInv'
    BY <1>2 DEF ListTypesInv, FlagsInv, List!fetchVars
  <2>4. BarTypesInv'
    BY <1>2 DEF ListTypesInv, BarTypesInv, List!viewVars
  <2> QED
    BY <2>1, <2>2, <2>3, <2>4 DEF ListTypesInv
<1>3. CASE List!Show
  <2>1. active' = TRUE /\ drawn' = drawn
    BY <1>3 DEF List!Show
  <2> QED
    BY <1>0, <1>1, <1>2, <1>3, <2>1 DEF List!Show
<1>4. CASE List!Hide
  <2>1. active' = FALSE /\ drawn' = drawn
    BY <1>4 DEF List!Hide
  <2> QED
    BY <1>0, <1>2, <1>4, <2>1 DEF List!Hide
<1>5. CASE List!Refresh
  <2>1. drawn' = [drawn EXCEPT !.loading = TRUE] /\ active' = active /\ List!Load
    BY <1>5 DEF List!Refresh
  <2>2. drawn' \in [loading : BOOLEAN, hasMore : BOOLEAN]
    BY <1>0, <2>1
  <2> QED
    BY <1>0, <1>1, <2>1, <2>2
<1>6. CASE List!LoadMore
  <2>1. List!Send("more", offset) /\ offset' = offset /\ active' = active /\ drawn' = drawn
    BY <1>6 DEF List!LoadMore
  <2> QED
    BY <1>0, <2>1, AskKeepsTypes
<1>7. CASE List!Render
  <2>1. drawn' = [loading |-> listLoading, hasMore |-> hasMore] /\ active' = active
    BY <1>7 DEF List!Render
  <2>2. drawn' \in [loading : BOOLEAN, hasMore : BOOLEAN]
    BY <2>1 DEF ListTypesInv, FlagsInv, RowsTypesInv
  <2> QED
    BY <1>0, <1>2, <1>7, <2>1, <2>2 DEF List!Render
<1>8. ASSUME NEW r \in requests, NEW s \in Snapshots, List!AnswerOk(r, s)
      PROVE  ListTypesInv'
  <2>1. PICK at, page, order : at = r.at /\ page = List!Page(s, at) /\ order = List!SymbolsOf(s)
    OBVIOUS
  <2>2. at \in Nat
    <3>1. r \in List!Request
      BY DEF ListTypesInv, RequestsInv
    <3> QED
      BY <2>1, <3>1 DEF List!Request
  <2>3. Len(page) \in Nat /\ Len(s) \in Nat
    BY <2>1, <2>2, PageIs, SnapshotIs
  <2>4. /\ requests' = requests \ {r} /\ total' = Len(s) /\ UNCHANGED <<listSent, active, drawn>>
        /\ UNCHANGED <<listFilter, listSort, clicks>>
        /\ \/ offset' = Len(page) /\ listing' = order /\ reordered' = FALSE
           \/ /\ offset' = offset + Len(page)
              /\ reordered' = (reordered \/ order # listing) /\ listing' = listing
    BY <1>8, <2>1 DEF List!AnswerOk, List!viewVars
  <2>5. hasMore' \in BOOLEAN
    BY <1>8 DEF List!AnswerOk
  <2>6. FlagsInv'
    <3>1. overlapped' \in BOOLEAN /\ fetched' \in BOOLEAN
      BY <1>8 DEF List!AnswerOk, ListTypesInv, FlagsInv
    <3>2. listLoading' = FALSE /\ active' = active
      BY <1>8 DEF List!AnswerOk
    <3>3. reordered' \in BOOLEAN
      BY <2>4 DEF ListTypesInv, FlagsInv
    <3> QED
      BY <3>1, <3>2, <3>3 DEF ListTypesInv, FlagsInv
  <2>7. RequestsInv'
    <3>1. offset' \in Nat
      BY <1>0, <2>3, <2>4
    <3> QED
      BY <2>4, <3>1 DEF ListTypesInv, RequestsInv, List!Request
  <2>9. listing' \in {List!SymbolsOf(x) : x \in Snapshots} \union {<<>>}
    <3>1. order \in {List!SymbolsOf(x) : x \in Snapshots}
      BY <2>1
    <3> QED
      BY <2>4, <3>1 DEF ListTypesInv, RowsTypesInv
  <2>10. RowsTypesInv'
    <3>1. {List!SymbolsOf(x) : x \in Snapshots}' = {List!SymbolsOf(x) : x \in Snapshots}
      BY DEF List!SymbolsOf
    <3>2. total' \in Nat
      BY <2>3, <2>4
    <3> QED
      BY <1>0, <2>4, <2>5, <2>9, <3>1, <3>2 DEF RowsTypesInv
  <2>11. BarTypesInv'
    BY <2>4 DEF ListTypesInv, BarTypesInv
  <2> QED
    BY <2>6, <2>7, <2>10, <2>11 DEF ListTypesInv
<1>9. ASSUME NEW r \in requests, List!AnswerFails(r)
      PROVE  ListTypesInv'
  <2>1. /\ requests' = requests \ {r} /\ UNCHANGED <<rows, hasMore, total, listing, reordered, offset, listSent, active, drawn>>
        /\ UNCHANGED <<listFilter, listSort, clicks>>
    BY <1>9 DEF List!AnswerFails, List!viewVars
  <2>2. FlagsInv'
    <3>1. fetched' \in BOOLEAN
      BY <1>9 DEF List!AnswerFails, ListTypesInv, FlagsInv
    <3>2. listLoading' = FALSE /\ overlapped' = overlapped /\ active' = active /\ reordered' = reordered
      BY <1>9 DEF List!AnswerFails
    <3> QED
      BY <3>1, <3>2 DEF ListTypesInv, FlagsInv
  <2>3. RequestsInv'
    BY <2>1 DEF ListTypesInv, RequestsInv, List!Request
  <2>4. RowsTypesInv'
    BY <1>0, <2>1, SameShown DEF ListTypesInv
  <2>5. BarTypesInv'
    BY <2>1 DEF ListTypesInv, BarTypesInv
  <2> QED
    BY <2>2, <2>3, <2>4, <2>5 DEF ListTypesInv
<1>10. ASSUME NEW q \in Queries \union {None}, List!SetQuery(q)
       PROVE  ListTypesInv'
  <2>1. List!Click /\ listFilter' = [listFilter EXCEPT !.query = q] /\ listSort' = listSort
    BY <1>10 DEF List!SetQuery
  <2>2. listFilter' \in [query : Queries \union {None}, presets : SUBSET PresetKeys, fnoOnly : BOOLEAN]
    BY <1>0, <2>1
  <2> QED
    BY <1>0, <2>1, <2>2, ClickKeepsTypes
<1>11. CASE List!SetFnoOnly
  <2>1. List!Click /\ listFilter' = [listFilter EXCEPT !.fnoOnly = ~listFilter.fnoOnly] /\ listSort' = listSort
    BY <1>11 DEF List!SetFnoOnly
  <2>2. PICK b \in BOOLEAN : b = ~listFilter.fnoOnly
    OBVIOUS
  <2>3. listFilter' = [listFilter EXCEPT !.fnoOnly = b]
    BY <2>1, <2>2
  <2>4. listFilter' \in [query : Queries \union {None}, presets : SUBSET PresetKeys, fnoOnly : BOOLEAN]
    BY <1>0, <2>3
  <2> QED
    BY <1>0, <2>1, <2>4, ClickKeepsTypes
<1>12. ASSUME NEW p \in PresetKeys, List!TogglePreset(p)
       PROVE  ListTypesInv'
  <2>1. PICK now : now = IF p \in listFilter.presets THEN listFilter.presets \ {p} ELSE listFilter.presets \union {p}
    OBVIOUS
  <2>2. List!Click /\ listFilter' = [listFilter EXCEPT !.presets = now] /\ listSort' = listSort
    BY <1>12, <2>1 DEF List!TogglePreset
  <2>3. now \in SUBSET PresetKeys
    BY <1>0, <2>1
  <2>4. listFilter' \in [query : Queries \union {None}, presets : SUBSET PresetKeys, fnoOnly : BOOLEAN]
    BY <1>0, <2>2, <2>3
  <2> QED
    BY <1>0, <2>2, <2>4, ClickKeepsTypes
<1>13. CASE List!ResetFilters
  <2>1. List!Click /\ listFilter' = List!NoFilter /\ listSort' = listSort
    BY <1>13 DEF List!ResetFilters
  <2>2. listFilter' \in [query : Queries \union {None}, presets : SUBSET PresetKeys, fnoOnly : BOOLEAN]
    BY <2>1 DEF List!NoFilter
  <2> QED
    BY <1>0, <2>1, <2>2, ClickKeepsTypes
<1>14. ASSUME NEW col \in Columns \union {"symbol"}, List!SortBy(col)
       PROVE  ListTypesInv'
  <2>1. List!Click /\ listFilter' = listFilter
    BY <1>14 DEF List!SortBy
  <2>2. CASE listSort.col = col
    <3>1. PICK b \in BOOLEAN : b = ~listSort.asc
      OBVIOUS
    <3>2. listSort' = [listSort EXCEPT !.asc = b]
      BY <1>14, <2>2, <3>1 DEF List!SortBy
    <3>3. listSort' \in [col : Columns \union {"symbol"}, asc : BOOLEAN]
      BY <1>0, <3>2
    <3> QED
      BY <1>0, <2>1, <3>3, ClickKeepsTypes
  <2>3. CASE listSort.col # col
    <3>1. PICK b \in BOOLEAN : b = (col = "symbol")
      OBVIOUS
    <3>2. listSort' = [col |-> col, asc |-> b]
      BY <1>14, <2>3, <3>1 DEF List!SortBy
    <3>3. listSort' \in [col : Columns \union {"symbol"}, asc : BOOLEAN]
      BY <3>2
    <3> QED
      BY <1>0, <2>1, <3>3, ClickKeepsTypes
  <2> QED
    BY <2>2, <2>3
<1>15. CASE UNCHANGED List!stockListVars
  BY <1>0, <1>2, <1>15 DEF List!stockListVars
<1> QED
  BY <1>3, <1>4, <1>5, <1>6, <1>7, <1>8, <1>9, <1>10, <1>11, <1>12, <1>13, <1>14, <1>15 DEF List!Next

\* The list has its types always.
LEMMA ListTyped == Spec => []List!TypeOK
<1>1. Init => ListInv /\ ListTypesInv
  BY ListInit, ListTypesInit DEF Init
<1>2. ListInv /\ ListTypesInv /\ [Next]_vars => (ListInv /\ ListTypesInv)'
  BY ListNext, ListTypesNext, ListStep
<1>3. ListInv /\ ListTypesInv => List!TypeOK
  <2>1. ASSUME FlagsInv, hasMore \in BOOLEAN
        PROVE  {listLoading, hasMore, fetched, active, overlapped, reordered} \subseteq BOOLEAN
    BY <2>1 DEF FlagsInv
  <2>2. ASSUME RequestsInv
        PROVE  requests \subseteq List!Request
    BY <2>2 DEF RequestsInv
  <2>3. ASSUME ListInv, ListTypesInv
        PROVE  List!TypeOK
    <3>1. rows \in Seq(List!Stocks)
      BY <2>3 DEF ListInv
    <3> QED
      BY <2>1, <2>2, <2>3, <3>1
         DEF ListTypesInv, RequestsInv, RowsTypesInv, BarTypesInv, List!TypeOK
  <2> QED
    BY <2>3
<1> QED
  BY <1>1, <1>2, <1>3, PTL DEF Spec

(***************************************************************************)
(* The state of every view has its type, whatever steps its hook, its      *)
(* server and its user take.  Among it: the rows of a list are ones the    *)
(* server had, what is drawn in a chart is one of its keys, a load of the  *)
(* accounts has its number, and no pane knows a later change than its      *)
(* service has made.                                                       *)
(***************************************************************************)
THEOREM ViewsHaveTheirTypes == Spec => []TypeOK
<1>1. List!TypeOK /\ ChartTypesInv /\ Regime!TypeOK /\ Modal!TypeOK /\ Accounts!TypeOK
      /\ Metrics!TypeOK /\ Config!TypeOK => TypeOK
  BY DEF ChartTypesInv, TypeOK
<1> QED
  BY <1>1, ListTyped, ChartTyped, PanelsTyped, MetricsTyped, ConfigTyped, PTL
=============================================================================
