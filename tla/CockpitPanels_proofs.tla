------------------------- MODULE CockpitPanels_proofs -----------------------
(***************************************************************************)
(* What the live prices, the heat map, the notes and the settings of the   *)
(* cockpit promise, for every set of views, pages, symbols, prices, notes  *)
(* and settings.                                                           *)
(*                                                                         *)
(* The panels share no state: a step of the cockpit is a step of the panel *)
(* the argument is about, or leaves its variables alone.                   *)
(***************************************************************************)
EXTENDS CockpitPanels, Arrangement, SequenceTheorems, FiniteSetTheorems, TLAPS

-----------------------------------------------------------------------------
(* The settings.                                                           *)

\* While a page mounts, and no other is there, it holds what was chosen, and the
\* storage its defaults.
SettingsInv ==
  /\ phase \in [Pages -> {"closed", "mounting", "live"}] /\ DOMAIN settings = Pages
  /\ ~disturbed =>
       /\ \A p, q \in Pages : phase[p] # "closed" /\ phase[q] # "closed" => p = q
       /\ \A p \in Pages : phase[p] = "mounting" =>
            storage = Settings!Defaults /\ settings[p] = Settings!Restored(chosen)
       /\ \A p \in Pages : phase[p] = "live" => settings[p] = chosen
       /\ (\A p \in Pages : phase[p] # "mounting") => storage = chosen

\* What is stored was chosen, and no page is there.
LEMMA SettingsInit == Settings!Init => SettingsInv
BY DEF Settings!Init, SettingsInv

\* Every step of a page keeps the invariant.
LEMMA SettingsNext ==
  ASSUME SettingsInv, [Settings!Next]_(Settings!cockpitStateVars)
  PROVE  SettingsInv'
<1>0. phase \in [Pages -> {"closed", "mounting", "live"}] /\ DOMAIN settings = Pages
  BY DEF SettingsInv
<1>1. ASSUME NEW p \in Pages, Settings!Mount(p)
      PROVE  SettingsInv'
  <2>1. /\ phase[p] = "closed" /\ phase' = [phase EXCEPT ![p] = "mounting"]
        /\ settings' = [settings EXCEPT ![p] = Settings!Restored(storage)]
        /\ storage' = Settings!Defaults /\ chosen' = chosen
        /\ disturbed' = (disturbed \/ \E q \in Pages : phase[q] # "closed")
    BY <1>1 DEF Settings!Mount, Settings!Read
  <2>2. CASE disturbed'
    BY <1>0, <2>1, <2>2 DEF SettingsInv
  <2>3. CASE ~disturbed'
    <3>1. ~disturbed /\ \A q \in Pages : phase[q] = "closed"
      BY <2>1, <2>3
    <3>2. storage = chosen
      BY <3>1 DEF SettingsInv
    <3>3. \A q \in Pages : phase'[q] # "closed" => q = p /\ phase'[q] = "mounting"
      BY <1>0, <2>1, <3>1
    <3>4. PICK c : c = chosen
      OBVIOUS
    <3>5. settings'[p] = Settings!Restored(c)
      BY <1>0, <2>1, <3>2, <3>4
    <3>6. Settings!Restored(chosen)' = Settings!Restored(c) /\ Settings!Defaults' = Settings!Defaults
      BY <2>1, <3>4 DEF Settings!Restored, Settings!Defaults
    <3> QED
      BY <1>0, <2>1, <3>3, <3>5, <3>6 DEF SettingsInv
  <2> QED
    BY <2>2, <2>3
<1>2. ASSUME NEW p \in Pages, Settings!Restore(p)
      PROVE  SettingsInv'
  <2>1. /\ phase[p] = "mounting" /\ phase' = [phase EXCEPT ![p] = "live"]
        /\ storage' = IF settings[p] = Settings!Defaults THEN storage ELSE settings[p]
        /\ chosen' = IF chosen = None THEN Settings!Defaults ELSE Settings!Restored(chosen)
        /\ UNCHANGED <<settings, disturbed>>
    BY <1>2 DEF Settings!Restore
  <2>2. CASE ~disturbed
    <3>1. /\ storage = Settings!Defaults /\ settings[p] = Settings!Restored(chosen)
          /\ \A q \in Pages : phase[q] # "closed" => q = p
      BY <2>1, <2>2 DEF SettingsInv
    <3>2. chosen' = Settings!Restored(chosen)
      BY <2>1 DEF Settings!Restored
    <3>3. storage' = chosen' /\ settings'[p] = chosen'
      BY <2>1, <3>1, <3>2
    <3>4. \A q \in Pages : phase'[q] # "closed" => q = p /\ phase'[q] = "live"
      BY <1>0, <2>1, <3>1
    <3> QED
      BY <1>0, <2>1, <3>3, <3>4 DEF SettingsInv
  <2> QED
    BY <1>0, <2>1, <2>2 DEF SettingsInv
<1>3. ASSUME NEW p \in Pages, Settings!Close(p)
      PROVE  SettingsInv'
  <2>1. /\ phase' = [phase EXCEPT ![p] = "closed"] /\ phase[p] # "closed"
        /\ settings' = [settings EXCEPT ![p] = Settings!Defaults]
        /\ disturbed' = (disturbed \/ phase[p] = "mounting") /\ UNCHANGED <<storage, chosen>>
    BY <1>3 DEF Settings!Close
  <2>2. CASE ~disturbed'
    <3>1. ~disturbed /\ phase[p] = "live"
      BY <1>0, <2>1, <2>2
    <3>2. \A q \in Pages : q # p => phase[q] = "closed"
      BY <1>0, <2>1, <3>1 DEF SettingsInv
    <3>3. \A q \in Pages : phase'[q] = "closed"
      BY <1>0, <2>1, <3>2
    <3>4. storage' = chosen'
      BY <2>1, <3>1, <3>2 DEF SettingsInv
    <3> QED
      BY <1>0, <2>1, <3>3, <3>4 DEF SettingsInv
  <2> QED
    BY <1>0, <2>1, <2>2 DEF SettingsInv
<1>4. ASSUME NEW p \in Pages, NEW f \in Fields, NEW v \in Values(f), Settings!Change(p, f, v)
      PROVE  SettingsInv'
  <2>1. /\ phase[p] = "live" /\ settings' = [settings EXCEPT ![p][f] = v]
        /\ storage' = settings'[p] /\ chosen' = settings'[p] /\ UNCHANGED <<phase, disturbed>>
    BY <1>4 DEF Settings!Change
  <2>2. CASE ~disturbed
    <3>1. \A q \in Pages : phase[q] # "closed" => q = p
      BY <2>1, <2>2 DEF SettingsInv
    <3> QED
      BY <1>0, <2>1, <3>1 DEF SettingsInv
  <2> QED
    BY <1>0, <2>1, <2>2 DEF SettingsInv
<1>5. CASE UNCHANGED Settings!cockpitStateVars
  BY <1>5 DEF Settings!cockpitStateVars, SettingsInv, Settings!Restored, Settings!Defaults
<1> QED
  BY <1>1, <1>2, <1>3, <1>4, <1>5 DEF Settings!Next

\* A step of the cockpit is one of the settings, or none.
LEMMA SettingsStep == [Next]_vars => [Settings!Next]_(Settings!cockpitStateVars)
BY DEF Next, vars, LiveSteps, NotesSteps, SettingsSteps, PipelineSteps, settingsVars, Settings!cockpitStateVars

(***************************************************************************)
(* useCockpitState: the settings chosen last survive in the storage and on *)
(* the next page, though every page writes its defaults over them before   *)
(* it restores them, whatever pages open and close, one at a time.         *)
(***************************************************************************)
THEOREM ChoicesSurvive == Spec => []SettingsKept
<1>1. Init => SettingsInv
  BY SettingsInit DEF Init
<1>2. SettingsInv /\ [Next]_vars => SettingsInv'
  BY SettingsNext, SettingsStep
<1>3. SettingsInv => SettingsKept
  BY DEF SettingsInv, SettingsKept, Settings!SettingsKept
<1> QED
  BY <1>1, <1>2, <1>3, PTL DEF Spec

-----------------------------------------------------------------------------
(* The live prices.                                                        *)

\* The prices shared and shown are prices; a symbol that ticked has the price of its
\* last tick in the shared ones, and in every view that watches it.
LiveInv ==
  /\ sharedPrices \in [Symbols -> Live!Price] /\ prices \in [Views -> [Symbols -> Live!Price]]
  /\ watched \in [Views -> SUBSET Symbols] /\ listening \in [Views -> BOOLEAN]
  /\ lastTick \in [Symbols -> Prices \union {None}]
  /\ \A s \in Symbols : lastTick[s] # None => sharedPrices[s] # None /\ sharedPrices[s].ltp = lastTick[s]
  /\ LiveInEveryView

\* No view is there yet.
LEMMA LiveInit == Live!Init => LiveInv
<1> SUFFICES ASSUME Live!Init PROVE LiveInv
  OBVIOUS
<1>1. sharedPrices \in [Symbols -> Live!Price] /\ prices \in [Views -> [Symbols -> Live!Price]]
  BY DEF Live!Init, Live!NoPrices, Live!Price
<1>2. lastTick \in [Symbols -> Prices \union {None}] /\ \A s \in Symbols : lastTick[s] = None
  BY DEF Live!Init, Live!NoPrices
<1> QED
  BY <1>1, <1>2 DEF Live!Init, LiveInv, LiveInEveryView, Live!LiveInEveryView

\* A price is a record of its last price and the close before, or none.
LEMMA PriceForm ==
  /\ \A l \in Prices \union {None}, c \in Live!Range(PrevClose) \union {None} :
       /\ [ltp |-> l, prev |-> c] \in Live!Price
       /\ [ltp |-> l, prev |-> c] # None
  /\ \A x \in Live!Price : x # None => x.ltp \in Prices \union {None} /\ x.prev \in Live!Range(PrevClose) \union {None}
BY CockpitPanelsAssumption DEF Live!LivePricesAssumption, Live!Price

\* Metrics merged into a shared price keep its last price where it has one.
LEMMA MergeKeepsTick ==
  ASSUME NEW s \in Symbols, NEW ltp \in Prices \union {None}, sharedPrices \in [Symbols -> Live!Price]
  PROVE  /\ Live!MergeMetricPrice(s, ltp) \in Live!Price /\ Live!MergeMetricPrice(s, ltp) # None
         /\ sharedPrices[s] # None /\ sharedPrices[s].ltp # None =>
              Live!MergeMetricPrice(s, ltp).ltp = sharedPrices[s].ltp
<1>1. PrevClose[s] \in Live!Range(PrevClose)
  BY CockpitPanelsAssumption DEF Live!LivePricesAssumption, Live!Range
<1> DEFINE now == sharedPrices[s]
           last == IF now = None THEN ltp ELSE Live!OrElse(now.ltp, ltp)
<1>2. now \in Live!Price
  OBVIOUS
<1>3. last \in Prices \union {None}
  BY <1>2, PriceForm DEF Live!OrElse
<1>4. Live!MergeMetricPrice(s, ltp) = [ltp |-> last, prev |-> PrevClose[s]]
  BY DEF Live!MergeMetricPrice
<1>5. now # None /\ now.ltp # None => last = now.ltp
  BY DEF Live!OrElse
<1> HIDE DEF last
<1>6. [ltp |-> last, prev |-> PrevClose[s]].ltp = last
  OBVIOUS
<1> QED
  BY <1>1, <1>3, <1>4, <1>5, <1>6, PriceForm

\* Every step of the stream and its views keeps the invariant.
LEMMA LiveNext ==
  ASSUME LiveInv, [Live!Next]_(Live!livePricesVars)
  PROVE  LiveInv'
<1>0. /\ sharedPrices \in [Symbols -> Live!Price] /\ prices \in [Views -> [Symbols -> Live!Price]]
      /\ watched \in [Views -> SUBSET Symbols] /\ listening \in [Views -> BOOLEAN]
      /\ lastTick \in [Symbols -> Prices \union {None}]
      /\ \A s \in Symbols : lastTick[s] # None => sharedPrices[s] # None /\ sharedPrices[s].ltp = lastTick[s]
  BY DEF LiveInv
<1>a. \A v \in Views : \A s \in watched[v] : listening[v] /\ lastTick[s] # None =>
        prices[v][s] # None /\ prices[v][s].ltp = lastTick[s]
  BY DEF LiveInv, LiveInEveryView, Live!LiveInEveryView
<1>1. ASSUME NEW v \in Views, NEW syms \in SUBSET Symbols, Live!Watch(v, syms)
      PROVE  LiveInv'
  <2>1. /\ watched' = [watched EXCEPT ![v] = syms] /\ listening' = [listening EXCEPT ![v] = TRUE]
        /\ prices' = [prices EXCEPT ![v] = Live!PickPrices(syms)] /\ UNCHANGED <<sharedPrices, lastTick>>
    BY <1>1 DEF Live!Watch
  <2>2. Live!PickPrices(syms) \in [Symbols -> Live!Price]
    BY <1>0 DEF Live!PickPrices, Live!Price
  <2>3. \A s \in syms : Live!PickPrices(syms)[s] = sharedPrices[s]
    BY DEF Live!PickPrices
  <2>4. PICK pick : pick = Live!PickPrices(syms)
    OBVIOUS
  <2>5. prices' = [prices EXCEPT ![v] = pick] /\ pick \in [Symbols -> Live!Price]
    BY <2>1, <2>2, <2>4
  <2>6. /\ prices' \in [Views -> [Symbols -> Live!Price]] /\ watched' \in [Views -> SUBSET Symbols]
        /\ listening' \in [Views -> BOOLEAN]
    BY <1>0, <2>1, <2>5
  <2>7. ASSUME NEW w \in Views, NEW s \in watched'[w], listening'[w], lastTick[s] # None
        PROVE  prices'[w][s] # None /\ prices'[w][s].ltp = lastTick[s]
    <3>1. CASE w = v
      BY <1>0, <2>1, <2>3, <2>4, <2>5, <2>7, <3>1
    <3>2. CASE w # v
      BY <1>0, <1>a, <2>1, <2>5, <2>7, <3>2
    <3> QED
      BY <3>1, <3>2
  <2> QED
    BY <1>0, <2>1, <2>6, <2>7 DEF LiveInv, LiveInEveryView, Live!LiveInEveryView
<1>2. ASSUME NEW v \in Views, Live!Unwatch(v)
      PROVE  LiveInv'
  <2>1. listening' = [listening EXCEPT ![v] = FALSE] /\ UNCHANGED <<sharedPrices, watched, prices, lastTick>>
    BY <1>2 DEF Live!Unwatch
  <2>2. \A w \in Views : listening'[w] => listening[w]
    BY <1>0, <2>1
  <2> QED
    BY <1>0, <1>a, <2>1, <2>2 DEF LiveInv, LiveInEveryView, Live!LiveInEveryView
<1>3. ASSUME NEW v \in Views, Live!MetricsAnswer(v)
      PROVE  LiveInv'
  <2>1. PICK found \in SUBSET watched[v], ltp \in Prices \union {None} :
          /\ sharedPrices' = [s \in Symbols |->
               IF s \in found THEN Live!MergeMetricPrice(s, ltp) ELSE sharedPrices[s]]
          /\ prices' = [prices EXCEPT ![v] = [s \in Symbols |->
               IF s \in found THEN Live!MergeMetricPrice(s, ltp) ELSE prices[v][s]]]
    BY <1>0, <1>3 DEF Live!MetricsAnswer
  <2>2. UNCHANGED <<watched, listening, lastTick>>
    BY <1>3 DEF Live!MetricsAnswer
  <2>3. PICK merged : merged = [s \in Symbols |-> Live!MergeMetricPrice(s, ltp)]
    OBVIOUS
  <2>4. /\ \A s \in Symbols : merged[s] \in Live!Price /\ merged[s] # None
        /\ \A s \in Symbols : lastTick[s] # None => merged[s].ltp = lastTick[s]
    <3>1. \A s \in Symbols : merged[s] = Live!MergeMetricPrice(s, ltp)
      BY <2>3
    <3> QED
      BY <1>0, <3>1, MergeKeepsTick
  <2>5. /\ sharedPrices' = [s \in Symbols |-> IF s \in found THEN merged[s] ELSE sharedPrices[s]]
        /\ prices' = [prices EXCEPT ![v] = [s \in Symbols |-> IF s \in found THEN merged[s] ELSE prices[v][s]]]
    BY <2>1, <2>3
  <2>6. sharedPrices' \in [Symbols -> Live!Price] /\ prices' \in [Views -> [Symbols -> Live!Price]]
    BY <1>0, <2>4, <2>5
  <2>7. \A s \in Symbols : lastTick[s] # None => sharedPrices'[s] # None /\ sharedPrices'[s].ltp = lastTick[s]
    BY <1>0, <2>4, <2>5
  <2>8. ASSUME NEW w \in Views, NEW s \in watched[w], listening[w], lastTick[s] # None
        PROVE  prices'[w][s] # None /\ prices'[w][s].ltp = lastTick[s]
    <3>1. CASE w = v /\ s \in found
      <4>1. s \in Symbols /\ prices'[w][s] = merged[s]
        BY <1>0, <2>5, <3>1
      <4> QED
        BY <2>4, <2>8, <4>1
    <3>2. CASE ~(w = v /\ s \in found)
      <4>1. prices'[w][s] = prices[w][s]
        BY <1>0, <2>5, <3>2
      <4> QED
        BY <1>a, <2>8, <4>1
    <3> QED
      BY <3>1, <3>2
  <2>9. LiveInEveryView'
    BY <1>0, <2>2, <2>7, <2>8 DEF LiveInEveryView, Live!LiveInEveryView
  <2> QED
    BY <1>0, <2>2, <2>6, <2>7, <2>9 DEF LiveInv
<1>4. ASSUME NEW v \in Views, Live!MetricsFail(v)
      PROVE  LiveInv'
  BY <1>0, <1>4, <1>a DEF Live!MetricsFail, LiveInv, LiveInEveryView, Live!LiveInEveryView
<1>5. ASSUME NEW s \in Symbols, NEW p \in Prices, Live!Tick(s, p)
      PROVE  LiveInv'
  <2>1. PICK next : next = [ltp |-> p, prev |-> IF sharedPrices[s] = None THEN None ELSE sharedPrices[s].prev]
    OBVIOUS
  <2>2. next \in Live!Price /\ next # None /\ next.ltp = p /\ p # None
    <3>1. sharedPrices[s] \in Live!Price
      BY <1>0
    <3>2. PICK c : c = IF sharedPrices[s] = None THEN None ELSE sharedPrices[s].prev
      OBVIOUS
    <3>3. c \in Live!Range(PrevClose) \union {None}
      BY <3>1, <3>2, PriceForm
    <3>4. next = [ltp |-> p, prev |-> c]
      BY <2>1, <3>2
    <3>5. next.ltp = p
      BY <3>4
    <3>6. p # None
      BY CockpitPanelsAssumption DEF Live!LivePricesAssumption
    <3> QED
      BY <3>3, <3>4, <3>5, <3>6, PriceForm
  <2>3. /\ sharedPrices' = [sharedPrices EXCEPT ![s] = next]
        /\ prices' = [v \in Views |-> IF listening[v] /\ s \in watched[v]
                                      THEN [prices[v] EXCEPT ![s] = next] ELSE prices[v]]
        /\ lastTick' = [lastTick EXCEPT ![s] = p] /\ UNCHANGED <<watched, listening>>
    BY <1>5, <2>1 DEF Live!Tick
  <2>4. /\ sharedPrices' \in [Symbols -> Live!Price] /\ prices' \in [Views -> [Symbols -> Live!Price]]
        /\ lastTick' \in [Symbols -> Prices \union {None}]
    BY <1>0, <2>2, <2>3
  <2>5. \A r \in Symbols : lastTick'[r] # None => sharedPrices'[r] # None /\ sharedPrices'[r].ltp = lastTick'[r]
    BY <1>0, <2>2, <2>3
  <2>6. ASSUME NEW w \in Views, NEW r \in watched[w], listening[w], lastTick'[r] # None
        PROVE  prices'[w][r] # None /\ prices'[w][r].ltp = lastTick'[r]
    <3>1. CASE r = s
      <4>1. lastTick'[r] = p /\ prices'[w][r] = next
        BY <1>0, <2>3, <2>6, <3>1
      <4> QED
        BY <2>2, <4>1
    <3>2. CASE r # s
      <4>1. lastTick'[r] = lastTick[r] /\ prices'[w][r] = prices[w][r]
        BY <1>0, <2>3, <2>6, <3>2
      <4> QED
        BY <1>a, <2>6, <4>1
    <3> QED
      BY <3>1, <3>2
  <2> QED
    BY <1>0, <2>3, <2>4, <2>5, <2>6 DEF LiveInv, LiveInEveryView, Live!LiveInEveryView
<1>6. CASE Live!StreamError \/ Live!RetryFires \/ UNCHANGED Live!livePricesVars
  BY <1>0, <1>6, <1>a
  DEF Live!StreamError, Live!RetryFires, Live!livePricesVars, LiveInv, LiveInEveryView, Live!LiveInEveryView
<1> QED
  BY <1>1, <1>2, <1>3, <1>4, <1>5, <1>6 DEF Live!Next

\* A step of the cockpit is one of the live prices, or none.
LEMMA LiveStep == [Next]_vars => [Live!Next]_(Live!livePricesVars)
BY DEF Next, vars, LiveSteps, NotesSteps, SettingsSteps, PipelineSteps, liveVars, Live!livePricesVars

(***************************************************************************)
(* useLivePrices: a symbol that has had a tick shows the price of the last *)
(* one in every view that watches it, whether the view was on then or came *)
(* later, and whatever metrics are answered before, between and after the  *)
(* ticks.                                                                  *)
(***************************************************************************)
THEOREM LastTickShown == Spec => []LiveInEveryView
<1>1. Init => LiveInv
  BY LiveInit DEF Init
<1>2. LiveInv /\ [Next]_vars => LiveInv'
  BY LiveNext, LiveStep
<1>3. LiveInv => LiveInEveryView
  BY DEF LiveInv
<1> QED
  BY <1>1, <1>2, <1>3, PTL DEF Spec

-----------------------------------------------------------------------------
(* The heat map.                                                           *)

\* A strict order in which any two members of S are told apart.
StrictTotal(S, R) ==
  /\ \A x \in S : <<x, x>> \notin R
  /\ \A x, y, z \in S : <<x, y>> \in R /\ <<y, z>> \in R => <<x, z>> \in R
  /\ \A x, y \in S : x # y => <<x, y>> \in R \/ <<y, x>> \in R

\* The standard operators are what they are for the panel.
LEMMA SameCardinality == \A S : Live!Cardinality(S) = Cardinality(S)
BY DEF Live!Cardinality, Cardinality

\* The same of finite sets.
LEMMA SameFinite == \A S : Live!IsFiniteSet(S) = IsFiniteSet(S)
BY DEF Live!IsFiniteSet, IsFiniteSet

\* As many stand before a member as its rank says, each rank is taken, and by one.
LEMMA AheadIsRank ==
  ASSUME NEW S, IsFiniteSet(S), NEW R, StrictTotal(S, R)
  PROVE  /\ Cardinality(S) \in Nat
         /\ \A x \in S : Ahead(S, R, x) \in 0 .. Cardinality(S) - 1
         /\ \A x, y \in S : Ahead(S, R, x) < Ahead(S, R, y) <=> <<x, y>> \in R
         /\ \A x, y \in S : Ahead(S, R, x) = Ahead(S, R, y) => x = y
         /\ \A k \in 0 .. Cardinality(S) - 1 : \E x \in S : Ahead(S, R, x) = k
<1> DEFINE Earlier(x) == {y \in S : <<y, x>> \in R}
<1>1. \A x \in S : <<x, x>> \notin R
  BY DEF StrictTotal
<1>2. \A x, y, z \in S : <<x, y>> \in R /\ <<y, z>> \in R => <<x, z>> \in R
  BY DEF StrictTotal
<1>3. \A x, y \in S : x # y => <<x, y>> \in R \/ <<y, x>> \in R
  BY DEF StrictTotal
<1>4. Cardinality(S) \in Nat
  BY FS_CardinalityType
<1>5. ASSUME NEW x \in S
      PROVE  IsFiniteSet(Earlier(x)) /\ Ahead(S, R, x) = Cardinality(Earlier(x)) /\ Ahead(S, R, x) \in 0 .. Cardinality(S) - 1
  <2>1. Earlier(x) \in SUBSET S /\ Earlier(x) # S
    BY <1>1
  <2>2. IsFiniteSet(Earlier(x)) /\ Cardinality(Earlier(x)) <= Cardinality(S) /\ Cardinality(Earlier(x)) # Cardinality(S)
    BY <2>1, FS_Subset
  <2>3. Cardinality(Earlier(x)) \in Nat
    BY <2>2, FS_CardinalityType
  <2> QED
    BY <1>4, <2>2, <2>3 DEF Ahead
<1>6. ASSUME NEW x \in S, NEW y \in S, <<x, y>> \in R
      PROVE  Ahead(S, R, x) < Ahead(S, R, y)
  <2>1. Earlier(x) \union {x} \in SUBSET Earlier(y) /\ x \notin Earlier(x)
    BY <1>1, <1>2, <1>6
  <2>2. Cardinality(Earlier(x) \union {x}) = Cardinality(Earlier(x)) + 1
    BY <1>5, <2>1, FS_AddElement
  <2>3. Cardinality(Earlier(x) \union {x}) <= Cardinality(Earlier(y))
    BY <1>5, <2>1, FS_Subset
  <2>4. Cardinality(Earlier(x)) \in Nat /\ Cardinality(Earlier(y)) \in Nat
    BY <1>5, FS_CardinalityType
  <2>5. Cardinality(Earlier(x)) + 1 <= Cardinality(Earlier(y))
    BY <2>2, <2>3
  <2>6. Ahead(S, R, x) = Cardinality(Earlier(x)) /\ Ahead(S, R, y) = Cardinality(Earlier(y))
    BY <1>5
  <2> HIDE DEF Earlier
  <2> QED
    BY <2>4, <2>5, <2>6
<1>7. \A x \in S : Ahead(S, R, x) \in Nat
  <2> TAKE x \in S
  <2>1. Ahead(S, R, x) \in 0 .. Cardinality(S) - 1
    BY <1>5
  <2> QED
    BY <1>4, <2>1
<1>8. ASSUME NEW x \in S, NEW y \in S
      PROVE  /\ Ahead(S, R, x) < Ahead(S, R, y) <=> <<x, y>> \in R
             /\ Ahead(S, R, x) = Ahead(S, R, y) => x = y
  <2>1. Ahead(S, R, x) \in Nat /\ Ahead(S, R, y) \in Nat
    BY <1>7
  <2>2. CASE x = y
    BY <1>1, <2>1, <2>2
  <2>3. CASE <<x, y>> \in R
    <3>1. Ahead(S, R, x) < Ahead(S, R, y)
      BY <1>6, <2>3
    <3> QED
      BY <2>1, <2>3, <3>1
  <2>4. CASE <<y, x>> \in R
    <3>1. Ahead(S, R, y) < Ahead(S, R, x)
      BY <1>6, <2>4
    <3>2. <<x, y>> \notin R
      BY <1>1, <1>2, <2>4
    <3> QED
      BY <2>1, <3>1, <3>2
  <2> QED
    BY <1>3, <2>2, <2>3, <2>4
<1>9. \A k \in 0 .. Cardinality(S) - 1 : \E x \in S : Ahead(S, R, x) = k
  <2> DEFINE T == 0 .. Cardinality(S) - 1
             f == [x \in S |-> Ahead(S, R, x)]
  <2>1. IsFiniteSet(T) /\ Cardinality(T) = Cardinality(S)
    <3>1. PICK n \in Nat : n = Cardinality(S)
      BY <1>4
    <3>2. IsFiniteSet(0 .. n - 1) /\ Cardinality(0 .. n - 1) = IF 0 > n - 1 THEN 0 ELSE (n - 1) - 0 + 1
      BY FS_Interval
    <3>3. Cardinality(0 .. n - 1) = n
      BY <3>2
    <3> QED
      BY <3>1, <3>2, <3>3
  <2>2. f \in Injection(S, T)
    BY <1>5, <1>8 DEF Injection, IsInjective
  <2>3. f \in Surjection(S, T)
    BY <2>1, <2>2, FS_Injection
  <2> QED
    BY <2>3 DEF Surjection
<1> QED
  BY <1>4, <1>5, <1>8, <1>9

\* How many there are whose rank is less than n.
LEMMA FirstRanks ==
  ASSUME NEW S, IsFiniteSet(S), NEW R, StrictTotal(S, R), NEW n \in Nat
  PROVE  LET taken == {x \in S : Ahead(S, R, x) < n} IN
         /\ IsFiniteSet(taken) /\ Cardinality(taken) <= n
         /\ taken # S => Cardinality(taken) = n
<1> DEFINE taken == {x \in S : Ahead(S, R, x) < n}
           m == IF n < Cardinality(S) THEN n ELSE Cardinality(S)
           T == 0 .. m - 1
           f == [x \in taken |-> Ahead(S, R, x)]
<1>1. /\ Cardinality(S) \in Nat
      /\ \A x \in S : Ahead(S, R, x) \in 0 .. Cardinality(S) - 1
      /\ \A x, y \in S : Ahead(S, R, x) = Ahead(S, R, y) => x = y
      /\ \A k \in 0 .. Cardinality(S) - 1 : \E x \in S : Ahead(S, R, x) = k
  BY AheadIsRank
<1>2. m \in Nat /\ m <= n
  BY <1>1
<1>3. IsFiniteSet(T) /\ Cardinality(T) = m
  <2> HIDE DEF m
  <2> QED
    BY <1>2, FS_Interval
<1>4. IsFiniteSet(taken)
  BY FS_Subset
<1>5. \A x \in taken : Ahead(S, R, x) \in T
  BY <1>1
<1>6. \A k \in T : \E x \in taken : Ahead(S, R, x) = k
  BY <1>1
<1>7. f \in Bijection(taken, T)
  <2> HIDE DEF T, taken
  <2>1. f \in [taken -> T]
    BY <1>5
  <2>2. \A x, y \in taken : f[x] = f[y] => x = y
    BY <1>1 DEF taken
  <2>3. \A k \in T : \E x \in taken : f[x] = k
    BY <1>6
  <2> QED
    BY <2>1, <2>2, <2>3 DEF Bijection, Injection, Surjection, IsInjective
<1>8. Cardinality(taken) = m
  <2> HIDE DEF T, taken, f
  <2> QED
    BY <1>3, <1>4, <1>7, FS_Bijection DEF ExistsBijection
<1>9. taken # S => n < Cardinality(S)
  BY <1>1
<1> QED
  BY <1>2, <1>4, <1>8, <1>9

\* A function of finitely many values has finitely many results.
LEMMA ImageIsFinite ==
  ASSUME NEW f, IsFiniteSet(DOMAIN f)
  PROVE  IsFiniteSet({f[x] : x \in DOMAIN f})
<1> DEFINE g == [x \in DOMAIN f |-> f[x]]
<1>1. g \in Surjection(DOMAIN f, {f[x] : x \in DOMAIN f})
  BY DEF Surjection
<1> QED
  BY <1>1, FS_Surjection

\* A change is a whole number of basis points.
LEMMA PctIsInt ==
  \A price \in Int, prev \in Nat : prev # 0 => Live!PctOf(price, prev) \in Int
BY DEF Live!PctOf

\* The entry of a signal is of its symbol, and its change a number or missing.
LEMMA HeatEntryIs ==
  ASSUME LiveInv, NEW v \in Views, NEW s \in Live!Range(Signals)
  PROVE  LET e == Live!HeatEntry(s, Metrics[s.symbol], Live!LiveOf(v)[s.symbol]) IN
         e.symbol = s.symbol /\ e.chg \in Int \union {None}
<1> DEFINE m == Metrics[s.symbol]
           p == Live!LiveOf(v)[s.symbol]
           Of(r, field) == IF r = None THEN None ELSE r[field]
           price == Live!OrElse(Of(p, "ltp"), Live!OrElse(Of(m, "current"), Live!OrElse(Of(m, "day_close"), s.price)))
           prev  == Live!OrElse(Of(p, "prev"), Of(m, "prev"))
           chg == IF price # None /\ prev \notin {None, 0} THEN Live!PctOf(price, prev) ELSE Of(m, "chg")
<1>1. s.symbol \in DOMAIN Metrics /\ s.price \in Int \union {None}
  BY CockpitPanelsAssumption DEF Live!LivePricesAssumption
<1>2. m = None \/ (/\ m.current \in Int \union {None} /\ m.day_close \in Int \union {None}
                   /\ m.chg \in Int \union {None} /\ m.prev \in Nat \union {None})
  BY <1>1, CockpitPanelsAssumption DEF Live!LivePricesAssumption
<1>3. p = None \/ (p.ltp \in Int \union {None} /\ p.prev \in Nat \union {None})
  <2>1. p \in Live!Price
    <3>1. None \in Live!Price
      BY DEF Live!Price
    <3>2. \A x \in Symbols : prices[v][x] \in Live!Price
      BY DEF LiveInv
    <3> QED
      BY <1>1, <3>1, <3>2 DEF Live!LiveOf
  <2>2. Prices \subseteq Int /\ Live!Range(PrevClose) \subseteq Nat \union {None}
    BY CockpitPanelsAssumption DEF Live!LivePricesAssumption
  <2> QED
    BY <2>1, <2>2, PriceForm
<1> HIDE DEF m, p
<1>4. price \in Int \union {None}
  BY <1>1, <1>2, <1>3 DEF Live!OrElse
<1>5. prev \in Nat \union {None}
  BY <1>2, <1>3 DEF Live!OrElse
<1>6. Of(m, "chg") \in Int \union {None}
  BY <1>2
<1>7. Live!HeatEntry(s, m, p).symbol = s.symbol /\ Live!HeatEntry(s, m, p).chg = chg
  BY DEF Live!HeatEntry
<1>8. chg \in Int \union {None}
  <2> HIDE DEF price, prev
  <2> QED
    BY <1>4, <1>5, <1>6, PctIsInt
<1> QED
  BY <1>7, <1>8 DEF m, p

\* The heat map is drawn of finitely many entries, one for a symbol.
HeatSet(pool) ==
  /\ IsFiniteSet(pool)
  /\ \A e \in pool : e.chg \in Int \union {None} /\ e.symbol \in Int
  /\ \A a, b \in pool : a.symbol = b.symbol => a = b

\* Without signals the entries are of the symbols whose metrics are known.
LEMMA CachedHeat ==
  ASSUME Signals = <<>>, NEW v \in Views
  PROVE  HeatSet(Live!HeatOf(v))
<1> DEFINE Known == {s \in DOMAIN Metrics : Metrics[s] # None}
           f == [s \in Known |-> Live!CachedEntry(s, Metrics[s])]
<1>1. IsFiniteSet(Known)
  <2>1. IsFiniteSet(DOMAIN Metrics)
    BY CockpitPanelsAssumption, SameFinite DEF Live!LivePricesAssumption
  <2> QED
    BY <2>1, FS_Subset
<1>2. Live!HeatOf(v) = {f[s] : s \in DOMAIN f}
  BY DEF Live!HeatOf, Live!HeatEntries
<1>3. IsFiniteSet(Live!HeatOf(v))
  <2> HIDE DEF Known
  <2>1. DOMAIN f = Known
    OBVIOUS
  <2> HIDE DEF f
  <2> QED
    BY <1>1, <1>2, <2>1, ImageIsFinite
<1>4. ASSUME NEW s \in Known
      PROVE  f[s].symbol = s /\ s \in Int /\ f[s].chg \in Int \union {None}
  <2>1. s \in Int /\ Metrics[s].chg \in Int \union {None}
    BY CockpitPanelsAssumption DEF Live!LivePricesAssumption
  <2>2. f[s].symbol = s /\ f[s].chg = Metrics[s].chg
    BY DEF Live!CachedEntry
  <2> QED
    BY <2>1, <2>2
<1>5. \A e \in Live!HeatOf(v) : \E s \in Known : e = f[s]
  BY <1>2
<1> HIDE DEF f, Known
<1> QED
  BY <1>3, <1>4, <1>5 DEF HeatSet

\* With signals the entries are of the newest signal of each symbol.
LEMMA ListedHeat ==
  ASSUME LiveInv, Signals # <<>>, NEW v \in Views
  PROVE  HeatSet(Live!HeatOf(v))
<1> DEFINE Newest == {n \in DOMAIN Signals : \A k \in 1 .. n - 1 : Signals[k].symbol # Signals[n].symbol}
           Entry(s) == Live!HeatEntry(s, Metrics[s.symbol], Live!LiveOf(v)[s.symbol])
           f == [n \in Newest |-> Entry(Signals[n])]
<1>1. Signals \in Seq(Live!Range(Signals)) /\ \A s \in Live!Range(Signals) : s.symbol \in DOMAIN Metrics
  BY CockpitPanelsAssumption DEF Live!LivePricesAssumption
<1>2. DOMAIN Signals = 1 .. Len(Signals) /\ Len(Signals) \in Nat
  BY <1>1
<1>3. IsFiniteSet(Newest)
  <2>1. Newest \in SUBSET (1 .. Len(Signals)) /\ IsFiniteSet(1 .. Len(Signals))
    BY <1>2, FS_Interval
  <2> HIDE DEF Newest
  <2> QED
    BY <2>1, FS_Subset
<1>4. Live!HeatOf(v) = {f[n] : n \in DOMAIN f}
  <2>1. Live!HeatOf(v) = {Entry(s) : s \in Live!LatestBySymbol(Signals)}
    BY DEF Live!HeatOf, Live!HeatEntries
  <2>2. Live!LatestBySymbol(Signals) = {Signals[n] : n \in Newest}
    BY DEF Live!LatestBySymbol
  <2> HIDE DEF Entry, Newest
  <2> QED
    BY <2>1, <2>2
<1>5. IsFiniteSet(Live!HeatOf(v))
  <2> HIDE DEF Newest, Entry
  <2>1. DOMAIN f = Newest
    OBVIOUS
  <2> HIDE DEF f
  <2> QED
    BY <1>3, <1>4, <2>1, ImageIsFinite
<1>6. ASSUME NEW n \in Newest
      PROVE  f[n].symbol = Signals[n].symbol /\ f[n].symbol \in Int /\ f[n].chg \in Int \union {None}
  <2>1. Signals[n] \in Live!Range(Signals)
    BY <1>2 DEF Live!Range
  <2>2. Entry(Signals[n]).symbol = Signals[n].symbol /\ Entry(Signals[n]).chg \in Int \union {None}
    BY <2>1, HeatEntryIs
  <2>3. Signals[n].symbol \in Int
    BY <1>1, <2>1, CockpitPanelsAssumption DEF Live!LivePricesAssumption
  <2>4. f[n] = Entry(Signals[n])
    OBVIOUS
  <2> QED
    BY <2>2, <2>3, <2>4
<1>7. \A i, j \in Newest : Signals[i].symbol = Signals[j].symbol => i = j
  BY <1>2
<1>8. \A e \in Live!HeatOf(v) : \E n \in Newest : e = f[n]
  BY <1>4
<1> HIDE DEF f, Newest
<1> QED
  BY <1>5, <1>6, <1>7, <1>8 DEF HeatSet

\* Who moved more, and of two that moved as much whose symbol comes first.
LEMMA MovesMoreIsTotal ==
  ASSUME NEW pool, HeatSet(pool)
  PROVE  StrictTotal(pool, {p \in pool \X pool : Live!MovesMore(p[1], p[2])})
<1> DEFINE R == {p \in pool \X pool : Live!MovesMore(p[1], p[2])}
<1>1. \A e \in pool : Live!Move(e) \in Int /\ e.symbol \in Int
  BY DEF Live!Move, HeatSet
<1>2. \A a, b \in pool : <<a, b>> \in R <=>
        Live!Move(a) > Live!Move(b) \/ (Live!Move(a) = Live!Move(b) /\ a.symbol < b.symbol)
  BY DEF Live!MovesMore
<1>3. \A a, b \in pool : a.symbol = b.symbol => a = b
  BY DEF HeatSet
<1> HIDE DEF R
<1>4. StrictTotal(pool, R)
  BY <1>1, <1>2, <1>3 DEF StrictTotal
<1> QED
  BY <1>4 DEF R

\* The first n of some entries are at most n; where they are not all of them they
\* are n, and none of the others moved more.
LEMMA FirstOfMoves ==
  ASSUME NEW pool, HeatSet(pool), NEW n \in Nat
  PROVE  LET first == Live!FirstOf(pool, n) IN
         /\ first \subseteq pool /\ IsFiniteSet(first) /\ Cardinality(first) <= n
         /\ \A e \in pool \ first : /\ Cardinality(first) = n
                                       /\ \A x \in first : Live!Move(x) >= Live!Move(e)
<1> DEFINE R == {p \in pool \X pool : Live!MovesMore(p[1], p[2])}
           first == {e \in pool : Ahead(pool, R, e) < n}
<1>1. Live!FirstOf(pool, n) = first
  BY SameCardinality DEF Live!FirstOf, Live!Ahead, Ahead
<1>2. IsFiniteSet(pool) /\ StrictTotal(pool, R)
  BY MovesMoreIsTotal DEF HeatSet
<1>3. \A x, y \in pool : <<x, y>> \in R => Live!Move(x) >= Live!Move(y)
  BY DEF Live!MovesMore, Live!Move, HeatSet
<1> HIDE DEF R
<1>4. IsFiniteSet(first) /\ Cardinality(first) <= n /\ (first # pool => Cardinality(first) = n)
  BY <1>2, FirstRanks
<1>5. ASSUME NEW e \in pool \ first, NEW x \in first
      PROVE  Live!Move(x) >= Live!Move(e)
  <2>1. /\ Cardinality(pool) \in Nat
        /\ \A y \in pool : Ahead(pool, R, y) \in 0 .. Cardinality(pool) - 1
        /\ \A y, z \in pool : Ahead(pool, R, y) < Ahead(pool, R, z) <=> <<y, z>> \in R
    BY <1>2, AheadIsRank
  <2>2. Ahead(pool, R, x) < n /\ ~(Ahead(pool, R, e) < n)
    OBVIOUS
  <2>3. Ahead(pool, R, x) < Ahead(pool, R, e)
    BY <2>1, <2>2
  <2> QED
    BY <1>3, <2>1, <2>3
<1> HIDE DEF first
<1> QED
  BY <1>1, <1>4, <1>5 DEF first

\* A part of the entries is drawn alike.
LEMMA PartOfHeat ==
  ASSUME NEW pool, HeatSet(pool), NEW part \in SUBSET pool
  PROVE  HeatSet(part)
BY FS_Subset DEF HeatSet

\* What stays of a finite set counts what is taken away.
LEMMA CountsAddUp ==
  ASSUME NEW S, IsFiniteSet(S), NEW A \in SUBSET S, NEW B \in SUBSET S, A \intersect B = {}
  PROVE  Cardinality(A) + Cardinality(B) + Cardinality(S \ (A \union B)) = Cardinality(S)
<1>1. IsFiniteSet(A) /\ IsFiniteSet(B) /\ IsFiniteSet(A \union B) /\ IsFiniteSet(S \ (A \union B))
  BY FS_Subset
<1>2. /\ Cardinality(A) \in Nat /\ Cardinality(B) \in Nat /\ Cardinality(A \union B) \in Nat
      /\ Cardinality(S \ (A \union B)) \in Nat
  BY <1>1, FS_CardinalityType
<1>3. Cardinality(A \union B) = Cardinality(A) + Cardinality(B)
  <2>1. Cardinality(A \union B) = Cardinality(A) + Cardinality(B) - Cardinality(A \intersect B)
    BY <1>1, FS_Union
  <2>2. Cardinality(A \intersect B) = 0
    BY FS_EmptySet
  <2> QED
    BY <1>2, <2>1, <2>2
<1>4. Cardinality(S) = Cardinality(A \union B) + Cardinality(S \ (A \union B))
  <2>1. S = (A \union B) \union (S \ (A \union B)) /\ (A \union B) \intersect (S \ (A \union B)) = {}
    OBVIOUS
  <2>2. PICK U, V : U = A \union B /\ V = S \ (A \union B)
    OBVIOUS
  <2>3. Cardinality(U \union V) = Cardinality(U) + Cardinality(V) - Cardinality(U \intersect V)
    BY <1>1, <2>2, FS_Union
  <2>4. Cardinality(U \intersect V) = 0
    BY <2>2, FS_EmptySet
  <2>5. Cardinality(U \union V) = Cardinality(S)
    BY <2>1, <2>2
  <2>6. Cardinality(U) \in Nat /\ Cardinality(V) \in Nat
    BY <1>2, <2>2
  <2>7. Cardinality(S) = Cardinality(U) + Cardinality(V)
    BY <2>3, <2>4, <2>5, <2>6
  <2> QED
    BY <2>2, <2>7
<1> QED
  BY <1>2, <1>3, <1>4

\* The liquid movers shown of each side are at most as many as the limit; where one
\* is left out they are as many, and none of them moved less.
LEMMA ShownMovers ==
  ASSUME NEW pool, HeatSet(pool)
  PROVE  LET shown == Live!TopLiquidMovers(pool)
             Same(a, b) == (a.chg > 0) = (b.chg > 0)
         IN /\ IsFiniteSet(shown)
            /\ \A e \in shown : e \in pool /\ e.adv >= MinAdv /\ e.chg \notin {None, 0} /\ e.chg \in Int
            /\ \A e \in pool \ shown : e.adv >= MinAdv /\ e.chg \notin {None, 0} =>
                 /\ Cardinality({x \in shown : Same(x, e)}) = PerSide
                 /\ \A x \in shown : Same(x, e) => Live!Move(x) >= Live!Move(e)
            /\ \A e \in shown : Cardinality({x \in shown : Same(x, e)}) <= PerSide
<1> DEFINE shown == Live!TopLiquidMovers(pool)
           Same(a, b) == (a.chg > 0) = (b.chg > 0)
           liquid == {e \in pool : e.chg # None /\ e.adv >= MinAdv}
           ups   == {e \in liquid : e.chg > 0}
           downs == {e \in liquid : e.chg < 0}
           up   == Live!FirstOf(ups, PerSide)
           down == Live!FirstOf(downs, PerSide)
<1>0. PerSide \in Nat
  BY CockpitPanelsAssumption DEF Live!LivePricesAssumption
<1>1. \A e \in pool : e.chg \in Int \union {None}
  BY DEF HeatSet
<1>2. shown = up \union down
  BY DEF Live!TopLiquidMovers
<1>3. HeatSet(ups) /\ HeatSet(downs)
  BY PartOfHeat
<1>4. /\ \A e \in ups : e \in pool /\ e.adv >= MinAdv /\ e.chg # None /\ e.chg \in Int /\ e.chg > 0
      /\ \A e \in downs : e \in pool /\ e.adv >= MinAdv /\ e.chg # None /\ e.chg \in Int /\ e.chg < 0
      /\ \A e \in pool : e.adv >= MinAdv /\ e.chg \notin {None, 0} => e \in ups \/ e \in downs
  BY <1>1
<1> HIDE DEF liquid, ups, downs
<1>5. /\ up \subseteq ups /\ IsFiniteSet(up) /\ Cardinality(up) <= PerSide
      /\ \A e \in ups \ up : Cardinality(up) = PerSide /\ \A x \in up : Live!Move(x) >= Live!Move(e)
  BY <1>0, <1>3, FirstOfMoves
<1>6. /\ down \subseteq downs /\ IsFiniteSet(down) /\ Cardinality(down) <= PerSide
      /\ \A e \in downs \ down : Cardinality(down) = PerSide /\ \A x \in down : Live!Move(x) >= Live!Move(e)
  BY <1>0, <1>3, FirstOfMoves
<1> HIDE DEF shown, up, down
<1>7. /\ \A e \in ups : {x \in shown : Same(x, e)} = up
      /\ \A e \in downs : {x \in shown : Same(x, e)} = down
  BY <1>2, <1>4, <1>5, <1>6
<1>8. IsFiniteSet(shown)
  BY <1>2, <1>5, <1>6, FS_Union
<1>9. \A e \in shown : e \in pool /\ e.adv >= MinAdv /\ e.chg \notin {None, 0} /\ e.chg \in Int
  BY <1>2, <1>4, <1>5, <1>6
<1>10. ASSUME NEW e \in pool \ shown, e.adv >= MinAdv /\ e.chg \notin {None, 0}
       PROVE  /\ Cardinality({x \in shown : Same(x, e)}) = PerSide
              /\ \A x \in shown : Same(x, e) => Live!Move(x) >= Live!Move(e)
  <2>1. e \in ups \ up \/ e \in downs \ down
    BY <1>2, <1>4, <1>10
  <2>2. PICK T : T = {x \in shown : Same(x, e)}
    OBVIOUS
  <2>3. Cardinality(T) = PerSide /\ \A x \in T : Live!Move(x) >= Live!Move(e)
    BY <1>5, <1>6, <1>7, <2>1, <2>2
  <2> QED
    BY <2>2, <2>3
<1>11. ASSUME NEW e \in shown
       PROVE  Cardinality({x \in shown : Same(x, e)}) <= PerSide
  BY <1>2, <1>5, <1>6, <1>7
<1> HIDE DEF Same
<1> QED
  BY <1>8, <1>9, <1>10, <1>11 DEF shown, Same

(***************************************************************************)
(* LiveHeatMapView: whatever the metrics, the signals and the live prices, *)
(* the heat map draws at most HEATMAP_TOP_PER_SIDE liquid movers per side, *)
(* leaves out none for a smaller one, and counts each of them once.        *)
(***************************************************************************)
THEOREM TopMoversShown == Spec => []TopMovers
<1>1. Init => LiveInv
  BY LiveInit DEF Init
<1>2. LiveInv /\ [Next]_vars => LiveInv'
  BY LiveNext, LiveStep
<1>3. LiveInv => TopMovers
  <2> SUFFICES ASSUME LiveInv, NEW v \in Views
               PROVE  LET shown == Live!VisibleEntries(v)
                          Same(a, b) == (a.chg > 0) = (b.chg > 0)
                          stats == Live!HeatStats(shown)
                      IN /\ \A e \in shown : e \in Live!HeatOf(v) /\ e.adv >= MinAdv /\ e.chg \notin {None, 0}
                         /\ \A e \in Live!HeatOf(v) \ shown : e.adv >= MinAdv /\ e.chg \notin {None, 0} =>
                              /\ Cardinality({x \in shown : Same(x, e)}) = PerSide
                              /\ \A x \in shown : Same(x, e) => Live!Move(x) >= Live!Move(e)
                         /\ \A e \in shown : Cardinality({x \in shown : Same(x, e)}) <= PerSide
                         /\ stats.gainers + stats.losers + stats.flat = Cardinality(shown)
    BY SameCardinality DEF TopMovers, Live!TopMovers
  <2>1. HeatSet(Live!HeatOf(v))
    BY CachedHeat, ListedHeat
  <2>2. PICK pool : pool = Live!HeatOf(v)
    OBVIOUS
  <2>3. PICK shown : shown = Live!TopLiquidMovers(pool)
    OBVIOUS
  <2>4. Live!VisibleEntries(v) = shown
    BY <2>2, <2>3 DEF Live!VisibleEntries
  <2>5. LET Same(a, b) == (a.chg > 0) = (b.chg > 0) IN
        /\ IsFiniteSet(shown)
        /\ \A e \in shown : e \in pool /\ e.adv >= MinAdv /\ e.chg \notin {None, 0} /\ e.chg \in Int
        /\ \A e \in pool \ shown : e.adv >= MinAdv /\ e.chg \notin {None, 0} =>
             /\ Cardinality({x \in shown : Same(x, e)}) = PerSide
             /\ \A x \in shown : Same(x, e) => Live!Move(x) >= Live!Move(e)
        /\ \A e \in shown : Cardinality({x \in shown : Same(x, e)}) <= PerSide
    BY <2>1, <2>2, <2>3, ShownMovers
  <2>6. LET stats == Live!HeatStats(shown) IN stats.gainers + stats.losers + stats.flat = Cardinality(shown)
    <3> DEFINE gainers == {e \in shown : e.chg > 50}
               losers  == {e \in shown : e.chg < -50}
    <3>1. gainers \intersect losers = {}
      BY <2>5
    <3>2. Cardinality(gainers) + Cardinality(losers) + Cardinality(shown \ (gainers \union losers)) = Cardinality(shown)
      BY <2>5, <3>1, CountsAddUp
    <3> QED
      BY <3>2, SameCardinality DEF Live!HeatStats
  <2> QED
    BY <2>2, <2>4, <2>5, <2>6
<1> QED
  BY <1>1, <1>2, <1>3, PTL DEF Spec

-----------------------------------------------------------------------------
(* The notes.                                                              *)

\* A list of different notes among the first so many that were written.
NoteList(list, top) ==
  /\ list \in Seq(Nat)
  /\ \A i, j \in 1 .. Len(list) : list[i] = list[j] => i = j
  /\ \A i \in 1 .. Len(list) : list[i] <= top

DraftOK(d, top) ==
  d # None => /\ d = [name |-> d.name, text |-> d.text]
              /\ d.name \in Notes!Names /\ d.text \in (0 .. top) \union {None}

\* Nothing is stored, shown or drafted that was not written.
NotesInv ==
  /\ written \in Nat
  /\ DOMAIN notes = Notes!Names /\ DOMAIN alive = Notes!Names
  /\ DOMAIN entries = Pages /\ DOMAIN draft = Pages
  /\ \A n \in Notes!Names : NoteList(notes[n], written)
  /\ \A p \in Pages : /\ DOMAIN entries[p] = Notes!Names
                      /\ \A n \in Notes!Names : NoteList(entries[p][n], written)
                      /\ DraftOK(draft[p], written)
  /\ NotesKept

\* The members of a list, by their places.
LEMMA InSet ==
  ASSUME NEW S, NEW s \in Seq(S)
  PROVE  \A x : x \in Notes!ToSet(s) <=> \E k \in 1 .. Len(s) : s[k] = x
BY LenProperties DEF Notes!ToSet

\* A list without one of its places.
LEMMA RemoveAtIs ==
  ASSUME NEW S, NEW s \in Seq(S), NEW i \in 1 .. Len(s)
  PROVE  /\ Notes!RemoveAt(s, i) \in Seq(S) /\ Len(Notes!RemoveAt(s, i)) = Len(s) - 1
         /\ \A k \in 1 .. Len(s) - 1 : Notes!RemoveAt(s, i)[k] = IF k < i THEN s[k] ELSE s[k + 1]
<1>1. Len(s) \in Nat /\ \A k \in 1 .. Len(s) : s[k] \in S
  BY LenProperties, ElementOfSeq
<1> DEFINE n == Len(s)
           low == SubSeq(s, 1, i - 1)
           high == SubSeq(s, i + 1, n)
<1>2. /\ low \in Seq(S) /\ Len(low) = i - 1
      /\ \A k \in 1 .. i - 1 : low[k] = s[k]
  <2>1. \A k \in 1 .. i - 1 : s[k] \in S
    BY <1>1
  <2>2. /\ low \in Seq(S) /\ Len(low) = IF 1 <= i - 1 THEN i - 1 - 1 + 1 ELSE 0
        /\ \A k \in 1 .. i - 1 - 1 + 1 : low[k] = s[1 + k - 1]
    BY <1>1, <2>1, SubSeqProperties
  <2> HIDE DEF low
  <2>3. Len(low) = i - 1
    BY <1>1, <2>2
  <2>4. ASSUME NEW k \in 1 .. i - 1
        PROVE  low[k] = s[k]
    BY <1>1, <2>2
  <2> QED
    BY <2>2, <2>3, <2>4
<1>3. /\ high \in Seq(S) /\ Len(high) = n - i
      /\ \A k \in 1 .. n - i : high[k] = s[i + k]
  <2>1. \A k \in i + 1 .. n : s[k] \in S
    BY <1>1
  <2>2. /\ high \in Seq(S) /\ Len(high) = IF i + 1 <= n THEN n - (i + 1) + 1 ELSE 0
        /\ \A k \in 1 .. n - (i + 1) + 1 : high[k] = s[i + 1 + k - 1]
    BY <1>1, <2>1, SubSeqProperties
  <2> HIDE DEF high
  <2>3. Len(high) = n - i
    BY <1>1, <2>2
  <2>4. ASSUME NEW k \in 1 .. n - i
        PROVE  high[k] = s[i + k]
    BY <1>1, <2>2
  <2> QED
    BY <2>2, <2>3, <2>4
<1> HIDE DEF low, high
<1>4. /\ low \o high \in Seq(S) /\ Len(low \o high) = n - 1
      /\ \A k \in 1 .. n - 1 : (low \o high)[k] = IF k <= i - 1 THEN low[k] ELSE high[k - (i - 1)]
  <2>1. /\ low \o high \in Seq(S) /\ Len(low \o high) = Len(low) + Len(high)
        /\ \A k \in 1 .. Len(low) + Len(high) :
             (low \o high)[k] = IF k <= Len(low) THEN low[k] ELSE high[k - Len(low)]
    BY <1>2, <1>3, ConcatProperties
  <2>2. n \in Nat /\ i \in Int /\ i - 1 + (n - i) = n - 1
    BY <1>1
  <2>3. Len(low) + Len(high) = n - 1
    BY <1>2, <1>3, <2>2
  <2> QED
    BY <1>2, <2>1, <2>3
<1>5. Notes!RemoveAt(s, i) = low \o high
  BY DEF Notes!RemoveAt, low, high, n
<1>6. ASSUME NEW k \in 1 .. n - 1
      PROVE  (low \o high)[k] = IF k < i THEN s[k] ELSE s[k + 1]
  <2>1. CASE k < i
    BY <1>1, <1>2, <1>4, <2>1
  <2>2. CASE ~(k < i)
    <3>1. k - (i - 1) \in 1 .. n - i /\ i + (k - (i - 1)) = k + 1
      BY <1>1, <2>2
    <3>2. (low \o high)[k] = high[k - (i - 1)]
      <4>1. ~(k <= i - 1)
        BY <1>1, <2>2
      <4> QED
        BY <1>4, <4>1
    <3>3. high[k - (i - 1)] = s[i + (k - (i - 1))]
      BY <1>3, <3>1
    <3> QED
      BY <2>2, <3>1, <3>2, <3>3
  <2> QED
    BY <2>1, <2>2
<1> QED
  BY <1>1, <1>4, <1>5, <1>6

\* A note deleted leaves the list, and no other does.
LEMMA RemoveOne ==
  ASSUME NEW top \in Nat, NEW s, NoteList(s, top), NEW i \in 1 .. Len(s)
  PROVE  /\ NoteList(Notes!RemoveAt(s, i), top)
         /\ Notes!ToSet(Notes!RemoveAt(s, i)) = Notes!ToSet(s) \ {s[i]}
<1>1. PICK r : r = Notes!RemoveAt(s, i)
  OBVIOUS
<1>2. s \in Seq(Nat) /\ Len(s) \in Nat
  BY DEF NoteList
<1>3. /\ r \in Seq(Nat) /\ Len(r) = Len(s) - 1
      /\ \A k \in 1 .. Len(s) - 1 : r[k] = IF k < i THEN s[k] ELSE s[k + 1]
  BY <1>1, <1>2, RemoveAtIs
<1>4. ASSUME NEW k \in 1 .. Len(r)
      PROVE  \E m \in 1 .. Len(s) : m # i /\ r[k] = s[m] /\ m = IF k < i THEN k ELSE k + 1
  <2>1. k \in 1 .. Len(s) - 1 /\ k \in 1 .. Len(s) /\ k + 1 \in 1 .. Len(s)
    <3>1. k \in 1 .. Len(s) - 1
      BY <1>3
    <3> HIDE DEF NoteList
    <3> QED
      BY <1>2, <3>1
  <2>2. r[k] = IF k < i THEN s[k] ELSE s[k + 1]
    BY <1>3, <2>1
  <2>3. k < i => k # i
    BY <2>1
  <2>4. ~(k < i) => k + 1 # i
    BY <2>1
  <2> QED
    BY <2>1, <2>2, <2>3, <2>4
<1>5. ASSUME NEW j \in 1 .. Len(r), NEW k \in 1 .. Len(r), r[j] = r[k]
      PROVE  j = k
  <2>1. PICK a \in 1 .. Len(s) : r[j] = s[a] /\ a = IF j < i THEN j ELSE j + 1
    BY <1>4
  <2>2. PICK b \in 1 .. Len(s) : r[k] = s[b] /\ b = IF k < i THEN k ELSE k + 1
    BY <1>4
  <2>3. a = b
    BY <1>5, <2>1, <2>2 DEF NoteList
  <2>4. j \in Int /\ k \in Int /\ i \in Int
    OBVIOUS
  <2> QED
    BY <2>1, <2>2, <2>3, <2>4
<1>6. \A k \in 1 .. Len(r) : r[k] <= top
  BY <1>4 DEF NoteList
<1>7. ASSUME NEW m \in 1 .. Len(s), m # i
      PROVE  \E k \in 1 .. Len(r) : r[k] = s[m]
  <2>1. CASE m < i
    <3>1. m \in 1 .. Len(s) - 1
      BY <1>2, <2>1
    <3>2. r[m] = s[m] /\ m \in 1 .. Len(r)
      BY <1>3, <2>1, <3>1
    <3> QED
      BY <3>2
  <2>2. CASE m > i
    <3>1. m - 1 \in 1 .. Len(r) /\ ~(m - 1 < i) /\ m - 1 + 1 = m
      BY <1>2, <1>3, <2>2
    <3>2. r[m - 1] = s[m]
      BY <1>3, <3>1
    <3> QED
      BY <3>1, <3>2
  <2> QED
    BY <1>2, <1>7, <2>1, <2>2
<1>8. /\ \A x : x \in Notes!ToSet(r) <=> \E k \in 1 .. Len(r) : r[k] = x
      /\ \A x : x \in Notes!ToSet(s) <=> \E k \in 1 .. Len(s) : s[k] = x
  BY <1>2, <1>3, InSet
<1>9. \A x : x \in Notes!ToSet(r) <=> x \in Notes!ToSet(s) /\ x # s[i]
  <2>1. ASSUME NEW x \in Notes!ToSet(r)
        PROVE  x \in Notes!ToSet(s) /\ x # s[i]
    <3>1. PICK k \in 1 .. Len(r) : r[k] = x
      BY <1>8, <2>1
    <3>2. PICK m \in 1 .. Len(s) : m # i /\ r[k] = s[m]
      BY <1>4
    <3> QED
      BY <1>8, <3>1, <3>2 DEF NoteList
  <2>2. ASSUME NEW x \in Notes!ToSet(s), x # s[i]
        PROVE  x \in Notes!ToSet(r)
    <3>1. PICK m \in 1 .. Len(s) : s[m] = x
      BY <1>8, <2>2
    <3> QED
      BY <1>7, <1>8, <2>2, <3>1
  <2> QED
    BY <2>1, <2>2
<1>10. Notes!ToSet(r) = Notes!ToSet(s) \ {s[i]}
  BY <1>9
<1> QED
  BY <1>1, <1>3, <1>5, <1>6, <1>10 DEF NoteList

\* A note written now is new to every list.
LEMMA AddOne ==
  ASSUME NEW top \in Nat, NEW s, NoteList(s, top)
  PROVE  /\ NoteList(<<top + 1>> \o s, top + 1)
         /\ Notes!ToSet(<<top + 1>> \o s) = Notes!ToSet(s) \union {top + 1}
<1>1. PICK r : r = <<top + 1>> \o s
  OBVIOUS
<1>2. s \in Seq(Nat) /\ Len(s) \in Nat /\ \A k \in 1 .. Len(s) : s[k] \in Nat /\ s[k] <= top
  BY DEF NoteList
<1>3. /\ r \in Seq(Nat) /\ Len(r) = Len(s) + 1 /\ r[1] = top + 1
      /\ \A k \in 1 .. Len(s) : r[k + 1] = s[k]
  BY <1>1, <1>2
<1>4. \A k \in 1 .. Len(r) : k # 1 => k - 1 \in 1 .. Len(s) /\ r[k] = s[k - 1]
  <2> SUFFICES ASSUME NEW k \in 1 .. Len(r), k # 1
               PROVE  k - 1 \in 1 .. Len(s) /\ r[k] = s[k - 1]
    OBVIOUS
  <2>1. k - 1 \in 1 .. Len(s) /\ k - 1 + 1 = k
    BY <1>2, <1>3
  <2> QED
    BY <1>3, <2>1
<1>5. ASSUME NEW j \in 1 .. Len(r), NEW k \in 1 .. Len(r), r[j] = r[k]
      PROVE  j = k
  <2>1. CASE j = 1 \/ k = 1
    <3>1. \A m \in 1 .. Len(r) : m # 1 => r[m] # top + 1
      <4> SUFFICES ASSUME NEW m \in 1 .. Len(r), m # 1 PROVE r[m] # top + 1
        OBVIOUS
      <4>1. m - 1 \in 1 .. Len(s) /\ r[m] = s[m - 1]
        BY <1>4
      <4>2. s[m - 1] \in Nat /\ s[m - 1] <= top
        BY <1>2, <4>1
      <4> QED
        BY <4>1, <4>2
    <3> QED
      BY <1>3, <1>5, <2>1, <3>1
  <2>2. CASE j # 1 /\ k # 1
    <3>1. j - 1 \in 1 .. Len(s) /\ k - 1 \in 1 .. Len(s) /\ s[j - 1] = s[k - 1]
      BY <1>4, <1>5, <2>2
    <3>2. j - 1 = k - 1
      BY <3>1 DEF NoteList
    <3> QED
      BY <3>2
  <2> QED
    BY <2>1, <2>2
<1>6. \A k \in 1 .. Len(r) : r[k] <= top + 1
  <2> SUFFICES ASSUME NEW k \in 1 .. Len(r) PROVE r[k] <= top + 1
    OBVIOUS
  <2>1. CASE k = 1
    BY <1>3, <2>1
  <2>2. CASE k # 1
    <3>1. k - 1 \in 1 .. Len(s) /\ r[k] = s[k - 1]
      BY <1>4, <2>2
    <3>2. s[k - 1] \in Nat /\ s[k - 1] <= top
      BY <1>2, <3>1
    <3> QED
      BY <3>1, <3>2
  <2> QED
    BY <2>1, <2>2
<1>7. /\ \A x : x \in Notes!ToSet(r) <=> \E k \in 1 .. Len(r) : r[k] = x
      /\ \A x : x \in Notes!ToSet(s) <=> \E k \in 1 .. Len(s) : s[k] = x
  BY <1>2, <1>3, InSet
<1>8. \A x \in Notes!ToSet(r) : x \in Notes!ToSet(s) \union {top + 1}
  <2> SUFFICES ASSUME NEW k \in 1 .. Len(r) PROVE r[k] \in Notes!ToSet(s) \union {top + 1}
    BY <1>7
  <2> QED
    BY <1>3, <1>4, <1>7
<1>9. \A x \in Notes!ToSet(s) \union {top + 1} : x \in Notes!ToSet(r)
  <2>1. 1 \in 1 .. Len(r) /\ \A k \in 1 .. Len(s) : k + 1 \in 1 .. Len(r)
    BY <1>2, <1>3
  <2> QED
    BY <1>3, <1>7, <2>1
<1>10. Notes!ToSet(r) = Notes!ToSet(s) \union {top + 1}
  BY <1>8, <1>9
<1> QED
  BY <1>1, <1>3, <1>5, <1>6, <1>10 DEF NoteList

\* Later notes make no list worse.
LEMMA ListStays ==
  ASSUME NEW top \in Nat, NEW s, NoteList(s, top) PROVE NoteList(s, top + 1)
<1>1. \A i \in 1 .. Len(s) : s[i] \in Nat /\ s[i] <= top
  BY ElementOfSeq DEF NoteList
<1>2. \A i \in 1 .. Len(s) : s[i] <= top + 1
  BY <1>1
<1> QED
  BY <1>2 DEF NoteList

\* Lists of no note and of one.
LEMMA ShortLists ==
  /\ Notes!ToSet(<<>>) = {} /\ \A top : NoteList(<<>>, top)
  /\ \A top \in Nat : \A x \in 0 .. top : NoteList(<<x>>, top) /\ Notes!ToSet(<<x>>) = {x} /\ <<x>> # <<>>
<1>1. <<>> \in Seq(Nat) /\ Len(<<>>) = 0 /\ DOMAIN <<>> = 1 .. 0
  OBVIOUS
<1>2. Notes!ToSet(<<>>) = {} /\ \A top : NoteList(<<>>, top)
  BY <1>1 DEF Notes!ToSet, NoteList
<1>3. ASSUME NEW top \in Nat, NEW x \in 0 .. top
      PROVE  NoteList(<<x>>, top) /\ Notes!ToSet(<<x>>) = {x} /\ <<x>> # <<>>
  <2>1. <<x>> \in Seq(Nat) /\ Len(<<x>>) = 1 /\ <<x>>[1] = x /\ DOMAIN <<x>> = 1 .. 1
    OBVIOUS
  <2>2. Notes!ToSet(<<x>>) = {x}
    BY <2>1 DEF Notes!ToSet
  <2> QED
    BY <1>1, <2>1, <2>2 DEF NoteList
<1> QED
  BY <1>2, <1>3

\* What a page that opens now finds, from a stored list.
Found(n, list) == IF list = <<>> /\ n \in LegacyNames THEN <<0>> ELSE list

\* What is kept when the list under a name is replaced by one of its notes.
LEMMA PersistKeeps ==
  ASSUME NotesInv, NEW p \in Pages, NEW n \in Notes!Names, NEW list,
         Notes!Persist(p, n, list), alive' = [alive EXCEPT ![n] = Notes!ToSet(list)]
  PROVE  NotesKept'
<1>1. notes' = [notes EXCEPT ![n] = list] /\ crossed \subseteq crossed'
  BY DEF Notes!Persist
<1>2. ASSUME NEW m \in Notes!Names \ crossed'
      PROVE  \/ Notes!ToSet(Found(m, notes'[m])) = alive'[m]
             \/ m \in LegacyNames /\ alive'[m] = {} /\ Found(m, notes'[m]) = <<0>>
  <2>1. CASE m = n
    <3>1. notes'[m] = list /\ alive'[m] = Notes!ToSet(list)
      BY <1>1, <2>1 DEF NotesInv
    <3>2. CASE list = <<>> /\ m \in LegacyNames
      BY <3>1, <3>2, ShortLists DEF Found
    <3>3. CASE ~(list = <<>> /\ m \in LegacyNames)
      BY <3>1, <3>3 DEF Found
    <3> QED
      BY <3>2, <3>3
  <2>2. CASE m # n
    <3>1. notes'[m] = notes[m] /\ alive'[m] = alive[m] /\ m \in Notes!Names \ crossed
      BY <1>1, <2>2 DEF NotesInv
    <3>2. \/ Notes!ToSet(Found(m, notes[m])) = alive[m]
          \/ m \in LegacyNames /\ alive[m] = {} /\ Found(m, notes[m]) = <<0>>
      BY <3>1 DEF NotesInv, NotesKept, Notes!NotesKept, Notes!Loaded, Found
    <3> QED
      BY <3>1, <3>2
  <2> QED
    BY <2>1, <2>2
<1> QED
  BY <1>2 DEF NotesKept, Notes!NotesKept, Notes!Loaded, Found

\* The same when the page did not hold the notes alive: the name is marked.
LEMMA PersistMarks ==
  ASSUME NotesInv, NEW p \in Pages, NEW n \in Notes!Names, NEW list, NEW kept,
         Notes!Persist(p, n, list), alive' = [alive EXCEPT ![n] = kept],
         Notes!ToSet(entries[p][n]) = alive[n] => kept = Notes!ToSet(list)
  PROVE  NotesKept'
<1>1. CASE Notes!ToSet(entries[p][n]) = alive[n]
  <2>1. alive' = [alive EXCEPT ![n] = Notes!ToSet(list)]
    BY <1>1
  <2> QED
    BY <2>1, PersistKeeps
<1>2. CASE Notes!ToSet(entries[p][n]) # alive[n]
  <2>1. /\ notes' = [notes EXCEPT ![n] = list] /\ crossed' = crossed \union {n}
    BY <1>2 DEF Notes!Persist
  <2>2. \A m \in Notes!Names \ crossed' : notes'[m] = notes[m] /\ alive'[m] = alive[m] /\ m \notin crossed
    BY <2>1 DEF NotesInv
  <2> QED
    BY <2>2 DEF NotesInv, NotesKept, Notes!NotesKept, Notes!Loaded
<1> QED
  BY <1>1, <1>2

\* The lists and the drafts, when one list is replaced.
LEMMA PersistType ==
  ASSUME NotesInv, NEW p \in Pages, NEW n \in Notes!Names, NEW list,
         Notes!Persist(p, n, list), written' = written \/ written' = written + 1, NoteList(list, written'),
         NEW kept, alive' = [alive EXCEPT ![n] = kept]
  PROVE  /\ written' \in Nat /\ DOMAIN notes' = Notes!Names /\ DOMAIN alive' = Notes!Names
         /\ DOMAIN entries' = Pages
         /\ \A m \in Notes!Names : NoteList(notes'[m], written')
         /\ \A q \in Pages : DOMAIN entries'[q] = Notes!Names
                             /\ \A m \in Notes!Names : NoteList(entries'[q][m], written')
<1>1. notes' = [notes EXCEPT ![n] = list] /\ entries' = [entries EXCEPT ![p][n] = list]
  BY DEF Notes!Persist
<1>2. written \in Nat /\ \A s : NoteList(s, written) => NoteList(s, written')
  BY ListStays DEF NotesInv
<1>3. ASSUME NEW m \in Notes!Names
      PROVE  NoteList(notes'[m], written')
  BY <1>1, <1>2, <1>3 DEF NotesInv
<1>4. ASSUME NEW q \in Pages
      PROVE  DOMAIN entries'[q] = Notes!Names
  BY <1>1 DEF NotesInv
<1>5. ASSUME NEW q \in Pages, NEW m \in Notes!Names
      PROVE  NoteList(entries'[q][m], written')
  <2>1. CASE q = p /\ m = n
    BY <1>1, <2>1 DEF NotesInv
  <2>2. CASE ~(q = p /\ m = n)
    <3>1. entries'[q][m] = entries[q][m]
      BY <1>1, <2>2 DEF NotesInv
    <3> QED
      BY <1>2, <3>1 DEF NotesInv
  <2> QED
    BY <2>1, <2>2
<1> QED
  BY <1>1, <1>2, <1>3, <1>4, <1>5 DEF NotesInv

\* A draft stays one of a note when another is written.
LEMMA DraftStays ==
  ASSUME NEW top \in Nat, NEW d, DraftOK(d, top) PROVE DraftOK(d, top + 1)
BY DEF DraftOK

\* No page is open, and the notes alive are the legacy ones.
LEMMA NotesInit == Notes!Init => NotesInv
<1> SUFFICES ASSUME Notes!Init
             PROVE  NotesInv
  OBVIOUS
<1>1. /\ notes = [n \in Notes!Names |-> <<>>] /\ written = 0
      /\ entries = [p \in Pages |-> [n \in Notes!Names |-> <<>>]] /\ draft = [p \in Pages |-> None]
      /\ alive = [n \in Notes!Names |-> IF n \in LegacyNames THEN {0} ELSE {}]
  BY DEF Notes!Init
<1>2. ASSUME NEW n \in Notes!Names
      PROVE  Notes!ToSet(Found(n, notes[n])) = alive[n]
  <2>1. Notes!ToSet(<<0>>) = {0} /\ Notes!ToSet(<<>>) = {}
    BY ShortLists
  <2> QED
    BY <1>1, <2>1 DEF Found
<1>3. NotesKept
  BY <1>2 DEF NotesKept, Notes!NotesKept, Notes!Loaded, Found
<1>4. \A p \in Pages : DraftOK(draft[p], written)
  BY <1>1 DEF DraftOK
<1> QED
  BY <1>1, <1>3, <1>4, ShortLists DEF NotesInv

\* Every step of a page keeps the invariant.
LEMMA NotesNext ==
  ASSUME NotesInv, [Notes!Next]_(Notes!notesVars)
  PROVE  NotesInv'
<1>0. written \in Nat /\ \A p \in Pages : DraftOK(draft[p], written)
  BY DEF NotesInv
<1>1. ASSUME NEW p \in Pages, Notes!OpenPage(p)
      PROVE  NotesInv'
  <2>1. /\ entries' = [entries EXCEPT ![p] = [n \in Notes!Names |-> Notes!Loaded(n)]]
        /\ UNCHANGED <<notes, draft, written, alive, crossed>>
    BY <1>1 DEF Notes!OpenPage
  <2>2. ASSUME NEW n \in Notes!Names
        PROVE  NoteList(Notes!Loaded(n), written)
    <3>1. 0 \in 0 .. written
      BY <1>0
    <3>2. NoteList(<<0>>, written)
      BY <1>0, <3>1, ShortLists
    <3> QED
      BY <3>2 DEF NotesInv, Notes!Loaded
  <2>3. \A q \in Pages : DOMAIN entries'[q] = Notes!Names /\ \A n \in Notes!Names : NoteList(entries'[q][n], written)
    BY <2>1, <2>2 DEF NotesInv
  <2>4. NotesKept'
    BY <2>1 DEF NotesInv, NotesKept, Notes!NotesKept, Notes!Loaded
  <2> QED
    BY <2>1, <2>3, <2>4 DEF NotesInv, DraftOK
<1>2. ASSUME NEW p \in Pages, Notes!ClosePage(p)
      PROVE  NotesInv'
  <2>1. /\ entries' = [entries EXCEPT ![p] = [n \in Notes!Names |-> <<>>]] /\ draft' = [draft EXCEPT ![p] = None]
        /\ UNCHANGED <<notes, written, alive, crossed>>
    BY <1>2 DEF Notes!ClosePage
  <2>2. \A q \in Pages : DOMAIN entries'[q] = Notes!Names /\ \A n \in Notes!Names : NoteList(entries'[q][n], written)
    BY <2>1, ShortLists DEF NotesInv
  <2>3. \A q \in Pages : DraftOK(draft'[q], written)
    BY <2>1 DEF NotesInv, DraftOK
  <2>4. NotesKept'
    BY <2>1 DEF NotesInv, NotesKept, Notes!NotesKept, Notes!Loaded
  <2> QED
    BY <2>1, <2>2, <2>3, <2>4 DEF NotesInv
<1>3. ASSUME NEW p \in Pages, NEW n \in Notes!Names, Notes!AddNote(p, n)
      PROVE  NotesInv'
  <2>1. /\ written' = written + 1 /\ draft' = draft
        /\ alive' = [alive EXCEPT ![n] = alive[n] \union {written + 1}]
        /\ Notes!Persist(p, n, <<written + 1>> \o entries[p][n])
    <3>1. written' = written + 1 /\ Notes!Persist(p, n, <<written'>> \o entries[p][n])
      BY <1>3 DEF Notes!AddNote
    <3>2. draft' = draft /\ alive' = [alive EXCEPT ![n] = alive[n] \union {written'}]
      BY <1>3 DEF Notes!AddNote, NotesInv
    <3> QED
      BY <3>1, <3>2
  <2>2. NoteList(entries[p][n], written)
    BY DEF NotesInv
  <2>3. PICK list : list = <<written + 1>> \o entries[p][n]
    OBVIOUS
  <2>4. NoteList(list, written + 1) /\ Notes!ToSet(list) = Notes!ToSet(entries[p][n]) \union {written + 1}
    BY <1>0, <2>2, <2>3, AddOne
  <2>5. NotesKept'
    BY <2>1, <2>3, <2>4, PersistMarks
  <2>6. \A q \in Pages : DraftOK(draft'[q], written')
    BY <1>0, <2>1, DraftStays
  <2>7. DOMAIN draft' = Pages
    BY <2>1 DEF NotesInv
  <2>8. Notes!Persist(p, n, list) /\ NoteList(list, written')
    BY <2>1, <2>3, <2>4
  <2> QED
    BY <2>1, <2>5, <2>6, <2>7, <2>8, PersistType DEF NotesInv
<1>4. ASSUME NEW p \in Pages, NEW n \in Notes!Names, NEW i \in DOMAIN entries[p][n], Notes!DeleteNote(p, n, i)
      PROVE  NotesInv'
  <2>1. /\ written' = written /\ draft' = draft
        /\ alive' = [alive EXCEPT ![n] = alive[n] \ {entries[p][n][i]}]
        /\ Notes!Persist(p, n, Notes!RemoveAt(entries[p][n], i))
    BY <1>4 DEF Notes!DeleteNote, NotesInv
  <2>2. NoteList(entries[p][n], written)
    BY DEF NotesInv
  <2>3. i \in 1 .. Len(entries[p][n])
    BY <2>2, LenProperties DEF NoteList
  <2>4. PICK list : list = Notes!RemoveAt(entries[p][n], i)
    OBVIOUS
  <2>5. NoteList(list, written) /\ Notes!ToSet(list) = Notes!ToSet(entries[p][n]) \ {entries[p][n][i]}
    BY <1>0, <2>2, <2>3, <2>4, RemoveOne
  <2>6. Notes!Persist(p, n, list) /\ NoteList(list, written')
    BY <2>1, <2>4, <2>5
  <2>7. NotesKept'
    BY <2>1, <2>5, <2>6, PersistMarks
  <2>8. \A q \in Pages : DraftOK(draft'[q], written')
    BY <1>0, <2>1
  <2>9. DOMAIN draft' = Pages
    BY <2>1 DEF NotesInv
  <2> QED
    BY <2>1, <2>6, <2>7, <2>8, <2>9, PersistType DEF NotesInv
<1>5. ASSUME NEW p \in Pages, Notes!SaveNote(p)
      PROVE  NotesInv'
  <2>1. PICK d : d = draft[p]
    OBVIOUS
  <2>2. PICK list : list = IF d.text = None THEN <<>> ELSE <<d.text>>
    OBVIOUS
  <2>3. /\ d # None /\ Notes!Persist(p, d.name, list) /\ alive' = [alive EXCEPT ![d.name] = Notes!ToSet(list)]
        /\ draft' = [draft EXCEPT ![p] = None] /\ written' = written
    BY <1>5, <2>1, <2>2 DEF Notes!SaveNote
  <2>4. d.name \in Notes!Names /\ d.text \in (0 .. written) \union {None}
    BY <1>0, <2>1, <2>3 DEF DraftOK
  <2>5. NoteList(list, written')
    BY <1>0, <2>2, <2>3, <2>4, ShortLists
  <2>6. NotesKept'
    BY <2>3, <2>4, PersistKeeps
  <2>7. \A q \in Pages : DraftOK(draft'[q], written')
    BY <1>0, <2>3 DEF NotesInv, DraftOK
  <2>8. DOMAIN draft' = Pages
    BY <2>3 DEF NotesInv
  <2> QED
    BY <2>3, <2>4, <2>5, <2>6, <2>7, <2>8, PersistType DEF NotesInv
<1>6. ASSUME NEW p \in Pages, NEW n \in Notes!Names, Notes!StartEdit(p, n)
      PROVE  NotesInv'
  <2>1. PICK t : t = IF entries[p][n] = <<>> THEN None ELSE Head(entries[p][n])
    OBVIOUS
  <2>2. draft' = [draft EXCEPT ![p] = [name |-> n, text |-> t]] /\ UNCHANGED <<notes, entries, written, alive, crossed>>
    BY <1>6, <2>1 DEF Notes!StartEdit
  <2>3. t \in (0 .. written) \union {None}
    <3>1. CASE entries[p][n] # <<>>
      <4>1. PICK s : s = entries[p][n]
        OBVIOUS
      <4>2. s \in Seq(Nat) /\ s # <<>> /\ NoteList(s, written) /\ t = s[1]
        BY <2>1, <3>1, <4>1 DEF NotesInv, NoteList
      <4>3. 1 \in 1 .. Len(s)
        BY <4>2, EmptySeq
      <4>4. s[1] \in Nat /\ s[1] <= written
        BY <4>2, <4>3, ElementOfSeq DEF NoteList
      <4> QED
        BY <1>0, <4>2, <4>4
    <3> QED
      BY <2>1, <3>1
  <2>4. \A q \in Pages : DraftOK(draft'[q], written)
    BY <1>0, <2>2, <2>3 DEF NotesInv, DraftOK
  <2>5. NotesKept'
    BY <2>2 DEF NotesInv, NotesKept, Notes!NotesKept, Notes!Loaded
  <2> QED
    BY <2>2, <2>4, <2>5 DEF NotesInv
<1>7. ASSUME NEW p \in Pages, Notes!ChangeDraft(p)
      PROVE  NotesInv'
  <2>1. PICK text \in {written', None} : draft' = [draft EXCEPT ![p].text = text]
    BY <1>7 DEF Notes!ChangeDraft
  <2>2. written' = written + 1 /\ draft[p] # None /\ UNCHANGED <<notes, entries, alive, crossed>>
    BY <1>7 DEF Notes!ChangeDraft
  <2>3. DraftOK(draft'[p], written')
    <3>1. draft[p] = [name |-> draft[p].name, text |-> draft[p].text] /\ draft[p].name \in Notes!Names
      BY <1>0, <2>2 DEF DraftOK
    <3>2. PICK name : name = draft[p].name
      OBVIOUS
    <3>3. draft'[p] = [name |-> name, text |-> text]
      BY <2>1, <3>1, <3>2 DEF NotesInv
    <3>4. written' \in 0 .. written'
      BY <1>0, <2>2
    <3> QED
      BY <2>1, <3>1, <3>2, <3>3, <3>4 DEF DraftOK
  <2>4. ASSUME NEW q \in Pages, q # p
        PROVE  DraftOK(draft'[q], written')
    <3>1. draft'[q] = draft[q]
      BY <2>1, <2>4 DEF NotesInv
    <3> QED
      BY <1>0, <2>2, <3>1, DraftStays
  <2>5. \A s : NoteList(s, written) => NoteList(s, written')
    BY <1>0, <2>2, ListStays
  <2>6. NotesKept'
    BY <2>2 DEF NotesInv, NotesKept, Notes!NotesKept, Notes!Loaded
  <2>7. written' \in Nat /\ DOMAIN draft' = Pages
    BY <1>0, <2>1, <2>2 DEF NotesInv
  <2> QED
    BY <2>2, <2>3, <2>4, <2>5, <2>6, <2>7 DEF NotesInv
<1>8. ASSUME NEW p \in Pages, Notes!CancelEdit(p)
      PROVE  NotesInv'
  <2>1. draft' = [draft EXCEPT ![p] = None] /\ UNCHANGED <<notes, entries, written, alive, crossed>>
    BY <1>8 DEF Notes!CancelEdit
  <2>2. \A q \in Pages : DraftOK(draft'[q], written)
    BY <1>0, <2>1 DEF NotesInv, DraftOK
  <2>3. NotesKept'
    BY <2>1 DEF NotesInv, NotesKept, Notes!NotesKept, Notes!Loaded
  <2> QED
    BY <2>1, <2>2, <2>3 DEF NotesInv
<1>9. CASE UNCHANGED Notes!notesVars
  BY <1>9 DEF Notes!notesVars, NotesInv, DraftOK, NoteList, NotesKept, Notes!NotesKept, Notes!Loaded
<1> QED
  BY <1>1, <1>2, <1>3, <1>4, <1>5, <1>6, <1>7, <1>8, <1>9 DEF Notes!Next

\* A step of the cockpit is one of the notes, or none.
LEMMA NotesStep == [Next]_vars => [Notes!Next]_(Notes!notesVars)
BY DEF Next, vars, LiveSteps, NotesSteps, SettingsSteps, PipelineSteps, notesVars, Notes!notesVars

(***************************************************************************)
(* useNotes: a page opened now has just the notes that were written and    *)
(* not deleted, under every name that no page wrote without holding them;  *)
(* but for a legacy note, which comes back when its list is empty.         *)
(***************************************************************************)
THEOREM NotesAreKept == Spec => []NotesKept
<1>1. Init => NotesInv
  BY NotesInit DEF Init
<1>2. NotesInv /\ [Next]_vars => NotesInv'
  BY NotesNext, NotesStep
<1>3. NotesInv => NotesKept
  BY DEF NotesInv
<1> QED
  BY <1>1, <1>2, <1>3, PTL DEF Spec

=============================================================================
