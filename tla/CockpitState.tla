----------------------------- MODULE CockpitState ---------------------------
(***************************************************************************)
(* The settings of the cockpit (useCockpitState) in the browser's local    *)
(* storage, under the pages that share it.  A page mounts with defaults;   *)
(* its effects first read the storage and then, at once, write the         *)
(* defaults there, until the restored settings are rendered.               *)
(***************************************************************************)
EXTENDS Naturals, FiniteSets

CONSTANTS
  Pages,
  Fields,       \* view, category, minAdvCr, viewMode, showHelp, subType, fnoOnly, theme
  Values(_),    \* the values a user gives a field
  Default(_),
  Valid(_, _),  \* what the page takes back from the storage
  None

VARIABLES
  storage,      \* STATE_KEY and the theme's key: the settings, or None
  phase,        \* of a page: "closed", "mounting" between its effects and the next render, "live"
  settings,     \* of a page
  chosen,       \* history: the settings last chosen on any page
  disturbed     \* history: a page was closed while mounting, or mounted next to another one

cockpitStateVars == <<storage, phase, settings, chosen, disturbed>>

Settings == {f \in [Fields -> UNION {Values(x) : x \in Fields}] : \A x \in Fields : f[x] \in Values(x)}

Defaults == [f \in Fields |-> Default(f)]

TypeOK ==
  /\ storage \in Settings \union {None} /\ chosen \in Settings \union {None}
  /\ phase \in [Pages -> {"closed", "mounting", "live"}]
  /\ settings \in [Pages -> Settings] /\ disturbed \in BOOLEAN

\* An older version may have stored what this one does not take back.
Init ==
  /\ storage \in Settings \union {None} /\ chosen = storage
  /\ phase = [p \in Pages |-> "closed"] /\ settings = [p \in Pages |-> Defaults]
  /\ disturbed = FALSE

-----------------------------------------------------------------------------
\* Mutant: the defaults are written before the storage is read.
ReadAfterWrite == Defaults

\* What the restoring effects find: they stand before the saving ones.
Read == storage

\* Every stored value that passes its check, the default for the others.
Restored(raw) ==
  IF raw = None THEN Defaults
  ELSE [f \in Fields |-> IF Valid(f, raw[f]) THEN raw[f] ELSE Default(f)]

\* The effects of the first render, in their order.
Mount(p) ==
  /\ phase[p] = "closed"
  /\ phase' = [phase EXCEPT ![p] = "mounting"]
  /\ settings' = [settings EXCEPT ![p] = Restored(Read)]
  /\ storage' = Defaults
  /\ disturbed' = (disturbed \/ \E q \in Pages : phase[q] # "closed")
  /\ UNCHANGED chosen

\* The restored settings are rendered, and written by the effect of their change.
Restore(p) ==
  /\ phase[p] = "mounting"
  /\ phase' = [phase EXCEPT ![p] = "live"]
  /\ storage' = IF settings[p] = Defaults THEN storage ELSE settings[p]
  /\ chosen' = IF chosen = None THEN Defaults ELSE Restored(chosen)
  /\ UNCHANGED <<settings, disturbed>>

Change(p, f, v) ==
  /\ phase[p] = "live" /\ v # settings[p][f] /\ Valid(f, v)
  /\ settings' = [settings EXCEPT ![p][f] = v]
  /\ storage' = settings'[p] /\ chosen' = settings'[p]
  /\ UNCHANGED <<phase, disturbed>>

Close(p) ==
  /\ phase[p] # "closed"
  /\ phase' = [phase EXCEPT ![p] = "closed"] /\ settings' = [settings EXCEPT ![p] = Defaults]
  /\ disturbed' = (disturbed \/ phase[p] = "mounting")
  /\ UNCHANGED <<storage, chosen>>

Next ==
  \E p \in Pages :
    \/ Mount(p) \/ Restore(p) \/ Close(p)
    \/ \E f \in Fields : \E v \in Values(f) : Change(p, f, v)

Spec == Init /\ [][Next]_cockpitStateVars

-----------------------------------------------------------------------------
(* Properties.                                                             *)

\* The settings chosen last survive, in the storage and on the next page, though
\* each page overwrites them with the defaults on its way; only a page closed on
\* that way, or two pages at once, lose them.
SettingsKept ==
  ~disturbed /\ (\A p \in Pages : phase[p] # "mounting") =>
    /\ storage = chosen
    /\ \A p \in Pages : phase[p] = "live" => settings[p] = chosen
=============================================================================
