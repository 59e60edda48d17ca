---------------------------- MODULE ServiceConfig ---------------------------
(***************************************************************************)
(* The tunable settings of one service: the overrides in service_config,   *)
(* the settings object they are applied to (GET and PATCH /config), and    *)
(* the ServiceConfigPane of one cockpit, next to others' PATCHes.          *)
(*                                                                         *)
(* PATCH stores the settings it is given and then, after an await, applies *)
(* them; a pane PATCHes all it shows, edited or not, others any of them.   *)
(***************************************************************************)
EXTENDS Naturals, FiniteSets

CONSTANTS
  Keys, Values,
  Default,   \* the settings without overrides
  None,
  MaxSent,   \* bound: requests
  MaxServed  \* bound: changes of the settings when the service restarts

ServiceConfigAssumption ==
  MaxSent \in Nat /\ MaxServed \in Nat /\ Default \in [Keys -> Values] /\ None \notin Values

VARIABLES
  stored,    \* the overrides
  applied,   \* settings
  initial,   \* initialConfig of the page: None or an answer
  mounted,   \* the pane is the section shown
  config, saveStatus,
  loads,     \* GETs on the way: [id, answer], answer None until served
  patches,   \* PATCHes: [id, mine, body, edited, seen, step, answer]
  sent,
  served,    \* history: changes of applied
  version,   \* history: the change of applied that last changed a key
  edited,    \* history: keys the user changed since the pane showed an answer
  seen,      \* history: the changes known to that answer
  savedBy, appliedBy, \* history: the PATCH that stored, and that applied, a key last
  raced      \* history: keys stored while another PATCH of them was not applied yet

serverVars == <<stored, applied, served, version, savedBy, appliedBy, raced>>
paneVars   == <<config, saveStatus, edited, seen>>
wireVars   == <<loads, patches, sent>>
pageVars   == <<initial, mounted>>
serviceConfigVars == <<serverVars, paneVars, wireVars, pageVars>>

Settings == [Keys -> Values]

\* None: no override, or not in the body of a PATCH.
Overrides == [Keys -> Values \union {None}]

Answer == [config : Settings, seen : Nat]

TypeOK ==
  /\ stored \in Overrides /\ applied \in Settings
  /\ initial \in Answer \union {None} /\ mounted \in BOOLEAN
  /\ config \in Settings \union {None} /\ saveStatus \in {"idle", "running", "ok", "error"}
  /\ loads \subseteq [id : 1 .. MaxSent, answer : Answer \union {None}]
  /\ patches \subseteq [id : 1 .. MaxSent, mine : BOOLEAN, body : Overrides, edited : SUBSET Keys,
                        seen : Nat, step : {"sent", "saved", "done"}, answer : Answer \union {None}]
  /\ sent \in 0 .. MaxSent /\ served \in Nat /\ version \in [Keys -> 0 .. served]
  /\ edited \subseteq Keys /\ seen \in 0 .. served
  /\ savedBy \in [Keys -> 0 .. sent] /\ appliedBy \in [Keys -> 0 .. sent] /\ raced \subseteq Keys

Given(body) == {k \in Keys : body[k] # None}

Over(body, settings) == [k \in Keys |-> IF k \in Given(body) THEN body[k] ELSE settings[k]]

\* load_overrides and apply_overrides at the start of the service.
Effective(overrides) == Over(overrides, Default)

\* What get_tunable answers now.
Tunable == [config |-> applied, seen |-> served]

Init ==
  /\ stored = [k \in Keys |-> None] /\ applied = Effective(stored)
  /\ served = 0 /\ version = [k \in Keys |-> 0]
  /\ savedBy = [k \in Keys |-> 0] /\ appliedBy = savedBy /\ raced = {}
  /\ initial \in {None, Tunable} /\ mounted = FALSE
  /\ config = None /\ saveStatus = "idle" /\ edited = {} /\ seen = 0
  /\ loads = {} /\ patches = {} /\ sent = 0

-----------------------------------------------------------------------------
(* The page and its pane.                                                  *)

\* What a pane that goes away had on the way finds nobody; the server goes on.
Unmount ==
  /\ mounted' = FALSE /\ config' = None /\ saveStatus' = "idle" /\ edited' = {} /\ seen' = 0
  /\ loads' = {}
  /\ patches' = {[r EXCEPT !.mine = FALSE] : r \in {x \in patches : x.step # "done"}}
  /\ UNCHANGED <<serverVars, sent>>

LeaveSection == mounted /\ Unmount /\ UNCHANGED initial

\* page.tsx asks each service while it renders the page, null when that fails.
ReloadPage == initial' \in {None, Tunable} /\ Unmount

SendLoad ==
  /\ sent < MaxSent /\ sent' = sent + 1
  /\ loads' = loads \union {[id |-> sent', answer |-> None]}
  /\ UNCHANGED patches

\* The section is chosen: it starts from initialConfig, however old, or loads.
EnterSection ==
  /\ ~mounted /\ mounted' = TRUE
  /\ IF initial = None THEN SendLoad /\ UNCHANGED <<config, seen>>
     ELSE config' = initial.config /\ seen' = initial.seen /\ UNCHANGED wireVars
  /\ UNCHANGED <<serverVars, initial, saveStatus, edited>>

\* Refresh, Retry and Reset.
Load == mounted /\ SendLoad /\ UNCHANGED <<serverVars, paneVars, pageVars>>

Show(answer) == config' = answer.config /\ edited' = {} /\ seen' = answer.seen

LoadAnswer(r) ==
  /\ r \in loads /\ r.answer # None /\ loads' = loads \ {r}
  /\ Show(r.answer)
  /\ UNCHANGED <<serverVars, pageVars, saveStatus, patches, sent>>

LoadFails(r) ==
  /\ r \in loads /\ loads' = loads \ {r}
  /\ UNCHANGED <<serverVars, pageVars, paneVars, patches, sent>>

\* Mutant: the change is made to the settings the page came with.
ChangedInitial(k, v) == [(IF initial = None THEN config ELSE initial.config) EXCEPT ![k] = v]

\* handleChange
Changed(k, v) == [config EXCEPT ![k] = v]

HandleChange(k, v) ==
  /\ mounted /\ config # None /\ v # config[k]
  /\ config' = Changed(k, v) /\ edited' = edited \union {k}
  /\ UNCHANGED <<serverVars, wireVars, pageVars, saveStatus, seen>>

SendPatch(mine, body, keys, known) ==
  /\ sent < MaxSent /\ sent' = sent + 1
  /\ patches' = patches \union {[id |-> sent', mine |-> mine, body |-> body, edited |-> keys,
                                 seen |-> known, step |-> "sent", answer |-> None]}
  /\ UNCHANGED <<serverVars, pageVars, config, edited, seen, loads>>

Save ==
  /\ mounted /\ config # None /\ saveStatus # "running"
  /\ saveStatus' = "running"
  /\ SendPatch(TRUE, config, edited, seen)

\* Another page, or a caller that gives some of the settings only.
SaveElsewhere == \E body \in Overrides : SendPatch(FALSE, body, Given(body), 0) /\ UNCHANGED saveStatus

\* "Saved and applied": the answer replaces what the pane shows, edits too.
SaveAnswer(r) ==
  /\ r \in patches /\ r.step = "done" /\ patches' = patches \ {r}
  /\ Show(r.answer) /\ saveStatus' = "ok"
  /\ UNCHANGED <<serverVars, pageVars, loads, sent>>

\* Refused (422), failed while storing, or the answer lost on its way.
SaveFails(r) ==
  /\ r \in patches /\ r.step \in {"sent", "done"} /\ patches' = patches \ {r}
  /\ saveStatus' = IF r.mine THEN "error" ELSE saveStatus
  /\ UNCHANGED <<serverVars, pageVars, config, edited, seen, loads, sent>>

-----------------------------------------------------------------------------
(* The service.                                                            *)

ServeLoad(r) ==
  /\ r \in loads /\ r.answer = None
  /\ loads' = (loads \ {r}) \union {[r EXCEPT !.answer = Tunable]}
  /\ UNCHANGED <<serverVars, paneVars, pageVars, patches, sent>>

\* Mutant: what is not given is forgotten.
Replaced(body) == body

\* save_overrides, one transaction: an upsert of what is given.
Upserted(body) == Over(body, stored)

Pending(k) == {r \in patches : r.step = "saved" /\ k \in Given(r.body)}

\* by is the PATCH that gives keys.
Marked(marks, keys, by) == [k \in Keys |-> IF k \in keys THEN by ELSE marks[k]]

ServeSave(r) ==
  /\ r \in patches /\ r.step = "sent"
  /\ stored' = Upserted(r.body) /\ savedBy' = Marked(savedBy, Given(r.body), r.id)
  /\ raced' = (raced \ Given(r.body)) \union {k \in Given(r.body) : Pending(k) # {}}
  /\ patches' = (patches \ {r}) \union {[r EXCEPT !.step = "saved"]}
  /\ UNCHANGED <<applied, served, version, appliedBy, paneVars, pageVars, loads, sent>>

Become(settings) ==
  /\ applied' = settings /\ served' = served + 1
  /\ version' = [k \in Keys |-> IF settings[k] # applied[k] THEN served' ELSE version[k]]

\* The rest of patch_config, when its task goes on.
ServeApply(r) ==
  /\ r \in patches /\ r.step = "saved"
  /\ Become(Over(r.body, applied)) /\ appliedBy' = Marked(appliedBy, Given(r.body), r.id)
  /\ patches' = (patches \ {r}) \union
       {[r EXCEPT !.step = "done", !.answer = [config |-> applied', seen |-> served']] : x \in {y \in {r} : r.mine}}
  /\ UNCHANGED <<stored, savedBy, raced, paneVars, pageVars, loads, sent>>

\* The service stops and starts: what it was serving fails.
Restart ==
  /\ served < MaxServed
  /\ Become(Effective(stored)) /\ appliedBy' = savedBy /\ raced' = {}
  /\ patches' = {r \in patches : r.step = "done"}
  /\ saveStatus' = IF \E r \in patches \ patches' : r.mine THEN "error" ELSE saveStatus
  /\ UNCHANGED <<stored, savedBy, pageVars, config, edited, seen, loads, sent>>

Next ==
  \/ ReloadPage \/ EnterSection \/ LeaveSection \/ Load \/ Save \/ SaveElsewhere \/ Restart
  \/ \E k \in Keys, v \in Values : HandleChange(k, v)
  \/ \E r \in loads : ServeLoad(r) \/ LoadAnswer(r) \/ LoadFails(r)
  \/ \E r \in patches : ServeSave(r) \/ ServeApply(r) \/ SaveAnswer(r) \/ SaveFails(r)

Spec == Init /\ [][Next]_serviceConfigVars

-----------------------------------------------------------------------------
(* Properties.                                                             *)

\* A pane stores all it shows; still its PATCH changes a setting its user did not
\* edit only if that setting was changed after the answer the pane was showing.
SavesOnlyEdits ==
  [][\A r \in patches : ServeApply(r) =>
       \A k \in Keys : applied'[k] # applied[k] => k \in r.edited \/ version[k] > r.seen]_serviceConfigVars

\* A setting whose last PATCH stored is the last applied is what a restart would
\* come to, whatever the other PATCHes gave; it is another PATCH only while one is
\* between storing and applying the setting, or after two were so at once.
SavedIsApplied ==
  \A k \in Keys :
    /\ savedBy[k] = appliedBy[k] => applied[k] = Effective(stored)[k]
    /\ savedBy[k] # appliedBy[k] => k \in raced \/ Pending(k) # {}
=============================================================================
