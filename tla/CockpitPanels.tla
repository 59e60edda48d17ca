---------------------------- MODULE CockpitPanels ---------------------------
(***************************************************************************)
(* The live prices, what the browser keeps (the notes, the settings), and  *)
(* the pipeline of syncs.                                                  *)
(* They share no state, so a behaviour takes the steps of one of them and  *)
(* leaves the others as they start.                                        *)
(***************************************************************************)
EXTENDS Integers, Sequences

CONSTANTS
  None,
  \* the live prices
  Types, PerSide, MinAdv, Symbols, Views, Prices, PrevClose, Metrics, Signals, MaxRetries,
  \* the notes and the settings
  Pages, NoteSymbols, SignalIds, LegacyNames, MaxNotes,
  Fields, Values(_), Default(_), Valid(_, _)

VARIABLES
  panel,  \* the one that takes steps
  sharedPrices, stream, retries, watched, listening, asking, prices, lastTick,
  notes, open, entries, draft, written, alive, crossed,
  storage, phase, settings, chosen, disturbed,
  status, running, streams, results

liveVars == <<sharedPrices, stream, retries, watched, listening, asking, prices, lastTick>>
notesVars == <<notes, open, entries, draft, written, alive, crossed>>
settingsVars == <<storage, phase, settings, chosen, disturbed>>
pipelineVars == <<status, running, streams, results>>

-----------------------------------------------------------------------------
(* The panels.                                                             *)

Live == INSTANCE LivePrices

Notes == INSTANCE Notes WITH Symbols <- NoteSymbols, stored <- notes

Settings == INSTANCE CockpitState

Pipe == INSTANCE Pipeline

ASSUME CockpitPanelsAssumption ==
  Live!LivePricesAssumption /\ Notes!NotesAssumption

-----------------------------------------------------------------------------
(* One of them takes steps.                                                *)

\* The storage starts in one way where the settings take no steps.
Init ==
  /\ panel \in {"live", "notes", "settings", "pipeline"}
  /\ Live!Init /\ Notes!Init /\ Pipe!Init
  /\ Settings!Init /\ (panel = "settings" \/ storage = None)

LiveSteps ==
  /\ panel = "live" /\ Live!Next
  /\ UNCHANGED <<panel, notesVars, settingsVars, pipelineVars>>

NotesSteps ==
  /\ panel = "notes" /\ Notes!Next
  /\ UNCHANGED <<panel, liveVars, settingsVars, pipelineVars>>

SettingsSteps ==
  /\ panel = "settings" /\ Settings!Next
  /\ UNCHANGED <<panel, liveVars, notesVars, pipelineVars>>

PipelineSteps ==
  /\ panel = "pipeline" /\ Pipe!Next
  /\ UNCHANGED <<panel, liveVars, notesVars, settingsVars>>

Next == LiveSteps \/ NotesSteps \/ SettingsSteps \/ PipelineSteps

vars == <<panel, liveVars, notesVars, settingsVars, pipelineVars>>

Spec == Init /\ [][Next]_vars /\ Pipe!Fairness

-----------------------------------------------------------------------------
(* Properties: those of the panels.                                        *)

\* A symbol that ticked shows its last tick in every view.
LiveInEveryView == Live!LiveInEveryView

\* The heat map leaves no liquid mover out for a smaller one.
TopMovers == Live!TopMovers

\* A page has every note written and not taken away, unless pages crossed.
NotesKept == Notes!NotesKept

\* The settings chosen last survive the mounting of pages.
SettingsKept == Settings!SettingsKept

\* A pipeline that runs ends, and can be run again.
PipelineEnds == Pipe!PipelineEnds
=============================================================================
