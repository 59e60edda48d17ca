------------------------------- MODULE Pipeline -----------------------------
(***************************************************************************)
(* The full pipeline of the admin panel (useFullSync): the Zerodha sync,   *)
(* then the daily and the 1-minute sync side by side, each followed by an  *)
(* event stream.  A progress event changes only a message and is left out. *)
(***************************************************************************)
EXTENDS FiniteSets

CONSTANT None

VARIABLES
  status,   \* states: the status of every step
  running,  \* the ref that guards runPipeline
  streams,  \* the steps whose stream is read
  results   \* what Promise.allSettled has of the two syncs

pipelineVars == <<status, running, streams, results>>

Syncs == {"sync-daily", "sync-1min"}

PipelineSteps == Syncs \union {"zerodha"}

Outcomes == {"ok", "error"}

TypeOK ==
  /\ status \in [PipelineSteps -> {"idle", "running"} \union Outcomes] /\ running \in BOOLEAN
  /\ streams \subseteq PipelineSteps /\ results \in [Syncs -> Outcomes \union {None}]

Idle == [s \in PipelineSteps |-> "idle"]

NoResults == [s \in Syncs |-> None]

Init == status = Idle /\ running = FALSE /\ streams = {} /\ results = NoResults

AnyRunning == \E s \in PipelineSteps : status[s] = "running"

AllDone == \A s \in PipelineSteps : status[s] \in Outcomes

-----------------------------------------------------------------------------
RunPipeline ==
  /\ ~AnyRunning /\ ~running /\ running' = TRUE
  /\ status' = [Idle EXCEPT !["zerodha"] = "running"]
  /\ streams' = {"zerodha"} /\ results' = NoResults

\* Mutant: the early return forgets the ref.
ReturnBusy == UNCHANGED running

ReturnEarly == running' = FALSE

\* readSSE rejects on an error status, an error event, and a stream that closes
\* without either.
ZerodhaEnds(outcome) ==
  /\ "zerodha" \in streams
  /\ IF outcome = "ok"
     THEN /\ status' = [s \in PipelineSteps |-> IF s = "zerodha" THEN "ok" ELSE "running"]
          /\ streams' = Syncs /\ UNCHANGED running
     ELSE /\ status' = [status EXCEPT !["zerodha"] = "error"]
          /\ streams' = {} /\ ReturnEarly
  /\ UNCHANGED results

\* The steps change when both have settled.
SyncEnds(s, outcome) ==
  /\ s \in streams \ {"zerodha"} /\ streams' = streams \ {s}
  /\ results' = [results EXCEPT ![s] = outcome]
  /\ IF streams' = {}
     THEN status' = [x \in PipelineSteps |-> IF x \in Syncs THEN results'[x] ELSE status[x]] /\ running' = FALSE
     ELSE UNCHANGED <<status, running>>

\* The panes stay mounted while the sections change; only the page ends them.
ReloadPage ==
  /\ status # Idle
  /\ status' = Idle /\ running' = FALSE /\ streams' = {} /\ results' = NoResults

StreamEnds(s) == \E outcome \in Outcomes : (s = "zerodha" /\ ZerodhaEnds(outcome)) \/ SyncEnds(s, outcome)

Next == RunPipeline \/ ReloadPage \/ \E s \in PipelineSteps : StreamEnds(s)

\* readSSE has no timeout: that a stream ends is the server's promise.
Fairness == \A s \in PipelineSteps : WF_pipelineVars(StreamEnds(s))

Spec == Init /\ [][Next]_pipelineVars /\ Fairness

-----------------------------------------------------------------------------
(* Properties.                                                             *)

\* A pipeline that runs comes to an end whatever its streams do, short of staying
\* open: every step has its outcome, or Zerodha's failed and no sync was started,
\* or the page is gone; and then it can be run again.
PipelineEnds ==
  running ~> /\ ~running /\ ~AnyRunning
             /\ \/ AllDone \/ status = Idle
                \/ status = [Idle EXCEPT !["zerodha"] = "error"]
=============================================================================
