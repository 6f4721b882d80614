----------------------------- MODULE SyncDomain -----------------------------
(***************************************************************************)
(* The vocabulary of a guild sync: run statuses, phases, and the pure      *)
(* rules of src/backend/internal/domain/sync.go.                           *)
(***************************************************************************)
EXTENDS Naturals

RunRunning == "running"
RunSuccess == "success"
RunPartial == "partial"
RunFailed  == "failed"

Terminal == {RunSuccess, RunPartial, RunFailed}

\* What the status columns and fields hold.
RunStatus == Terminal \cup {RunRunning}

PhaseQueued     == "queued"
PhaseRoster     == "roster"
PhaseTierAnchor == "tier-anchor"
PhaseCharacters == "characters"
PhaseFinalizing == "finalizing"

Phase == {PhaseQueued, PhaseRoster, PhaseTierAnchor, PhaseCharacters,
          PhaseFinalizing}

\* A run with no failures succeeded, even a run with nobody in it; one with
\* both is partial; one in which everybody failed has failed.
Outcome(updated, failed) ==
    CASE failed = 0                 -> RunSuccess
      [] failed > 0 /\ updated > 0  -> RunPartial
      [] OTHER                      -> RunFailed

\* The documented life of a run: one step out of "running".
Transition(from, to) == from = RunRunning /\ to \in Terminal

CanStart(running) == ~running

\* The order in which the engine names its phases.
PhaseRank(p) ==
    CASE p = PhaseQueued     -> 0
      [] p = PhaseRoster     -> 1
      [] p = PhaseTierAnchor -> 2
      [] p = PhaseCharacters -> 3
      [] OTHER               -> 4
=============================================================================
