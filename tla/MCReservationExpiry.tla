------------------------- MODULE MCReservationExpiry -------------------------
(***************************************************************************)
(* The drafts and cards of MCReservationWorkflow with a history variable:  *)
(* the drafts that were ever cancelled.                                    *)
(***************************************************************************)
EXTENDS MCReservationWorkflow

VARIABLE everCancelled

IsCancelled(d) == drafts[d] # Absent /\ drafts[d].status = "cancelled"

HistoryInit == Init /\ everCancelled = {}

HistoryNext ==
  /\ \E t \in Token : CardDraftStep(t)
  /\ everCancelled' = everCancelled \cup {d \in DraftId : IsCancelled(d)'}

HistorySpec == HistoryInit /\ [][HistoryNext]_<<vars, everCancelled>>

\* "Reservation draft is cancelled and cannot be quoted or prepared."
\* (reservationDraftWorkflowModel.ts:109).  A late answer to the card of a
\* cancelled draft marks the draft expired, and an update whose clock is still
\* before expiresAt reopens an expired draft.
CancelledDraftIsNeverPrepared ==
  \A d \in everCancelled :
    (drafts[d].status = "quoteReady" => drafts[d].quote = Absent)
      /\ drafts[d].status # "awaitingConfirmation"
=============================================================================
