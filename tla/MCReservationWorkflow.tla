------------------------ MODULE MCReservationWorkflow ------------------------
(***************************************************************************)
(* Instances of ReservationWorkflow for TLC: two rooms, three nights, and  *)
(* selections that share a night, only touch, or are in another room.      *)
(***************************************************************************)
EXTENDS ReservationWorkflow, TLC

CONSTANTS A, B

sel(room, from, to) == [room |-> room, from |-> from, to |-> to]

Rooms == {A, B}
\* Two overlapping ranges of room A and one of room B.
Overlapping == {sel(A, 1, 3), sel(A, 2, 4), sel(B, 1, 3)}
Two == {sel(A, 1, 3), sel(A, 2, 4)}
\* Instants of one day, and of a first and a second.
OneDay == <<1>>
TwoDays == <<1, 2>>

TokenSymmetry == Permutations(Token)

-----------------------------------------------------------------------------
(* Sub-behaviours of Spec: fewer kinds of request, so that longer histories *)
(* of the remaining ones fit.                                               *)

\* Bookings that all succeed on time, and everything that happens to them.
BookingStep(t) ==
  \/ \E s \in Selection : PrepareBooking(t, s, FALSE)
  \/ \E d \in DraftId : ConfirmPending(t, d)
  \/ \E r \in ResId, s \in Selection : Adjust(t, r, s)
  \/ \E s \in Selection : CreateReservation(t, s)
  \/ \E r \in ResId : PrepareCancel(t, r)
  \/ \E c \in Token : ConfirmCancel(t, c)
  \/ \E room \in Catalog, r \in ResId, at \in Clock : CheckIn(t, room, r, at)
  \/ \E room \in Catalog, at \in Clock : \E s \in InHouse(room) : CheckOut(t, room, s, at)
  \/ Replay(t)

BookingSpec == Init /\ [][\E t \in Token : BookingStep(t)]_vars

\* Complete drafts and their cards; CardSpec adds nothing else, so a card can
\* meet any sequence of re-slotting, re-quoting, cancelling and expiring.
CardDraftStep(t) ==
  \/ \E s \in Selection : PrepareBooking(t, s, FALSE)
  \/ \E d \in DraftId, s \in Selection, late \in BOOLEAN : UpdateDraft(t, d, s, FALSE, late)
  \/ \E d \in DraftId : QuoteDraft(t, d, FALSE)
  \/ \E d \in DraftId : PrepareConfirm(t, d, FALSE)
  \/ \E d \in DraftId : CancelDraft(t, d)
  \/ CardStep(t)

CardSpec == Init /\ [][\E t \in Token : CardDraftStep(t) \/ Replay(t)]_vars
=============================================================================
