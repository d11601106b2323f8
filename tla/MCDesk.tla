-------------------------------- MODULE MCDesk --------------------------------
(***************************************************************************)
(* An instance of Desk for TLC.                                            *)
(***************************************************************************)
EXTENDS Desk, TLC

CONSTANTS A, B, Nobody, n1, n2, h1, h2, same, own

MCGuestOf == (A :> "ann") @@ (B :> "bob") @@ (Nobody :> Absent)
MCHashOf == (n1 :> h1) @@ (n2 :> h2)

\* The first two drafts get the same short reference.
MCRefOf == [t \in Token |-> IF t <= 2 THEN same ELSE own]

document(reservation, number, hash, details) ==
  [reservation |-> reservation, type |-> "id", number |-> number, hash |-> hash,
   details |-> details]

\* Two documents of one guest, one of another, one of no guest, one without
\* a hash and one without a number.
MCAsked == {document(A, n1, h1, TRUE), document(A, n2, Absent, FALSE),
            document(B, n1, Absent, FALSE), document(Nobody, n1, h1, FALSE),
            document(A, Absent, h1, FALSE)}
=============================================================================
