------------------------------ MODULE Desk_proofs ------------------------------
(***************************************************************************)
(* Proofs about Desk: first of the archive, then of the request queue,     *)
(* then of the two together.  The archive's stored answers are never       *)
(* rewritten, so what a call was about can be read from them for good; the *)
(* invariant ties every draft to the call that prepared it, every          *)
(* confirmation to the one draft it closed, and every row of the archive   *)
(* to its call.                                                            *)
(***************************************************************************)
EXTENDS Desk, TLAPS

\* A draft is what its call asked for; its number is gone once confirmed.
Prepared(t) ==
  \E d \in Asked :
    /\ settled[t] # Absent /\ settled[t].op = "prepare" /\ settled[t].body = d
    /\ d.number # Absent
    /\ drafts[t].guest = GuestOf[d.reservation] /\ drafts[t].type = d.type
    /\ drafts[t].hash = ShownHash(d)
    /\ drafts[t].number = IF drafts[t].status = "confirmed" THEN Absent ELSE d.number

DraftsArePrepared == \A t \in Token : drafts[t] # Absent => Prepared(t)

\* A confirmation has closed the draft it was shown the card of.
ConfirmationsClose ==
  \A s, t \in Token : Confirms(s, t) =>
    /\ drafts[t] # Absent /\ drafts[t].status = "confirmed"
    /\ settled[s].body.shown[2] = drafts[t].hash

\* Only a confirmation closes a draft.
ClosedIsConfirmed ==
  \A t \in Token : drafts[t] # Absent /\ drafts[t].status = "confirmed" =>
    \E s \in Token : Confirms(s, t)

DocumentsInv ==
  /\ DocumentsTypeOK /\ DraftsArePrepared /\ ConfirmationsClose /\ ClosedIsConfirmed
  /\ ConfirmedOnce /\ RowIsOneDocument

-----------------------------------------------------------------------------
(* The first state, refusals and replays *)

\* Nothing is stored at first.
LEMMA DocumentsInitial == DocumentsInit => DocumentsInv
<1> SUFFICES ASSUME DocumentsInit  PROVE DocumentsInv
  OBVIOUS
<1>1. /\ \A t \in Token : drafts[t] = Absent /\ settled[t] = Absent
      /\ \A key \in Guest \X DocumentType : cards[key] = Absent
  BY DEF DocumentsInit
<1>2. DocumentsTypeOK
  BY DEF DocumentsInit, DocumentsTypeOK
<1>3. RowIsOneDocument
  <2>1. \A g \in Guest, type \in DocumentType : cards[<<g, type>>] = Absent
    BY <1>1
  <2> QED BY <2>1, RowAssumption DEF RowIsOneDocument
<1> QED BY <1>1, <1>2, <1>3 DEF DocumentsInv, DraftsArePrepared, ConfirmationsClose,
           ClosedIsConfirmed, ConfirmedOnce, Confirms

\* What does not touch the tables keeps all.
LEMMA TablesUntouched ==
  ASSUME DocumentsInv, UNCHANGED documentVars
  PROVE  DocumentsInv'
<1>1. cards' = cards /\ drafts' = drafts /\ settled' = settled
  BY DEF documentVars
<1>2. \A s, t \in Token : Confirms(s, t)' <=> Confirms(s, t)
  BY <1>1 DEF Confirms
<1>3. DocumentsTypeOK'
  BY <1>1 DEF DocumentsInv, DocumentsTypeOK
<1>4. DraftsArePrepared'
  BY <1>1 DEF DocumentsInv, DraftsArePrepared, Prepared
<1>5. ConfirmationsClose' /\ ClosedIsConfirmed' /\ ConfirmedOnce'
  BY <1>1, <1>2 DEF DocumentsInv, ConfirmationsClose, ClosedIsConfirmed, ConfirmedOnce
<1>6. \A t : Intended(t)' = Intended(t)
  BY <1>1 DEF Intended
<1>7. RowIsOneDocument'
  BY <1>1, <1>6 DEF DocumentsInv, RowIsOneDocument, RowFits
<1> QED BY <1>3, <1>4, <1>5, <1>7 DEF DocumentsInv

\* A refusal, or a used token.
LEMMA NoWriteKeepsInv ==
  ASSUME DocumentsInv
  PROVE  /\ Refuse => DocumentsInv'
         /\ \A request \in Request : Replay(request) => DocumentsInv'
BY TablesUntouched DEF Refuse, Replay

-----------------------------------------------------------------------------
(* A success *)

\* Storing an answer under a free token leaves the other answers.
LEMMA SettleKeeps ==
  ASSUME DocumentsInv, NEW request \in Request, Settle(request)
  PROVE  /\ request.token \in Token
         /\ settled'[request.token] = request
         /\ settled'[request.token] # Absent
         /\ \A t \in Token \ {request.token} : settled'[t] = settled[t]
         /\ settled' \in [Token -> Request \cup {Absent}]
<1>1. request.token \in Token /\ request # Absent
  BY RowAssumption DEF Request
<1>2. settled \in [Token -> Request \cup {Absent}]
  BY DEF DocumentsInv, DocumentsTypeOK
<1> QED BY <1>1, <1>2 DEF Settle

\* What a stored confirmation was shown: a draft of a call that has its answer.
LEMMA ConfirmedIsPrepared ==
  ASSUME DocumentsInv, NEW s \in Token, settled[s] # Absent, settled[s].op = "confirm"
  PROVE  /\ settled[s].body.shown[1] \in Token
         /\ settled[settled[s].body.shown[1]] # Absent
<1>1. settled[s] \in Request
  BY DEF DocumentsInv, DocumentsTypeOK
<1>2. settled[s].body \in Card
  BY <1>1 DEF Request
<1>3. PICK t : t = settled[s].body.shown[1]
  OBVIOUS
<1>4. t \in Token
  BY <1>2, <1>3 DEF Card
<1>5. Confirms(s, t)
  BY <1>3 DEF Confirms
<1>6. drafts[t] # Absent
  BY <1>4, <1>5 DEF DocumentsInv, ConfirmationsClose
<1>7. settled[t] # Absent
  BY <1>4, <1>6 DEF DocumentsInv, DraftsArePrepared, Prepared
<1> QED BY <1>3, <1>4, <1>7

\* A row that agrees goes on agreeing when an answer is stored.
LEMMA RowStands ==
  ASSUME DocumentsInv, NEW u \in Token, settled[u] = Absent,
         \A t \in Token \ {u} : settled'[t] = settled[t],
         NEW row \in ArchivedCard, NEW g, NEW type, RowFits(row, g, type)
  PROVE  RowFits(row, g, type)'
<1>1. row.by \in Token /\ settled[row.by] # Absent
  BY DEF ArchivedCard, RowFits
<1>2. settled'[row.by] = settled[row.by]
  BY <1>1
<1>3. Intended(row.by)' = Intended(row.by)
  <2>1. CASE settled[row.by].op = "confirm"
    <3>1. PICK t : t = settled[row.by].body.shown[1]
      OBVIOUS
    <3>2. t \in Token /\ settled[t] # Absent
      BY <1>1, <2>1, <3>1, ConfirmedIsPrepared
    <3>3. settled'[t] = settled[t]
      BY <3>2
    <3> QED BY <1>2, <3>1, <3>3 DEF Intended
  <2>2. CASE settled[row.by].op # "confirm"
    BY <1>2, <2>2 DEF Intended
  <2> QED BY <2>1, <2>2
<1> QED BY <1>1, <1>2, <1>3 DEF RowFits

\* Writing one row that agrees, or none, keeps the archive in agreement.
LEMMA FiledFits ==
  ASSUME DocumentsInv, NEW u \in Token, settled[u] = Absent,
         \A t \in Token \ {u} : settled'[t] = settled[t],
         NEW guest \in Guest, NEW kind \in DocumentType, NEW new \in ArchivedCard,
         cards' = [cards EXCEPT ![<<guest, kind>>] = new], RowFits(new, guest, kind)'
  PROVE  /\ cards' \in [Guest \X DocumentType -> ArchivedCard \cup {Absent}]
         /\ RowIsOneDocument'
<1>1. cards \in [Guest \X DocumentType -> ArchivedCard \cup {Absent}]
  BY DEF DocumentsInv, DocumentsTypeOK
<1>2. cards' \in [Guest \X DocumentType -> ArchivedCard \cup {Absent}]
  BY <1>1
<1>3. ASSUME NEW g \in Guest, NEW type \in DocumentType, NEW row \in ArchivedCard,
             cards'[<<g, type>>] = row
      PROVE  RowFits(row, g, type)'
  <2>1. CASE g = guest /\ type = kind
    <3>1. row = new
      BY <1>1, <1>3, <2>1
    <3> QED BY <2>1, <3>1
  <2>2. CASE ~(g = guest /\ type = kind)
    <3>1. cards[<<g, type>>] = row
      BY <1>1, <1>3, <2>2
    <3>2. RowFits(row, g, type)
      BY <3>1 DEF DocumentsInv, RowIsOneDocument
    <3> QED BY <3>2, RowStands
  <2> QED BY <2>1, <2>2
<1>4. RowIsOneDocument'
  BY <1>3 DEF RowIsOneDocument
<1> QED BY <1>2, <1>4

\* The confirmations and the drafts that were there stay as they were.
LEMMA OldOnesStay ==
  ASSUME DocumentsInv, NEW u \in Token, settled[u] = Absent,
         \A t \in Token \ {u} : settled'[t] = settled[t]
  PROVE  /\ \A s \in Token \ {u}, t \in Token : Confirms(s, t)' <=> Confirms(s, t)
         /\ \A t \in Token : ~Confirms(u, t)
         /\ drafts[u] = Absent
<1>1. \A s \in Token \ {u}, t \in Token : Confirms(s, t)' <=> Confirms(s, t)
  BY DEF Confirms
<1>2. \A t \in Token : ~Confirms(u, t)
  BY DEF Confirms
<1>3. drafts[u] = Absent
  BY DEF DocumentsInv, DraftsArePrepared, Prepared
<1> QED BY <1>1, <1>2, <1>3

\* A draft that nothing wrote stays as it was prepared.
LEMMA PreparedStands ==
  ASSUME NEW t, Prepared(t), settled'[t] = settled[t], drafts'[t] = drafts[t]
  PROVE  Prepared(t)'
BY DEF Prepared

\* A success that neither opens nor confirms a draft.
LEMMA DraftsUnmoved ==
  ASSUME DocumentsInv, NEW u \in Token, settled[u] = Absent,
         \A t \in Token \ {u} : settled'[t] = settled[t],
         drafts' = drafts, settled'[u].op # "confirm"
  PROVE  DraftsArePrepared' /\ ConfirmationsClose' /\ ClosedIsConfirmed' /\ ConfirmedOnce'
<1>1. \A s, t \in Token : Confirms(s, t)' <=> Confirms(s, t)
  <2>1. \A t \in Token : ~Confirms(u, t) /\ ~Confirms(u, t)'
    BY DEF Confirms
  <2> QED BY <2>1, OldOnesStay
<1>2. DraftsArePrepared'
  <2> SUFFICES ASSUME NEW t \in Token, drafts'[t] # Absent  PROVE Prepared(t)'
    BY DEF DraftsArePrepared
  <2>1. drafts'[t] = drafts[t]
    OBVIOUS
  <2>2. t # u /\ Prepared(t)
    BY <2>1, OldOnesStay DEF DocumentsInv, DraftsArePrepared
  <2> QED BY <2>1, <2>2, PreparedStands
<1>3. ConfirmationsClose'
  <2> SUFFICES ASSUME NEW s \in Token, NEW t \in Token, Confirms(s, t)'
               PROVE  /\ drafts'[t] # Absent /\ drafts'[t].status = "confirmed"
                      /\ settled'[s].body.shown[2] = drafts'[t].hash
    BY DEF ConfirmationsClose
  <2>1. Confirms(s, t) /\ settled'[s] = settled[s]
    BY <1>1 DEF Confirms
  <2> QED BY <2>1 DEF DocumentsInv, ConfirmationsClose
<1>4. ClosedIsConfirmed' /\ ConfirmedOnce'
  BY <1>1 DEF DocumentsInv, ClosedIsConfirmed, ConfirmedOnce
<1> QED BY <1>2, <1>3, <1>4

-----------------------------------------------------------------------------
(* The calls *)

\* A document archived in one call.
LEMMA ArchiveKeepsInv ==
  ASSUME DocumentsInv, NEW request \in Request, Archive(request)
  PROVE  DocumentsInv'
<1>1. PICK document : document = request.body
  OBVIOUS
<1>2. PICK guest : guest = GuestOf[document.reservation]
  OBVIOUS
<1>3. PICK u : u = request.token
  OBVIOUS
<1>4. /\ request.op = "archive" /\ u \in Token /\ document \in Asked /\ document \in Document
      /\ settled[u] = Absent
  BY <1>1, <1>3, AskedAssumption DEF Archive, Request, Free
<1>5. CASE Refuse
  BY <1>5, NoWriteKeepsInv
<1>6. CASE /\ Absent \notin {document.number, document.hash, guest}
           /\ cards' = Filed(request, guest, document.type, document.number, document.hash,
                             IF document.details THEN document.number ELSE Absent)
           /\ Settle(request)
           /\ UNCHANGED drafts
  <2>1. /\ guest \in Guest /\ document.type \in DocumentType /\ document.number \in Number
        /\ document.hash \in Hash
    BY <1>2, <1>4, <1>6, GuestAssumption DEF Document
  <2>2. /\ settled'[u] = request
        /\ settled'[u] # Absent
        /\ \A t \in Token \ {u} : settled'[t] = settled[t]
        /\ settled' \in [Token -> Request \cup {Absent}]
    BY <1>1, <1>3, <1>4, <1>6, SettleKeeps
  <2>3. PICK new : new = [number |-> document.number, hash |-> document.hash, by |-> u,
                          details |-> IF document.details THEN document.number ELSE Absent]
    OBVIOUS
  <2>4. new \in ArchivedCard
    BY <1>4, <2>1, <2>3 DEF ArchivedCard
  <2>5. cards' = [cards EXCEPT ![<<guest, document.type>>] = new]
    BY <1>3, <1>6, <2>3 DEF Filed
  <2>6. RowFits(new, guest, document.type)'
    <3>1. settled'[u].op = "archive" /\ settled'[u].body = document
      BY <1>1, <1>4, <2>2
    <3>2. Intended(u)' = [document |-> document, hash |-> document.hash]
      BY <3>1 DEF Intended
    <3>3. new.by = u
      BY <2>3
    <3>4. RowFits(new, guest, document.type)' =
            (/\ settled'[u] # Absent
             /\ GuestOf[document.reservation] = guest /\ document.type = document.type
             /\ new.number = document.number /\ new.hash = document.hash
             /\ new.details \in {Absent, new.number})
      BY <3>2, <3>3 DEF RowFits
    <3> QED BY <1>2, <2>2, <2>3, <3>4
  <2>7. /\ cards' \in [Guest \X DocumentType -> ArchivedCard \cup {Absent}]
        /\ RowIsOneDocument'
    BY <1>4, <2>1, <2>2, <2>4, <2>5, <2>6, FiledFits
  <2>8. DraftsArePrepared' /\ ConfirmationsClose' /\ ClosedIsConfirmed' /\ ConfirmedOnce'
    BY <1>4, <1>6, <2>2, DraftsUnmoved
  <2>9. DocumentsTypeOK'
    BY <1>6, <2>2, <2>7 DEF DocumentsInv, DocumentsTypeOK
  <2> QED BY <2>2, <2>7, <2>8, <2>9 DEF DocumentsInv
<1> QED BY <1>1, <1>2, <1>5, <1>6 DEF Archive

\* A success that leaves the archive alone.
LEMMA CardsUnmoved ==
  ASSUME DocumentsInv, NEW u \in Token, settled[u] = Absent,
         \A t \in Token \ {u} : settled'[t] = settled[t], cards' = cards
  PROVE  RowIsOneDocument'
<1> SUFFICES ASSUME NEW g \in Guest, NEW type \in DocumentType, NEW row \in ArchivedCard,
                    cards'[<<g, type>>] = row
             PROVE  RowFits(row, g, type)'
  BY DEF RowIsOneDocument
<1>1. cards[<<g, type>>] = row
  OBVIOUS
<1>2. RowFits(row, g, type)
  BY <1>1 DEF DocumentsInv, RowIsOneDocument
<1> QED BY <1>2, RowStands

\* A document prepared for confirmation.
LEMMA PrepareKeepsInv ==
  ASSUME DocumentsInv, NEW request \in Request, Prepare(request)
  PROVE  DocumentsInv'
<1>1. PICK document : document = request.body
  OBVIOUS
<1>2. PICK guest : guest = GuestOf[document.reservation]
  OBVIOUS
<1>3. PICK u : u = request.token
  OBVIOUS
<1>4. /\ request.op = "prepare" /\ u \in Token /\ document \in Asked /\ document \in Document
      /\ settled[u] = Absent
  BY <1>1, <1>3, AskedAssumption DEF Prepare, Request, Free
<1>5. CASE Refuse
  BY <1>5, NoWriteKeepsInv
<1>6. CASE /\ Absent \notin {document.number, guest}
           /\ drafts' = [drafts EXCEPT ![request.token] =
                           [guest |-> guest, type |-> document.type,
                            number |-> document.number, hash |-> ShownHash(document),
                            status |-> "awaitingConfirmation"]]
           /\ Settle(request)
           /\ UNCHANGED cards
  <2>1. PICK shown : shown = ShownHash(document)
    OBVIOUS
  <2>2. /\ guest \in Guest /\ document.type \in DocumentType /\ document.number \in Number
        /\ shown \in Hash
    <3>1. guest \in Guest /\ document.type \in DocumentType /\ document.number \in Number
      BY <1>2, <1>4, <1>6, GuestAssumption DEF Document
    <3>2. HashOf[document.number] \in Hash
      BY <3>1, HashAssumption
    <3>3. document.hash \in Hash \cup {Absent}
      BY <1>4 DEF Document
    <3> QED BY <2>1, <3>1, <3>2, <3>3 DEF ShownHash
  <2>3. /\ settled'[u] = request
        /\ settled'[u] # Absent
        /\ \A t \in Token \ {u} : settled'[t] = settled[t]
        /\ settled' \in [Token -> Request \cup {Absent}]
    BY <1>1, <1>3, <1>4, <1>6, SettleKeeps
  <2>4. PICK new : new = [guest |-> guest, type |-> document.type,
                          number |-> document.number, hash |-> shown,
                          status |-> "awaitingConfirmation"]
    OBVIOUS
  <2>5. drafts \in [Token -> Draft \cup {Absent}] /\ new \in Draft
    BY <2>2, <2>4 DEF DocumentsInv, DocumentsTypeOK, Draft
  <2>6. drafts' = [drafts EXCEPT ![u] = new]
    BY <1>3, <1>6, <2>1, <2>4
  <2>7. /\ drafts'[u] = new /\ \A t \in Token \ {u} : drafts'[t] = drafts[t]
        /\ drafts' \in [Token -> Draft \cup {Absent}]
    BY <1>4, <2>5, <2>6
  <2>8. \A s, t \in Token : Confirms(s, t)' <=> Confirms(s, t) /\ s # u /\ t # u
    <3>1. \A t \in Token : ~Confirms(u, t)'
      BY <1>4, <2>3 DEF Confirms
    <3>2. \A s \in Token \ {u}, t \in Token : Confirms(s, t)' <=> Confirms(s, t)
      BY <1>4, <2>3, OldOnesStay
    <3>3. \A s \in Token : ~Confirms(s, u)
      BY <1>4, <2>3, OldOnesStay DEF DocumentsInv, ConfirmationsClose
    <3> QED BY <3>1, <3>2, <3>3
  <2>9. DraftsArePrepared'
    <3> SUFFICES ASSUME NEW t \in Token, drafts'[t] # Absent  PROVE Prepared(t)'
      BY DEF DraftsArePrepared
    <3>1. CASE t = u
      <4>1. settled'[u].op = "prepare" /\ settled'[u].body = document
        BY <1>1, <1>4, <2>3
      <4>2. document.number # Absent
        BY <1>6
      <4> QED BY <1>2, <1>4, <2>1, <2>3, <2>4, <2>7, <3>1, <4>1, <4>2 DEF Prepared
    <3>2. CASE t # u
      <4>1. drafts'[t] = drafts[t] /\ settled'[t] = settled[t] /\ Prepared(t)
        BY <2>3, <2>7, <3>2 DEF DocumentsInv, DraftsArePrepared
      <4> QED BY <4>1, PreparedStands
    <3> QED BY <3>1, <3>2
  <2>10. ConfirmationsClose'
    <3> SUFFICES ASSUME NEW s \in Token, NEW t \in Token, Confirms(s, t)'
                 PROVE  /\ drafts'[t] # Absent /\ drafts'[t].status = "confirmed"
                        /\ settled'[s].body.shown[2] = drafts'[t].hash
      BY DEF ConfirmationsClose
    <3>1. Confirms(s, t) /\ s # u /\ t # u
      BY <2>8
    <3>2. settled'[s] = settled[s] /\ drafts'[t] = drafts[t]
      BY <2>3, <2>7, <3>1
    <3> QED BY <3>1, <3>2 DEF DocumentsInv, ConfirmationsClose
  <2>11. ClosedIsConfirmed'
    <3> SUFFICES ASSUME NEW t \in Token, drafts'[t] # Absent, drafts'[t].status = "confirmed"
                 PROVE  \E s \in Token : Confirms(s, t)'
      BY DEF ClosedIsConfirmed
    <3>1. t # u
      BY <2>4, <2>7
    <3>2. PICK s \in Token : Confirms(s, t)
      BY <2>7, <3>1 DEF DocumentsInv, ClosedIsConfirmed
    <3>3. s # u
      BY <1>4, <2>3, <3>2, OldOnesStay
    <3> QED BY <2>8, <3>1, <3>2, <3>3
  <2>12. ConfirmedOnce'
    BY <2>8 DEF DocumentsInv, ConfirmedOnce
  <2>13. RowIsOneDocument'
    BY <1>4, <1>6, <2>3, CardsUnmoved
  <2>14. DocumentsTypeOK'
    BY <1>6, <2>3, <2>7 DEF DocumentsInv, DocumentsTypeOK
  <2> QED BY <2>3, <2>9, <2>10, <2>11, <2>12, <2>13, <2>14 DEF DocumentsInv
<1> QED BY <1>1, <1>2, <1>5, <1>6 DEF Prepare

\* A card confirmed.
LEMMA ConfirmKeepsInv ==
  ASSUME DocumentsInv, NEW request \in Request, Confirm(request)
  PROVE  DocumentsInv'
<1>1. PICK card : card = request.body
  OBVIOUS
<1>2. PICK u : u = request.token
  OBVIOUS
<1>3. request.op = "confirm" /\ u \in Token /\ card \in Card /\ settled[u] = Absent
  BY <1>1, <1>2 DEF Confirm, Request, Free
<1>4. CASE Refuse
  BY <1>4, NoWriteKeepsInv
<1>5. ASSUME NEW t \in Referenced(card.ref), Confirmable(t, card),
             cards' = Filed(request, drafts[t].guest, drafts[t].type, drafts[t].number,
                            drafts[t].hash, Absent),
             drafts' = Closed(t),
             Settle(request)
      PROVE  DocumentsInv'
  <2>1. PICK draft : draft = drafts[t]
    OBVIOUS
  <2>2. /\ t \in Token /\ draft \in Draft /\ draft.status = "awaitingConfirmation"
        /\ card.shown = <<t, draft.hash>>
    <3>1. t \in Token /\ draft # Absent
      BY <2>1 DEF Referenced
    <3>2. draft \in Draft
      BY <2>1, <3>1 DEF DocumentsInv, DocumentsTypeOK
    <3> QED BY <1>5, <2>1, <3>1, <3>2 DEF Confirmable
  <2>3. PICK d \in Asked :
          /\ settled[t] # Absent /\ settled[t].op = "prepare" /\ settled[t].body = d
          /\ d.number # Absent
          /\ draft.guest = GuestOf[d.reservation] /\ draft.type = d.type
          /\ draft.hash = ShownHash(d) /\ draft.number = d.number
    <3>1. Prepared(t)
      BY <2>1, <2>2, RowAssumption DEF DocumentsInv, DraftsArePrepared
    <3>2. draft.status # "confirmed"
      BY <2>2
    <3> QED BY <2>1, <3>1, <3>2 DEF Prepared
  <2>4. t # u
    BY <1>3, <2>3
  <2>5. /\ draft.guest \in Guest /\ draft.type \in DocumentType /\ draft.number \in Number
        /\ draft.hash \in Hash
    <3>1. d.number \in Number
      BY <2>3, AskedAssumption DEF Document
    <3> QED BY <2>2, <2>3, <3>1 DEF Draft
  <2>6. /\ settled'[u] = request
        /\ settled'[u] # Absent
        /\ \A x \in Token \ {u} : settled'[x] = settled[x]
        /\ settled' \in [Token -> Request \cup {Absent}]
    BY <1>1, <1>2, <1>3, <1>5, SettleKeeps
  <2>7. PICK closed : closed = [draft EXCEPT !.number = Absent, !.status = "confirmed"]
    OBVIOUS
  <2>8. /\ closed \in Draft /\ closed.number = Absent /\ closed.status = "confirmed"
        /\ closed.guest = draft.guest /\ closed.type = draft.type
        /\ closed.hash = draft.hash /\ closed # Absent
    <3>1. closed \in Draft
      BY <2>2, <2>7 DEF Draft
    <3>2. /\ closed.number = Absent /\ closed.status = "confirmed"
          /\ closed.guest = draft.guest /\ closed.type = draft.type
          /\ closed.hash = draft.hash
      BY <2>2, <2>7 DEF Draft
    <3> QED BY <3>1, <3>2, RowAssumption
  <2>9. /\ drafts'[t] = closed /\ \A x \in Token \ {t} : drafts'[x] = drafts[x]
        /\ drafts' \in [Token -> Draft \cup {Absent}]
    <3>1. drafts \in [Token -> Draft \cup {Absent}]
      BY DEF DocumentsInv, DocumentsTypeOK
    <3>2. drafts' = [drafts EXCEPT ![t] = closed]
      BY <1>5, <2>1, <2>2, <2>7, <3>1 DEF Closed
    <3> QED BY <2>2, <2>8, <3>1, <3>2
  <2>10. \A s, x \in Token : Confirms(s, x)' <=> Confirms(s, x) \/ (s = u /\ x = t)
    <3>1. \A x \in Token : Confirms(u, x)' <=> x = t
      <4>1. settled'[u].op = "confirm" /\ settled'[u].body.shown[1] = t
        BY <1>1, <1>3, <2>2, <2>6
      <4> QED BY <2>6, <4>1 DEF Confirms
    <3>2. /\ \A s \in Token \ {u}, x \in Token : Confirms(s, x)' <=> Confirms(s, x)
          /\ \A x \in Token : ~Confirms(u, x)
      BY <1>3, <2>6, OldOnesStay
    <3> QED BY <3>1, <3>2
  <2>11. \A s \in Token : ~Confirms(s, t)
    BY <2>1, <2>2 DEF DocumentsInv, ConfirmationsClose
  <2>12. DraftsArePrepared'
    <3> SUFFICES ASSUME NEW x \in Token, drafts'[x] # Absent  PROVE Prepared(x)'
      BY DEF DraftsArePrepared
    <3>1. CASE x = t
      <4>1. settled'[t] = settled[t]
        BY <2>2, <2>4, <2>6
      <4> QED BY <2>3, <2>8, <2>9, <3>1, <4>1 DEF Prepared
    <3>2. CASE x # t
      <4>1. drafts'[x] = drafts[x] /\ Prepared(x)
        BY <2>9, <3>2 DEF DocumentsInv, DraftsArePrepared
      <4>2. x # u
        BY <1>3, <4>1 DEF Prepared
      <4>3. settled'[x] = settled[x]
        BY <2>6, <4>2
      <4> QED BY <4>1, <4>3, PreparedStands
    <3> QED BY <3>1, <3>2
  <2>13. ConfirmationsClose'
    <3> SUFFICES ASSUME NEW s \in Token, NEW x \in Token, Confirms(s, x)'
                 PROVE  /\ drafts'[x] # Absent /\ drafts'[x].status = "confirmed"
                        /\ settled'[s].body.shown[2] = drafts'[x].hash
      BY DEF ConfirmationsClose
    <3>1. CASE Confirms(s, x)
      <4>1. s # u /\ x # t
        BY <1>3, <2>6, <2>11, <3>1, OldOnesStay
      <4>2. settled'[s] = settled[s] /\ drafts'[x] = drafts[x]
        BY <2>6, <2>9, <4>1
      <4> QED BY <3>1, <4>2 DEF DocumentsInv, ConfirmationsClose
    <3>2. CASE s = u /\ x = t
      <4>1. settled'[u].body.shown[2] = draft.hash
        BY <1>1, <2>2, <2>6
      <4> QED BY <2>8, <2>9, <3>2, <4>1
    <3> QED BY <2>10, <3>1, <3>2
  <2>14. ClosedIsConfirmed'
    <3> SUFFICES ASSUME NEW x \in Token, drafts'[x] # Absent, drafts'[x].status = "confirmed"
                 PROVE  \E s \in Token : Confirms(s, x)'
      BY DEF ClosedIsConfirmed
    <3>1. CASE x = t
      BY <1>3, <2>10, <3>1
    <3>2. CASE x # t
      <4>1. PICK s \in Token : Confirms(s, x)
        BY <2>9, <3>2 DEF DocumentsInv, ClosedIsConfirmed
      <4> QED BY <2>10, <4>1
    <3> QED BY <3>1, <3>2
  <2>15. ConfirmedOnce'
    BY <2>10, <2>11 DEF DocumentsInv, ConfirmedOnce
  <2>16. PICK new : new = [number |-> draft.number, hash |-> draft.hash, by |-> u,
                           details |-> Absent]
    OBVIOUS
  <2>17. new \in ArchivedCard /\ cards' = [cards EXCEPT ![<<draft.guest, draft.type>>] = new]
    BY <1>2, <1>3, <1>5, <2>1, <2>5, <2>16 DEF ArchivedCard, Filed
  <2>18. RowFits(new, draft.guest, draft.type)'
    <3>1. settled'[u].op = "confirm" /\ settled'[u].body = card
      BY <1>1, <1>3, <2>6
    <3>2. card.shown[1] = t /\ card.shown[2] = draft.hash
      BY <2>2
    <3>3. settled'[t].body = d
      <4>1. settled'[t] = settled[t]
        BY <2>2, <2>4, <2>6
      <4> QED BY <2>3, <4>1
    <3>4. Intended(u)' = [document |-> d, hash |-> draft.hash]
      BY <3>1, <3>2, <3>3 DEF Intended
    <3>5. new.by = u
      BY <2>16
    <3>6. RowFits(new, draft.guest, draft.type)' =
            (/\ settled'[u] # Absent
             /\ GuestOf[d.reservation] = draft.guest /\ d.type = draft.type
             /\ new.number = d.number /\ new.hash = draft.hash
             /\ new.details \in {Absent, new.number})
      BY <3>4, <3>5 DEF RowFits
    <3> QED BY <2>3, <2>6, <2>16, <3>6
  <2>19. /\ cards' \in [Guest \X DocumentType -> ArchivedCard \cup {Absent}]
         /\ RowIsOneDocument'
    BY <1>3, <2>5, <2>6, <2>17, <2>18, FiledFits
  <2>20. DocumentsTypeOK'
    BY <2>6, <2>9, <2>19 DEF DocumentsTypeOK
  <2> QED BY <2>6, <2>12, <2>13, <2>14, <2>15, <2>19, <2>20 DEF DocumentsInv
<1> QED BY <1>1, <1>4, <1>5 DEF Confirm

\* Any other operation.
LEMMA OtherKeepsInv ==
  ASSUME DocumentsInv, NEW request \in Request, Other(request)
  PROVE  DocumentsInv'
<1>1. PICK u : u = request.token
  OBVIOUS
<1>2. request.op = "other" /\ request.body = Absent /\ u \in Token /\ settled[u] = Absent
  BY <1>1 DEF Other, Request, Free
<1>3. Settle(request) /\ cards' = cards /\ drafts' = drafts
  BY DEF Other
<1>4. /\ settled'[u] = request
      /\ \A t \in Token \ {u} : settled'[t] = settled[t]
      /\ settled' \in [Token -> Request \cup {Absent}]
  BY <1>1, <1>3, SettleKeeps
<1>5. DraftsArePrepared' /\ ConfirmationsClose' /\ ClosedIsConfirmed' /\ ConfirmedOnce'
  BY <1>2, <1>3, <1>4, DraftsUnmoved
<1>6. RowIsOneDocument'
  BY <1>2, <1>3, <1>4, CardsUnmoved
<1>7. DocumentsTypeOK'
  BY <1>3, <1>4 DEF DocumentsInv, DocumentsTypeOK
<1> QED BY <1>5, <1>6, <1>7 DEF DocumentsInv

-----------------------------------------------------------------------------
(* The theorems *)

\* Every call keeps the invariant.
LEMMA DocumentsStepKeepsInv ==
  ASSUME DocumentsInv, [DocumentsNext]_documentVars
  PROVE  DocumentsInv'
<1>1. ASSUME NEW request \in Request,
             Replay(request) \/ Archive(request) \/ Prepare(request) \/ Confirm(request)
               \/ Other(request)
      PROVE  DocumentsInv'
  BY <1>1, NoWriteKeepsInv, ArchiveKeepsInv, PrepareKeepsInv, ConfirmKeepsInv, OtherKeepsInv
<1>2. CASE UNCHANGED documentVars
  BY <1>2, TablesUntouched
<1> QED BY <1>1, <1>2 DEF DocumentsNext

\* The archive's inductive invariant, for any tokens, guests, documents and
\* short references.
THEOREM DocumentsInvariant == DocumentsSpec => []DocumentsInv
<1>1. DocumentsInv /\ [DocumentsNext]_documentVars => DocumentsInv'
  BY DocumentsStepKeepsInv
<1> QED BY <1>1, DocumentsInitial, PTL DEF DocumentsSpec

\* Rows, drafts and stored answers have their types (guestIdCardStore.ts).
THEOREM DocumentsTypeCorrect == DocumentsSpec => []DocumentsTypeOK
<1>1. DocumentsInv => DocumentsTypeOK
  BY DEF DocumentsInv
<1> QED BY <1>1, DocumentsInvariant, PTL

\* A row of the archive is the document of one call, also where drafts share
\* a short reference and confirmations come in any order.
THEOREM RowsAreOneDocument == DocumentsSpec => []RowIsOneDocument
<1>1. DocumentsInv => RowIsOneDocument
  BY DEF DocumentsInv
<1> QED BY <1>1, DocumentsInvariant, PTL

\* No two calls confirm one card.
THEOREM CardsConfirmedOnce == DocumentsSpec => []ConfirmedOnce
<1>1. DocumentsInv => ConfirmedOnce
  BY DEF DocumentsInv
<1> QED BY <1>1, DocumentsInvariant, PTL

\* A draft keeps its number exactly until its card is confirmed.
THEOREM NumbersWaitForTheirCards == DocumentsSpec => []NumberWaitsForItsCard
<1>1. DocumentsInv => NumberWaitsForItsCard
  <2> SUFFICES ASSUME DocumentsInv, NEW t \in Token, drafts[t] # Absent
               PROVE  /\ settled[t] # Absent /\ settled[t].op = "prepare"
                      /\ drafts[t].number = IF \E s \in Token : Confirms(s, t) THEN Absent
                                            ELSE settled[t].body.number
    BY DEF NumberWaitsForItsCard
  <2>1. PICK d \in Asked :
          /\ settled[t] # Absent /\ settled[t].op = "prepare" /\ settled[t].body = d
          /\ drafts[t].number = IF drafts[t].status = "confirmed" THEN Absent ELSE d.number
    BY DEF DocumentsInv, DraftsArePrepared, Prepared
  <2>2. drafts[t].status = "confirmed" <=> \E s \in Token : Confirms(s, t)
    BY DEF DocumentsInv, ConfirmationsClose, ClosedIsConfirmed
  <2> QED BY <2>1, <2>2
<1> QED BY <1>1, DocumentsInvariant, PTL

-----------------------------------------------------------------------------
(* The request queue *)

\* A queued row is a request, and an updated one still is: content and target
\* stay, and one more update is counted.
LEMMA RequestRows ==
  /\ \A content \in Content, target \in Target : Queued(content, target) \in OperationRequest
  /\ \A row \in OperationRequest, status \in RequestStatus \cup {Kept},
        result \in Result \cup {Nothing, Kept} :
       row.updates < MaxUpdates =>
         /\ Merged(row, status, result) \in OperationRequest
         /\ Merged(row, status, result).content = row.content
         /\ Merged(row, status, result).target = row.target
         /\ Merged(row, status, result).updates = row.updates + 1
<1>1. \A content \in Content, target \in Target : Queued(content, target) \in OperationRequest
  BY RequestAssumption DEF Queued, OperationRequest
<1>2. ASSUME NEW row \in OperationRequest, NEW status \in RequestStatus \cup {Kept},
             NEW result \in Result \cup {Nothing, Kept}, row.updates < MaxUpdates
      PROVE  /\ Merged(row, status, result) \in OperationRequest
             /\ Merged(row, status, result).content = row.content
             /\ Merged(row, status, result).target = row.target
             /\ Merged(row, status, result).updates = row.updates + 1
  <2>1. row.updates + 1 \in 0 .. MaxUpdates
    BY <1>2, RequestAssumption DEF OperationRequest
  <2> QED BY <2>1 DEF Merged, OperationRequest
<1> QED BY <1>1, <1>2

\* A create leaves the queue alone, or adds a row under an unused token.
LEMMA CreateCases ==
  ASSUME NEW t \in RequestToken, NEW content \in Content, NEW target \in Target,
         CreateRequest(t, content, target)
  PROVE  \/ UNCHANGED requests
         \/ /\ requests[t] = Nothing
            /\ requests' = [requests EXCEPT ![t] = Queued(content, target)]
  BY DEF CreateRequest, Stored

\* An update moves one existing row.
LEMMA UpdateMovesOneRow ==
  ASSUME RequestsTypeOK, NEW t \in RequestToken, NEW status \in RequestStatus \cup {Kept},
         NEW result \in Result \cup {Nothing, Kept}, UpdateRequest(t, status, result)
  PROVE  /\ requests[t] \in OperationRequest /\ requests[t].updates < MaxUpdates
         /\ requests' = [requests EXCEPT ![t] = Merged(requests[t], status, result)]
<1>1. /\ requests[t] \in OperationRequest /\ requests[t].updates < MaxUpdates
      /\ requests' = [requests EXCEPT ![t] = Merged(@, status, result)]
  BY DEF UpdateRequest, RequestsTypeOK
<1> QED BY <1>1

\* Every call on the queue keeps the types of its rows.
LEMMA RequestsStepKeepsTypes ==
  ASSUME RequestsTypeOK, [RequestsNext]_requests
  PROVE  RequestsTypeOK'
<1>1. ASSUME NEW t \in RequestToken, NEW content \in Content, NEW target \in Target,
             CreateRequest(t, content, target)
      PROVE  RequestsTypeOK'
  BY <1>1, CreateCases, RequestRows DEF RequestsTypeOK
<1>2. ASSUME NEW t \in RequestToken, NEW status \in RequestStatus \cup {Kept},
             NEW result \in Result \cup {Nothing, Kept}, UpdateRequest(t, status, result)
      PROVE  RequestsTypeOK'
  BY <1>2, UpdateMovesOneRow, RequestRows DEF RequestsTypeOK
<1>3. CASE UNCHANGED requests
  BY <1>3 DEF RequestsTypeOK
<1> QED BY <1>1, <1>2, <1>3 DEF RequestsNext

\* Rows of the queue have their types, for any tokens, contents and targets
\* (operationRequestStore.ts).
THEOREM RequestsTypeCorrect == RequestsSpec => []RequestsTypeOK
<1>1. RequestsInit => RequestsTypeOK
  BY DEF RequestsInit, RequestsTypeOK
<1>2. RequestsTypeOK /\ [RequestsNext]_requests => RequestsTypeOK'
  BY RequestsStepKeepsTypes
<1> QED BY <1>1, <1>2, PTL DEF RequestsSpec

\* What a step may do to a row that is there.
Survives(t) ==
  /\ requests'[t] # Nothing
  /\ requests'[t].content = requests[t].content /\ requests'[t].target = requests[t].target
  /\ requests'[t] # requests[t] => requests'[t].updates = requests[t].updates + 1

\* No call drops a row, changes what it was created as, or moves it unless it
\* counts as an update.
LEMMA RowsSurvive ==
  ASSUME RequestsTypeOK, RequestsNext, NEW u \in RequestToken, requests[u] # Nothing
  PROVE  Survives(u)
<1>1. ASSUME requests'[u] = requests[u]  PROVE Survives(u)
  BY <1>1 DEF Survives
<1>2. ASSUME NEW t \in RequestToken, NEW content \in Content, NEW target \in Target,
             CreateRequest(t, content, target)
      PROVE  Survives(u)
  <2>1. requests'[u] = requests[u]
    BY <1>2, CreateCases DEF RequestsTypeOK
  <2> QED BY <1>1, <2>1
<1>3. ASSUME NEW t \in RequestToken, NEW status \in RequestStatus \cup {Kept},
             NEW result \in Result \cup {Nothing, Kept}, UpdateRequest(t, status, result)
      PROVE  Survives(u)
  <2>1. CASE t # u
    <3>1. requests'[u] = requests[u]
      BY <1>3, <2>1, UpdateMovesOneRow DEF RequestsTypeOK
    <3> QED BY <1>1, <3>1
  <2>2. CASE t = u
    <3>1. /\ requests'[u] = Merged(requests[u], status, result)
          /\ requests[u] \in OperationRequest /\ requests[u].updates < MaxUpdates
      BY <1>3, <2>2, UpdateMovesOneRow DEF RequestsTypeOK
    <3>2. /\ Merged(requests[u], status, result) \in OperationRequest
          /\ Merged(requests[u], status, result).content = requests[u].content
          /\ Merged(requests[u], status, result).target = requests[u].target
          /\ Merged(requests[u], status, result).updates = requests[u].updates + 1
      BY <3>1, RequestRows
    <3> QED BY <3>1, <3>2, NothingAssumption DEF Survives
  <2> QED BY <2>1, <2>2
<1> QED BY <1>2, <1>3 DEF RequestsNext

\* Creating a request again changes nothing: a row only moves by updates,
\* whatever the clients repeat and in whatever order.
THEOREM RepeatsAreHarmless == RequestsSpec => RepeatsChangeNothing
<1>1. RequestsTypeOK /\ [RequestsNext]_requests =>
        [\A t \in RequestToken : requests[t] # Nothing =>
           /\ requests'[t] # Nothing
           /\ requests'[t].content = requests[t].content /\ requests'[t].target = requests[t].target
           /\ requests'[t] # requests[t] => requests'[t].updates = requests[t].updates + 1]_requests
  BY RowsSurvive DEF Survives
<1> QED BY <1>1, RequestsTypeCorrect, PTL DEF RequestsSpec, RepeatsChangeNothing

-----------------------------------------------------------------------------
(* Both together *)

\* The desk is an archive and a queue: no call of one is seen in the other,
\* so what is proved of each holds of the desk.
THEOREM DeskRunsBoth == DeskSpec => DocumentsSpec /\ RequestsSpec
<1>1. DeskInit => DocumentsInit /\ RequestsInit
  BY DEF DeskInit
<1>2. [DeskNext]_DeskVars => [DocumentsNext]_documentVars /\ [RequestsNext]_requests
  BY DEF DeskNext, DeskVars
<1> QED BY <1>1, <1>2, PTL DEF DeskSpec, DocumentsSpec, RequestsSpec
=============================================================================
