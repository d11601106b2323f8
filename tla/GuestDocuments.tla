----------------------------- MODULE GuestDocuments -----------------------------
(***************************************************************************)
(* The archive of guests' identity documents.  A document is archived in   *)
(* one call, or prepared first: the number then waits in a draft, the      *)
(* client gets a card with the number's hash only, and the confirmation of *)
(* that card moves the number into the archive.                            *)
(*                                                                         *)
(* Every successful call leaves its answer under its client token, in the  *)
(* one table all operations of the API share.  A token that is used again  *)
(* is answered from there: with the stored answer if the fingerprint the   *)
(* client sends is the stored one, with a refusal if not.  The fingerprint *)
(* is any string of the client's, for another operation or document it may *)
(* be the same, and the stored answer is then the wrong one.  Either way   *)
(* nothing is written, and what is written is all this module is about.    *)
(***************************************************************************)
EXTENDS Naturals

CONSTANTS
  Token,        \* client tokens
  Guest,
  Reservation,  \* references a client may name
  GuestOf,      \* the guest of a reservation, or Absent if there is none
  DocumentType,
  Number,       \* numbers of documents (with the holder's name)
  HashOf,       \* the hash of a number
  Hash,
  Ref,          \* short references of drafts
  RefOf,        \* of a prepare call's token; two tokens may share one
  Asked,        \* documents clients send
  Absent

ASSUME HashAssumption == HashOf \in [Number -> Hash]
ASSUME RefAssumption == RefOf \in [Token -> Ref]
ASSUME GuestAssumption == GuestOf \in [Reservation -> Guest \cup {Absent}]

\* A document as a client describes it; what it leaves out is Absent.
Document == [reservation : Reservation, type : DocumentType, number : Number \cup {Absent},
             hash : Hash \cup {Absent}, details : BOOLEAN]

ASSUME AskedAssumption == Asked \subseteq Document
ASSUME AbsentAssumption ==
  Absent \notin Guest \cup Number \cup Hash \cup DocumentType

\* What a confirmation sends back: the draft's reference and the card's
\* payload, a digest of the draft's id (of its token) and the hash shown.
Card == [ref : Ref, shown : Token \X Hash]

\* Any other operation of the API is one whose body does not matter here.
Request ==
       [op : {"archive", "prepare"}, token : Token, body : Asked]
  \cup [op : {"confirm"}, token : Token, body : Card]
  \cup [op : {"other"}, token : Token, body : {Absent}]

VARIABLES
  cards,    \* guest_id_cards, by guest and document type
  drafts,   \* guest_id_card_drafts, by the token that prepared them
  settled   \* api_idempotency: the call each token's answer is stored for

documentVars == <<cards, drafts, settled>>

-----------------------------------------------------------------------------
(* Rows *)

\* "by" is a history: the token of the call that wrote the row.
ArchivedCard == [number : Number, hash : Hash, details : Number \cup {Absent}, by : Token]

Draft == [guest : Guest, type : DocumentType, number : Number \cup {Absent}, hash : Hash,
          status : {"awaitingConfirmation", "confirmed"}]

ASSUME RowAssumption == Absent \notin ArchivedCard \cup Draft \cup Request

DocumentsTypeOK ==
  /\ cards \in [Guest \X DocumentType -> ArchivedCard \cup {Absent}]
  /\ drafts \in [Token -> Draft \cup {Absent}]
  /\ settled \in [Token -> Request \cup {Absent}]

DocumentsInit ==
  /\ cards = [key \in Guest \X DocumentType |-> Absent]
  /\ drafts = [t \in Token |-> Absent]
  /\ settled = [t \in Token |-> Absent]

Free(token) == settled[token] = Absent

Refuse == UNCHANGED documentVars

\* A used token: the stored answer or a refusal, and no write.
Replay(request) ==
  /\ ~Free(request.token)
  /\ UNCHANGED documentVars

\* A success: its answer is stored under the token.
Settle(request) == settled' = [settled EXCEPT ![request.token] = request]

\* One row per guest and type of document; the last write replaces it whole.
Filed(request, guest, type, number, hash, details) ==
  [cards EXCEPT ![<<guest, type>>] =
     [number |-> number, hash |-> hash, by |-> request.token, details |-> details]]

-----------------------------------------------------------------------------
(* The calls *)

Archive(request) ==
  LET document == request.body
      guest == GuestOf[document.reservation]
  IN /\ request.op = "archive" /\ Free(request.token)
     /\ \/ /\ Absent \in {document.number, document.hash, guest}
           /\ Refuse
        \/ /\ Absent \notin {document.number, document.hash, guest}
           /\ cards' = Filed(request, guest, document.type, document.number, document.hash,
                             IF document.details THEN document.number ELSE Absent)
           /\ Settle(request)
           /\ UNCHANGED drafts

\* Mutant: the hash is what the client gave, or nothing.
ShownHash_asGiven(document) == document.hash

\* A hash the client does not give is computed; one it gives is not checked.
ShownHash(document) == IF document.hash = Absent THEN HashOf[document.number] ELSE document.hash

Prepare(request) ==
  LET document == request.body
      guest == GuestOf[document.reservation]
  IN /\ request.op = "prepare" /\ Free(request.token)
     /\ \/ /\ Absent \in {document.number, guest}
           /\ Refuse
        \/ /\ Absent \notin {document.number, guest}
           /\ drafts' = [drafts EXCEPT ![request.token] =
                           [guest |-> guest, type |-> document.type,
                            number |-> document.number, hash |-> ShownHash(document),
                            status |-> "awaitingConfirmation"]]
           /\ Settle(request)
           /\ UNCHANGED cards

\* A short reference may name several drafts; the lookup takes one of them.
Referenced(ref) == {t \in Token : drafts[t] # Absent /\ RefOf[t] = ref}

\* Mutant: the payload is not compared.
Confirmable_anyCard(t, card) == drafts[t].status = "awaitingConfirmation"

Confirmable(t, card) ==
  /\ card.shown = <<t, drafts[t].hash>>
  /\ drafts[t].status = "awaitingConfirmation"

\* Mutant: the draft stays open after its number is archived.
Closed_open(t) == [drafts EXCEPT ![t].number = Absent]

\* Mutant: the confirmed draft keeps the number.
Closed_keeping(t) == [drafts EXCEPT ![t].status = "confirmed"]

Closed(t) == [drafts EXCEPT ![t].number = Absent, ![t].status = "confirmed"]

\* The dates the draft was given are not looked at: it never expires.
Confirm(request) ==
  /\ request.op = "confirm" /\ Free(request.token)
  /\ \/ /\ Referenced(request.body.ref) = {}
        /\ Refuse
     \/ \E t \in Referenced(request.body.ref) :
          \/ /\ ~Confirmable(t, request.body)
             /\ Refuse
          \/ /\ Confirmable(t, request.body)
             /\ cards' = Filed(request, drafts[t].guest, drafts[t].type, drafts[t].number,
                               drafts[t].hash, Absent)
             /\ drafts' = Closed(t)
             /\ Settle(request)

\* Any other operation of the API that settles under the token.
Other(request) ==
  /\ request.op = "other" /\ Free(request.token)
  /\ Settle(request)
  /\ UNCHANGED <<cards, drafts>>

DocumentsNext ==
  \E request \in Request :
    Replay(request) \/ Archive(request) \/ Prepare(request) \/ Confirm(request) \/ Other(request)

DocumentsSpec == DocumentsInit /\ [][DocumentsNext]_documentVars

-----------------------------------------------------------------------------
(* Properties *)

\* The document, guest and hash a settled call was about: a confirmation is
\* about what the draft its card showed was prepared from.
Intended(t) ==
  LET call == settled[t]
  IN IF call.op = "confirm"
     THEN [document |-> settled[call.body.shown[1]].body, hash |-> call.body.shown[2]]
     ELSE [document |-> call.body, hash |-> call.body.hash]

\* A row and the call that wrote it are about one document.
RowFits(row, guest, type) ==
  LET intended == Intended(row.by)
  IN /\ settled[row.by] # Absent
     /\ GuestOf[intended.document.reservation] = guest /\ intended.document.type = type
     /\ row.number = intended.document.number /\ row.hash = intended.hash
     /\ row.details \in {Absent, row.number}

\* A row of the archive is, in all its fields, the document of one call: the
\* one archived, or the one whose card was confirmed - not another draft with
\* the same short reference, and no details of an earlier document.
RowIsOneDocument ==
  \A guest \in Guest, type \in DocumentType, row \in ArchivedCard :
    cards[<<guest, type>>] = row => RowFits(row, guest, type)

\* The call of token s has confirmed the card of the draft of token t.
Confirms(s, t) ==
  /\ settled[s] # Absent /\ settled[s].op = "confirm"
  /\ settled[s].body.shown[1] = t

\* A card is confirmed once, however often and under however many tokens the
\* staff presses the button.
ConfirmedOnce == \A s, u, t \in Token : Confirms(s, t) /\ Confirms(u, t) => s = u

\* A draft holds the number it was prepared with until its own confirmation,
\* and no longer.
NumberWaitsForItsCard ==
  \A t \in Token : drafts[t] # Absent =>
    /\ settled[t] # Absent /\ settled[t].op = "prepare"
    /\ drafts[t].number = IF \E s \in Token : Confirms(s, t) THEN Absent
                          ELSE settled[t].body.number
=============================================================================
