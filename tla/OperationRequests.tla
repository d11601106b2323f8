--------------------------- MODULE OperationRequests ---------------------------
(***************************************************************************)
(* The queue of requests to operators.  A client creates a request under a *)
(* token; operators and the agent update its status and result, in any     *)
(* order and as often as they like.  Creating again under the same token   *)
(* returns the request as it stands.                                       *)
(***************************************************************************)
EXTENDS Naturals

CONSTANTS
  RequestToken,
  Content,       \* what a create compares: fingerprint and payload
  Target,        \* what it does not: action, source, room, reservation
  Supported,     \* targets whose action and source are known
  RequestStatus,
  Result,
  Kept,          \* a field an update leaves out
  Nothing,       \* no request, no result
  MaxUpdates     \* bound on the updates of one request

ASSUME RequestAssumption ==
  /\ Supported \subseteq Target /\ "queued" \in RequestStatus /\ MaxUpdates \in Nat
  /\ Kept \notin RequestStatus \cup Result \cup {Nothing} /\ Nothing \notin Result

\* "updates" is a history: how many updates the row has taken.
OperationRequest == [content : Content, target : Target, status : RequestStatus,
                     result : Result \cup {Nothing}, updates : 0 .. MaxUpdates]

ASSUME NothingAssumption == Nothing \notin OperationRequest

VARIABLE
  requests   \* operation_requests, by client token

RequestsTypeOK == requests \in [RequestToken -> OperationRequest \cup {Nothing}]

RequestsInit == requests = [t \in RequestToken |-> Nothing]

Queued(content, target) ==
  [content |-> content, target |-> target, status |-> "queued", result |-> Nothing, updates |-> 0]

\* Mutant: the row is written again.
Stored_again(t, content, target) == [requests EXCEPT ![t] = Queued(content, target)]

\* A token that is taken keeps its row.
Stored(t, content, target) ==
  IF requests[t] = Nothing THEN [requests EXCEPT ![t] = Queued(content, target)] ELSE requests

\* Refused: an unknown action or source, or a taken token with another content.
Creatable(t, content, target) ==
  /\ target \in Supported
  /\ requests[t] # Nothing => requests[t].content = content

\* The answer is the stored row, as it stands.
CreateRequest(t, content, target) ==
  requests' = IF Creatable(t, content, target) THEN Stored(t, content, target) ELSE requests

\* Mutant: a result left out is stored as such.
Merged_always(row, status, result) ==
  [row EXCEPT !.status = IF status = Kept THEN @ ELSE status, !.result = result,
              !.updates = @ + 1]

\* Any status may follow any other; a null result clears the stored one.
Merged(row, status, result) ==
  [row EXCEPT !.status = IF status = Kept THEN @ ELSE status,
              !.result = IF result = Kept THEN @ ELSE result,
              !.updates = @ + 1]

\* An update of a row that is not there, or to an unknown status, does nothing.
UpdateRequest(t, status, result) ==
  /\ requests[t] # Nothing
  /\ requests[t].updates < MaxUpdates
  /\ requests' = [requests EXCEPT ![t] = Merged(@, status, result)]

RequestsNext ==
  \E t \in RequestToken :
    \/ \E content \in Content, target \in Target : CreateRequest(t, content, target)
    \/ \E status \in RequestStatus \cup {Kept}, result \in Result \cup {Nothing, Kept} :
         UpdateRequest(t, status, result)

RequestsSpec == RequestsInit /\ [][RequestsNext]_requests

-----------------------------------------------------------------------------
(* Properties *)

\* A request is what it was created as, and only an update moves it: creating
\* it again, which a client does when an answer is lost, neither queues it a
\* second time nor drops what the operators have written.
RepeatsChangeNothing ==
  [][\A t \in RequestToken : requests[t] # Nothing =>
       /\ requests'[t] # Nothing
       /\ requests'[t].content = requests[t].content /\ requests'[t].target = requests[t].target
       /\ requests'[t] # requests[t] => requests'[t].updates = requests[t].updates + 1]_requests
=============================================================================
