\* Documents archived and prepared under four tokens, two of whose drafts
\* share a short reference; one operation request, repeated and updated.
SPECIFICATION DeskSpec
CONSTANTS
  A = A
  B = B
  Nobody = Nobody
  n1 = n1
  n2 = n2
  h1 = h1
  h2 = h2
  same = same
  own = own
  Absent = Absent
  Nothing = Nothing
  Kept = Kept
  Token = {1,2,3,4}
  Guest = {"ann", "bob"}
  Reservation = {A, B, Nobody}
  GuestOf <- MCGuestOf
  DocumentType = {"id"}
  Number = {n1, n2}
  Hash = {h1, h2}
  HashOf <- MCHashOf
  Ref = {same, own}
  RefOf <- MCRefOf
  Asked <- MCAsked
  RequestToken = {1}
  Content = {"clean", "repair"}
  Target = {"room", "nonsense"}
  Supported = {"room"}
  RequestStatus = {"queued", "completed"}
  Result = {"done"}
  MaxUpdates = 1
INVARIANTS DocumentsTypeOK RowIsOneDocument ConfirmedOnce NumberWaitsForItsCard RequestsTypeOK
PROPERTY RepeatsChangeNothing
