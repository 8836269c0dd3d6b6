--------------------------- MODULE CommentsProofs ---------------------------
(***************************************************************************)
(* Proofs about Comments: identities stay private, and therefore visitors  *)
(* change nothing but their own comments; a settled browser keeps its own. *)
(* Whatever the number of browsers, requests under way and comments.       *)
(***************************************************************************)
EXTENDS Comments, TLAPS

USE NoneAssumption, StaffAssumption

LEMMA RowFacts ==
  ASSUME NEW s \in {"unused", "live", "deleted"}
  PROVE  NoRow(s) \in Row
  BY DEF NoRow, Row

LEMMA SentFacts ==
  ASSUME TypeOK, NEW ch \in Channel, request[ch].at = "sent"
  PROVE  request[ch] \in Sent
  BY DEF TypeOK, Idle, Response

LEMMA ArrivesFacts ==
  ASSUME TypeOK, NEW ch \in Channel, NEW op, Arrives(ch, op)
  PROVE  /\ request[ch].browser \in Browser
         /\ request[ch].token \in Token \cup {None}
         /\ request[ch].target \in Comment \cup {None}
         /\ op \in Changing => request[ch].target \in Comment
  <1>1. request[ch] \in Sent BY SentFacts DEF Arrives
  <1>2. request[ch].op = op BY DEF Arrives
  <1> QED BY <1>1, <1>2 DEF Sent, Writing, Changing

LEMMA ResponseFacts ==
  ASSUME TypeOK, NEW ch \in Channel, request[ch].at = "response"
  PROVE  request[ch].browser \in Browser /\ request[ch].token \in Token
  <1>1. request[ch] \in Response BY DEF TypeOK, Idle, Sent
  <1> QED BY <1>1 DEF Response

LEMMA DoneType ==
  ASSUME TypeOK, NEW ch \in Channel, Done(ch)
  PROVE  request' \in [Channel -> {Idle} \cup Sent \cup Response]
  BY DEF TypeOK, Done

LEMMA RespondType ==
  ASSUME TypeOK, NEW ch \in Channel, NEW t \in Token,
         request[ch].browser \in Browser, Respond(ch, t)
  PROVE  request' \in [Channel -> {Idle} \cup Sent \cup Response]
  <1>1. CASE request[ch].token # None
    BY <1>1, DoneType DEF Respond
  <1>2. CASE request[ch].token = None
    <2>1. [at |-> "response", browser |-> request[ch].browser, token |-> t] \in Response
      BY DEF Response
    <2> HIDE DEF Response
    <2> QED BY <1>2, <2>1 DEF Respond, TypeOK
  <1> QED BY <1>1, <1>2

LEMMA RowUpdate ==
  ASSUME TypeOK, NEW c \in Comment, NEW bool \in BOOLEAN
  PROVE  /\ [comment EXCEPT ![c].edited = bool] \in [Comment -> Row]
         /\ [comment EXCEPT ![c].hidden = bool] \in [Comment -> Row]
         /\ [comment EXCEPT ![c].fresh = bool] \in [Comment -> Row]
  <1>1. comment[c] \in Row BY DEF TypeOK
  <1>2. /\ [comment[c] EXCEPT !.edited = bool] \in Row
        /\ [comment[c] EXCEPT !.hidden = bool] \in Row
        /\ [comment[c] EXCEPT !.fresh = bool] \in Row
    BY <1>1 DEF Row
  <1> HIDE DEF Row
  <1> QED BY <1>2 DEF TypeOK

LEMMA TypeInit == Init => TypeOK
  <1> SUFFICES ASSUME Init PROVE TypeOK OBVIOUS
  <1>1. PICK old \in SUBSET Comment :
           comment = [c \in Comment |-> NoRow(IF c \in old THEN "live" ELSE "unused")]
    BY DEF Init
  <1>2. comment \in [Comment -> Row] BY <1>1, RowFacts
  <1> QED BY <1>2 DEF Init, TypeOK

LEMMA SendType ==
  ASSUME TypeOK, NEW ch \in Channel, NEW b \in Browser, NEW op \in Writing \cup Changing,
         NEW c \in Comment \cup {None}, Send(ch, b, op, c)
  PROVE  request' \in [Channel -> {Idle} \cup Sent \cup Response]
  <1>1. cookie[b] \in Token \cup {None} BY DEF TypeOK
  <1>2. op \in Changing => c \in Comment BY DEF Send, Writing, Changing
  <1>3. [at |-> "sent", op |-> op, browser |-> b, token |-> cookie[b], target |-> c] \in Sent
    BY <1>1, <1>2 DEF Sent
  <1> HIDE DEF Sent
  <1> QED BY <1>3 DEF Send, TypeOK

LEMMA AddCommentType ==
  ASSUME TypeOK, NEW ch \in Channel, NEW c \in Comment, NEW t \in Token, AddComment(ch, c, t)
  PROVE  TypeOK'
  <1>1. request[ch].browser \in Browser /\ request[ch].target \in Comment \cup {None}
    BY ArrivesFacts DEF AddComment
  <1>2. [NoRow("live") EXCEPT !.parent = request[ch].target, !.owner = t,
           !.fresh = TRUE, !.writer = request[ch].browser] \in Row
    BY <1>1 DEF NoRow, Row
  <1>3. comment' \in [Comment -> Row]
    <2> HIDE DEF Row
    <2> QED BY <1>2 DEF AddComment, TypeOK
  <1>4. givenTo' \in [Token -> Browser \cup {None}] BY <1>1 DEF AddComment, Give, TypeOK
  <1>5. request' \in [Channel -> {Idle} \cup Sent \cup Response]
    BY <1>1, RespondType DEF AddComment
  <1> QED BY <1>3, <1>4, <1>5 DEF AddComment, TypeOK

LEMMA TypeStep == TypeOK /\ [Next]_vars => TypeOK'
  <1> SUFFICES ASSUME TypeOK, [Next]_vars PROVE TypeOK' OBVIOUS
  <1>1. ASSUME NEW ch \in Channel, NEW b \in Browser, NEW op \in Writing \cup Changing,
               NEW c \in Comment \cup {None}, Send(ch, b, op, c)
        PROVE  TypeOK'
    BY <1>1, SendType DEF Send, TypeOK
  <1>2. ASSUME NEW ch \in Channel, NEW t \in Token, Visit(ch, t) PROVE TypeOK'
    <2>1. request[ch].browser \in Browser
      <3>1. PICK op \in Writing : Arrives(ch, op) BY <1>2 DEF Visit
      <3> QED BY <3>1, ArrivesFacts
    <2>2. givenTo' \in [Token -> Browser \cup {None}] BY <1>2, <2>1 DEF Visit, Give, TypeOK
    <2> QED BY <1>2, <2>1, <2>2, RespondType DEF Visit, TypeOK
  <1>3. ASSUME NEW ch \in Channel, NEW c \in Comment, NEW t \in Token, AddComment(ch, c, t)
        PROVE  TypeOK'
    BY <1>3, AddCommentType
  <1>4. ASSUME NEW ch \in Channel, UpdateCommentContent(ch) PROVE TypeOK'
    <2>1. request[ch].target \in Comment
      BY <1>4, ArrivesFacts DEF UpdateCommentContent, Changing
    <2>2. comment' \in [Comment -> Row]
      BY <1>4, <2>1, RowUpdate DEF UpdateCommentContent, TypeOK
    <2> QED BY <1>4, <2>2, DoneType DEF UpdateCommentContent, TypeOK
  <1>5. ASSUME NEW ch \in Channel, SetCommentHidden(ch) PROVE TypeOK'
    <2>1. request[ch].target \in Comment
      BY <1>5, ArrivesFacts DEF SetCommentHidden, Changing
    <2>2. comment' = comment \/ \E hidden \in BOOLEAN :
             comment' = [comment EXCEPT ![request[ch].target].hidden = hidden]
      BY <1>5 DEF SetCommentHidden
    <2>3. ASSUME NEW hidden \in BOOLEAN,
                 comment' = [comment EXCEPT ![request[ch].target].hidden = hidden]
          PROVE  comment' \in [Comment -> Row]
      <3>1. [comment EXCEPT ![request[ch].target].hidden = hidden] \in [Comment -> Row]
        BY <2>1, RowUpdate
      <3> QED BY <2>3, <3>1
    <2>4. comment' = comment => comment' \in [Comment -> Row] BY DEF TypeOK
    <2>5. comment' \in [Comment -> Row] BY <2>2, <2>3, <2>4
    <2> QED BY <1>5, <2>5, DoneType DEF SetCommentHidden, TypeOK
  <1>6. ASSUME NEW ch \in Channel, DeleteComment(ch) PROVE TypeOK'
    <2>1. NoRow("deleted") \in Row BY RowFacts
    <2>2. comment' \in [Comment -> Row]
      <3> HIDE DEF Row
      <3> QED BY <1>6, <2>1 DEF DeleteComment, TypeOK
    <2> QED BY <1>6, <2>2, DoneType DEF DeleteComment, TypeOK
  <1>7. ASSUME NEW ch \in Channel, Receive(ch) PROVE TypeOK'
    <2>1. request[ch].browser \in Browser /\ request[ch].token \in Token
      BY <1>7, ResponseFacts DEF Receive
    <2>2. cookie' \in [Browser -> Token \cup {None}] BY <1>7, <2>1 DEF Receive, TypeOK
    <2> QED BY <1>7, <2>2, DoneType DEF Receive, TypeOK
  <1>8. ASSUME NEW ch \in Channel, Lose(ch) PROVE TypeOK'
    BY <1>8, DoneType DEF Lose, TypeOK
  <1>9. ASSUME NEW c \in Comment, WindowCloses(c) PROVE TypeOK'
    <2>1. comment' \in [Comment -> Row] BY <1>9, RowUpdate DEF WindowCloses
    <2> QED BY <1>9, <2>1 DEF WindowCloses, TypeOK
  <1>10. CASE UNCHANGED vars BY <1>10 DEF vars, TypeOK
  <1> QED BY <1>1, <1>2, <1>3, <1>4, <1>5, <1>6, <1>7, <1>8, <1>9, <1>10 DEF Next, Handle

\* Comments is well typed for any browsers, tokens, comments and channels.
THEOREM CommentsTypeCorrect == Spec => []TypeOK
  <1> QED BY TypeInit, TypeStep, PTL DEF Spec

-----------------------------------------------------------------------------
\* The three parts of IdentityIsPrivate.
CookiesPrivate == \A b \in Browser : cookie[b] # None => givenTo[cookie[b]] = b
RequestsPrivate ==
  \A ch \in Channel : request[ch] # Idle /\ request[ch].token # None =>
                         givenTo[request[ch].token] = request[ch].browser
OwnersPrivate ==
  \A c \in Comment : Live(c) /\ comment[c].owner # None =>
                        givenTo[comment[c].owner] = comment[c].writer

\* What minting (or presenting) a token does to whom the tokens are given.
LEMMA GiveKeeps ==
  ASSUME TypeOK, RequestsPrivate, NEW ch \in Channel, NEW t \in Token, NEW op,
         Arrives(ch, op), Identity(ch, t), Give(ch, t)
  PROVE  /\ givenTo'[t] = request[ch].browser
         /\ \A u \in Token : givenTo[u] # None => givenTo'[u] = givenTo[u]
  <1>1. request[ch] # Idle BY DEF Arrives, Idle
  <1>2. CASE request[ch].token # None
    <2>1. t = request[ch].token BY <1>2 DEF Identity
    <2>2. givenTo[t] = request[ch].browser BY <1>1, <1>2, <2>1 DEF RequestsPrivate
    <2> QED BY <2>2 DEF Give, TypeOK
  <1>3. CASE request[ch].token = None
    <2>1. givenTo[t] = None BY <1>3 DEF Identity
    <2> QED BY <2>1 DEF Give, TypeOK
  <1> QED BY <1>2, <1>3

\* A response carries the token that was given to its browser.
LEMMA RespondPrivate ==
  ASSUME TypeOK, RequestsPrivate, NEW ch \in Channel, NEW t \in Token, NEW op,
         Arrives(ch, op), Identity(ch, t), Give(ch, t), Respond(ch, t)
  PROVE  RequestsPrivate'
  <1> SUFFICES ASSUME NEW v \in Channel, request'[v] # Idle, request'[v].token # None
               PROVE  givenTo'[request'[v].token] = request'[v].browser
    BY DEF RequestsPrivate
  <1>1. CASE v = ch
    <2>1. request[ch].token = None
      BY <1>1 DEF Respond, Done, TypeOK
    <2>2. request'[v].token = t /\ request'[v].browser = request[ch].browser
      BY <1>1, <2>1 DEF Respond, TypeOK
    <2> QED BY <2>2, GiveKeeps
  <1>2. CASE v # ch
    <2>1. request'[v] = request[v] BY <1>2 DEF Respond, Done, TypeOK
    <2>2. givenTo[request[v].token] = request[v].browser BY <2>1 DEF RequestsPrivate
    <2>3. request[v] \in Sent \cup Response BY <2>1 DEF TypeOK
    <2>4. request[v].token \in Token /\ request[v].browser \in Browser
      BY <2>1, <2>3 DEF Sent, Response
    <2> QED BY <2>1, <2>2, <2>4, GiveKeeps
  <1> QED BY <1>1, <1>2

LEMMA CookiesStayPrivate ==
  ASSUME TypeOK, CookiesPrivate, UNCHANGED cookie,
         \A u \in Token : givenTo[u] # None => givenTo'[u] = givenTo[u]
  PROVE  CookiesPrivate'
  <1> SUFFICES ASSUME NEW b \in Browser, cookie[b] # None PROVE givenTo'[cookie[b]] = b
    BY DEF CookiesPrivate
  <1>1. cookie[b] \in Token /\ givenTo[cookie[b]] = b BY DEF TypeOK, CookiesPrivate
  <1> QED BY <1>1

LEMMA RequestsStayPrivate ==
  ASSUME TypeOK, RequestsPrivate, UNCHANGED givenTo,
         \A v \in Channel : request'[v] = request[v] \/ request'[v] = Idle
  PROVE  RequestsPrivate'
  BY DEF RequestsPrivate

\* An owner is a token that was given to somebody: what makes OwnersPrivate inductive.
OwnersExist == \A c \in Comment : comment[c].owner # None => comment[c].writer # None

LEMMA OwnersStayPrivate ==
  ASSUME TypeOK, OwnersPrivate, OwnersExist,
         \A u \in Token : givenTo[u] # None => givenTo'[u] = givenTo[u],
         \A c \in Comment : Live(c)' => /\ Live(c)
                                        /\ comment'[c].owner = comment[c].owner
                                        /\ comment'[c].writer = comment[c].writer
  PROVE  OwnersPrivate'
  <1> SUFFICES ASSUME NEW c \in Comment, Live(c)', comment'[c].owner # None
               PROVE  givenTo'[comment'[c].owner] = comment'[c].writer
    BY DEF OwnersPrivate
  <1>1. /\ Live(c)
        /\ comment'[c].owner = comment[c].owner
        /\ comment'[c].writer = comment[c].writer
    OBVIOUS
  <1>2. comment[c].owner \in Token \cup {None} BY DEF TypeOK, Row
  <1>3. givenTo[comment[c].owner] = comment[c].writer BY <1>1 DEF OwnersPrivate
  <1>4. givenTo[comment[c].owner] # None BY <1>1, <1>3 DEF OwnersExist
  <1> QED BY <1>1, <1>2, <1>3, <1>4

Private == TypeOK /\ CookiesPrivate /\ RequestsPrivate /\ OwnersPrivate /\ OwnersExist

LEMMA PrivateInit == Init => Private
  <1> SUFFICES ASSUME Init PROVE Private OBVIOUS
  <1>1. \A c \in Comment : comment[c].owner = None BY DEF Init, NoRow
  <1> QED BY <1>1, TypeInit
        DEF Init, Private, CookiesPrivate, RequestsPrivate, OwnersPrivate, OwnersExist

\* A request that mints or presents a token, and changes no old comment.
LEMMA AddCommentPrivate ==
  ASSUME Private, NEW ch \in Channel, NEW c \in Comment, NEW t \in Token, AddComment(ch, c, t)
  PROVE  CookiesPrivate' /\ RequestsPrivate' /\ OwnersPrivate' /\ OwnersExist'
  <1> DEFINE b == request[ch].browser
  <1>1. b \in Browser BY ArrivesFacts DEF AddComment, Private
  <1>2. /\ givenTo'[t] = b
        /\ \A u \in Token : givenTo[u] # None => givenTo'[u] = givenTo[u]
    BY GiveKeeps DEF AddComment, Private
  <1>3. CookiesPrivate' BY <1>2, CookiesStayPrivate DEF AddComment, Private
  <1>4. RequestsPrivate' BY RespondPrivate DEF AddComment, Private
  <1>5. comment'[c].owner = t /\ comment'[c].writer = b
    BY DEF AddComment, Private, TypeOK, NoRow
  <1>6. \A d \in Comment : d # c => comment'[d] = comment[d]
    BY DEF AddComment, Private, TypeOK
  <1>7. OwnersExist' BY <1>1, <1>5, <1>6 DEF OwnersExist, Private
  <1>8. OwnersPrivate'
    <2> SUFFICES ASSUME NEW d \in Comment, Live(d)', comment'[d].owner # None
                 PROVE  givenTo'[comment'[d].owner] = comment'[d].writer
      BY DEF OwnersPrivate
    <2>1. CASE d = c BY <2>1, <1>2, <1>5
    <2>2. CASE d # c
      <3>1. comment'[d] = comment[d] /\ Live(d) BY <2>2, <1>6 DEF Live
      <3>2. comment[d].owner \in Token BY <3>1 DEF Private, TypeOK, Row
      <3>3. givenTo[comment[d].owner] = comment[d].writer /\ comment[d].writer # None
        BY <3>1 DEF Private, OwnersPrivate, OwnersExist
      <3> QED BY <3>1, <3>2, <3>3, <1>2
    <2> QED BY <2>1, <2>2
  <1> QED BY <1>3, <1>4, <1>7, <1>8

\* A step that mints nothing, ends at most requests and keeps owners and writers.
LEMMA QuietStepPrivate ==
  ASSUME Private, UNCHANGED <<cookie, givenTo>>,
         \A v \in Channel : request'[v] = request[v] \/ request'[v] = Idle,
         \A c \in Comment : \/ comment'[c] = NoRow("deleted")
                            \/ /\ comment'[c].state = comment[c].state
                               /\ comment'[c].owner = comment[c].owner
                               /\ comment'[c].writer = comment[c].writer
  PROVE  CookiesPrivate' /\ RequestsPrivate' /\ OwnersPrivate' /\ OwnersExist'
  <1>1. \A u \in Token : givenTo[u] # None => givenTo'[u] = givenTo[u] OBVIOUS
  <1>2. CookiesPrivate' BY CookiesStayPrivate, <1>1 DEF Private
  <1>3. RequestsPrivate' BY RequestsStayPrivate DEF Private
  <1>4. \A c \in Comment : Live(c)' => /\ Live(c)
                                       /\ comment'[c].owner = comment[c].owner
                                       /\ comment'[c].writer = comment[c].writer
    BY DEF Live, NoRow
  <1>5. OwnersPrivate' BY OwnersStayPrivate, <1>1, <1>4 DEF Private
  <1>6. OwnersExist' BY DEF Private, OwnersExist, NoRow
  <1> QED BY <1>2, <1>3, <1>5, <1>6

LEMMA PrivateStep == Private /\ [Next]_vars => Private'
  <1> SUFFICES ASSUME Private, [Next]_vars PROVE Private' OBVIOUS
  <1> DEFINE Goal == CookiesPrivate' /\ RequestsPrivate' /\ OwnersPrivate' /\ OwnersExist'
  <1>1. ASSUME NEW ch \in Channel, NEW b \in Browser, NEW op \in Writing \cup Changing,
               NEW c \in Comment \cup {None}, Send(ch, b, op, c)
        PROVE  Goal
    <2>1. request'[ch].token = cookie[b] /\ request'[ch].browser = b
      BY <1>1 DEF Send, Private, TypeOK
    <2>2. \A v \in Channel : v # ch => request'[v] = request[v]
      BY <1>1 DEF Send, Private, TypeOK
    <2>3. RequestsPrivate'
      BY <1>1, <2>1, <2>2 DEF Send, Private, RequestsPrivate, CookiesPrivate
    <2>4. CookiesPrivate' /\ OwnersPrivate' /\ OwnersExist'
      BY <1>1 DEF Send, Private, CookiesPrivate, OwnersPrivate, OwnersExist, Live
    <2> QED BY <2>3, <2>4
  <1>2. ASSUME NEW ch \in Channel, NEW t \in Token, Visit(ch, t) PROVE Goal
    <2>0. PICK op \in Writing : Arrives(ch, op) BY <1>2 DEF Visit
    <2>1. \A u \in Token : givenTo[u] # None => givenTo'[u] = givenTo[u]
      BY <1>2, <2>0, GiveKeeps DEF Visit, Private
    <2>2. CookiesPrivate' BY <1>2, <2>1, CookiesStayPrivate DEF Visit, Private
    <2>3. RequestsPrivate' BY <1>2, <2>0, RespondPrivate DEF Visit, Private
    <2>4. \A c \in Comment : Live(c)' => /\ Live(c)
                                         /\ comment'[c].owner = comment[c].owner
                                         /\ comment'[c].writer = comment[c].writer
      BY <1>2 DEF Visit, Live
    <2>5. OwnersPrivate' BY <2>1, <2>4, OwnersStayPrivate DEF Private
    <2>6. OwnersExist' BY <1>2 DEF Visit, Private, OwnersExist
    <2> QED BY <2>2, <2>3, <2>5, <2>6
  <1>3. ASSUME NEW ch \in Channel, NEW c \in Comment, NEW t \in Token, AddComment(ch, c, t)
        PROVE  Goal
    BY <1>3, AddCommentPrivate
  <1> DEFINE Ends == \A v \in Channel : request'[v] = request[v] \/ request'[v] = Idle
             Keeps(c) == /\ comment'[c].state = comment[c].state
                         /\ comment'[c].owner = comment[c].owner
                         /\ comment'[c].writer = comment[c].writer
  <1>4. ASSUME NEW ch \in Channel, Done(ch) PROVE Ends
    BY <1>4 DEF Done, Private, TypeOK
  <1>5. ASSUME NEW ch \in Channel, UpdateCommentContent(ch) PROVE Goal
    <2>1. \A c \in Comment : Keeps(c)
      BY <1>5 DEF UpdateCommentContent, Private, TypeOK, Row
    <2> QED BY <1>4, <1>5, <2>1, QuietStepPrivate DEF UpdateCommentContent
  <1>6. ASSUME NEW ch \in Channel, SetCommentHidden(ch) PROVE Goal
    <2>1. \A c \in Comment : Keeps(c)
      <3>1. comment' = comment \/ \E hidden \in BOOLEAN :
               comment' = [comment EXCEPT ![request[ch].target].hidden = hidden]
        BY <1>6 DEF SetCommentHidden
      <3>2. CASE comment' = comment BY <3>2
      <3>3. ASSUME NEW hidden \in BOOLEAN,
                   comment' = [comment EXCEPT ![request[ch].target].hidden = hidden]
            PROVE  \A c \in Comment : Keeps(c)
        BY <3>3 DEF Private, TypeOK, Row
      <3> QED BY <3>1, <3>2, <3>3
    <2> QED BY <1>4, <1>6, <2>1, QuietStepPrivate DEF SetCommentHidden
  <1>7. ASSUME NEW ch \in Channel, DeleteComment(ch) PROVE Goal
    <2>1. \A c \in Comment : comment'[c] = NoRow("deleted") \/ comment'[c] = comment[c]
      BY <1>7 DEF DeleteComment
    <2> QED BY <1>4, <1>7, <2>1, QuietStepPrivate DEF DeleteComment
  <1>8. ASSUME NEW ch \in Channel, Receive(ch) PROVE Goal
    <2>1. request[ch].browser \in Browser /\ request[ch].token \in Token
      BY <1>8, ResponseFacts DEF Receive, Private
    <2>2. givenTo[request[ch].token] = request[ch].browser
      BY <1>8, <2>1 DEF Receive, Private, RequestsPrivate, Idle
    <2>3. CookiesPrivate' BY <1>8, <2>1, <2>2 DEF Receive, Private, CookiesPrivate, TypeOK
    <2>4. RequestsPrivate' BY <1>4, <1>8, RequestsStayPrivate DEF Receive, Private
    <2>5. OwnersPrivate' /\ OwnersExist'
      BY <1>8 DEF Receive, Private, OwnersPrivate, OwnersExist, Live
    <2> QED BY <2>3, <2>4, <2>5
  <1>9. ASSUME NEW ch \in Channel, Lose(ch) PROVE Goal
    <2>1. \A c \in Comment : Keeps(c) BY <1>9 DEF Lose
    <2> QED BY <1>4, <1>9, <2>1, QuietStepPrivate DEF Lose
  <1>10. ASSUME NEW c \in Comment, WindowCloses(c) PROVE Goal
    <2>1. \A d \in Comment : Keeps(d) BY <1>10 DEF WindowCloses, Private, TypeOK, Row
    <2> QED BY <1>10, <2>1, QuietStepPrivate DEF WindowCloses
  <1>11. ASSUME UNCHANGED vars PROVE Goal
    <2>1. UNCHANGED <<comment, cookie, givenTo, request>> BY <1>11 DEF vars
    <2>2. Ends /\ \A c \in Comment : Keeps(c) BY <2>1
    <2> QED BY <2>1, <2>2, QuietStepPrivate
  <1>12. Goal
    <2> HIDE DEF Goal
    <2> QED BY <1>1, <1>2, <1>3, <1>5, <1>6, <1>7, <1>8, <1>9, <1>10, <1>11 DEF Next, Handle
  <1> QED BY <1>12, TypeStep DEF Private

LEMMA PrivateAlways == Spec => []Private
  <1> QED BY PrivateInit, PrivateStep, PTL DEF Spec

LEMMA PrivateIsPrivate == Private => IdentityIsPrivate
  BY DEF Private, CookiesPrivate, RequestsPrivate, OwnersPrivate, IdentityIsPrivate

\* No browser ever holds, sends or is sent another's identity, and a comment's owner
\* is the identity of the browser that wrote it.
THEOREM IdentitiesArePrivate == Spec => []IdentityIsPrivate
  <1> QED BY PrivateAlways, PrivateIsPrivate, PTL

-----------------------------------------------------------------------------
\* Who presents a comment's owner is the browser that wrote it.
LEMMA OwnerIsWriter ==
  ASSUME Private, NEW ch \in Channel, request[ch] # Idle, NEW c \in Comment, Live(c),
         request[ch].token # None, comment[c].owner = request[ch].token
  PROVE  Wrote(request[ch].browser, c)
  <1>1. givenTo[request[ch].token] = request[ch].browser BY DEF Private, RequestsPrivate
  <1>2. givenTo[comment[c].owner] = comment[c].writer BY DEF Private, OwnersPrivate
  <1> QED BY <1>1, <1>2 DEF Wrote

OwnAffair(ch, c) ==
  LET b == request[ch].browser
      erased == comment'[c].state = "deleted" IN
  /\ erased => Wrote(b, c) \/ Wrote(b, comment[c].parent)
  /\ erased \/ comment'[c].hidden = comment[c].hidden
  /\ erased \/ comment'[c].edited = comment[c].edited \/ Wrote(b, c)

LEMMA UntouchedIsFine ==
  ASSUME NEW ch \in Channel, NEW c \in Comment, Live(c), comment'[c] = comment[c]
  PROVE  OwnAffair(ch, c)
  BY DEF OwnAffair, Live

LEMMA EditIsOwnAffair ==
  ASSUME Private, NEW ch \in Channel, NEW c \in Comment, Live(c), ~LoggedIn(ch),
         UpdateCommentContent(ch)
  PROVE  OwnAffair(ch, c)
  <1> DEFINE g == request[ch].target
  <1>1. request[ch] # Idle BY DEF UpdateCommentContent, Arrives, Idle
  <1>2. CASE c = g /\ MayEdit(g, request[ch].token)
    <2>1. Wrote(request[ch].browser, c) BY <1>1, <1>2, OwnerIsWriter DEF MayEdit
    <2>2. /\ comment'[c].state = comment[c].state
          /\ comment'[c].hidden = comment[c].hidden
      BY <1>2 DEF UpdateCommentContent, Private, TypeOK, Row
    <2> QED BY <2>1, <2>2 DEF OwnAffair, Live
  <1>3. CASE c # g \/ ~MayEdit(g, request[ch].token)
    <2>1. comment'[c] = comment[c] BY <1>3 DEF UpdateCommentContent, Private, TypeOK
    <2> QED BY <2>1, UntouchedIsFine
  <1> QED BY <1>2, <1>3

LEMMA DeletionIsOwnAffair ==
  ASSUME Private, NEW ch \in Channel, NEW c \in Comment, Live(c), ~LoggedIn(ch),
         DeleteComment(ch)
  PROVE  OwnAffair(ch, c)
  <1> DEFINE g == request[ch].target
  <1>1. request[ch] # Idle BY DEF DeleteComment, Arrives, Idle
  <1>2. g \in Comment BY ArrivesFacts DEF DeleteComment, Private, Changing
  <1>3. CASE MayDelete(g, request[ch].token) /\ c \in Erased(g)
    <2>1. Wrote(request[ch].browser, g) BY <1>1, <1>2, <1>3, OwnerIsWriter DEF MayDelete
    <2>2. c = g \/ comment[c].parent = g BY <1>3 DEF Erased
    <2>3. comment'[c].state = "deleted" BY <1>3 DEF DeleteComment, NoRow
    <2> QED BY <2>1, <2>2, <2>3 DEF OwnAffair
  <1>4. CASE ~(MayDelete(g, request[ch].token) /\ c \in Erased(g))
    <2>1. comment'[c] = comment[c] BY <1>4 DEF DeleteComment, Private, TypeOK
    <2> QED BY <2>1, UntouchedIsFine
  <1> QED BY <1>3, <1>4

LEMMA VisitorsStep ==
  ASSUME Private, [Next]_vars, NEW ch \in Channel, NEW c \in Comment,
         request[ch].at = "sent", request'[ch] # request[ch], ~LoggedIn(ch), Live(c)
  PROVE  OwnAffair(ch, c)
  <1> USE UntouchedIsFine
  <1>1. ASSUME NEW v \in Channel, NEW b \in Browser, NEW op \in Writing \cup Changing,
               NEW d \in Comment \cup {None}, Send(v, b, op, d)
        PROVE  OwnAffair(ch, c)
    BY <1>1 DEF Send
  <1>2. ASSUME NEW v \in Channel, NEW t \in Token, Visit(v, t) PROVE OwnAffair(ch, c)
    BY <1>2 DEF Visit
  <1>3. ASSUME NEW v \in Channel, NEW d \in Comment, NEW t \in Token, AddComment(v, d, t)
        PROVE  OwnAffair(ch, c)
    <2>1. c # d BY <1>3 DEF AddComment, Live
    <2>2. comment'[c] = comment[c] BY <1>3, <2>1 DEF AddComment, Private, TypeOK
    <2> QED BY <2>2
  <1>4. ASSUME NEW v \in Channel, Done(v) PROVE v = ch
    BY <1>4 DEF Done, Private, TypeOK
  <1>5. ASSUME NEW v \in Channel, UpdateCommentContent(v) PROVE OwnAffair(ch, c)
    <2>1. v = ch BY <1>4, <1>5 DEF UpdateCommentContent
    <2> QED BY <1>5, <2>1, EditIsOwnAffair
  <1>6. ASSUME NEW v \in Channel, SetCommentHidden(v) PROVE OwnAffair(ch, c)
    <2>1. v = ch BY <1>4, <1>6 DEF SetCommentHidden
    <2>2. comment' = comment BY <1>6, <2>1 DEF SetCommentHidden
    <2> QED BY <2>2
  <1>7. ASSUME NEW v \in Channel, DeleteComment(v) PROVE OwnAffair(ch, c)
    <2>1. v = ch BY <1>4, <1>7 DEF DeleteComment
    <2> QED BY <1>7, <2>1, DeletionIsOwnAffair
  <1>8. ASSUME NEW v \in Channel, Receive(v) PROVE OwnAffair(ch, c)
    BY <1>8 DEF Receive
  <1>9. ASSUME NEW v \in Channel, Lose(v) PROVE OwnAffair(ch, c)
    BY <1>9 DEF Lose
  <1>10. ASSUME NEW d \in Comment, WindowCloses(d) PROVE OwnAffair(ch, c)
    BY <1>10 DEF WindowCloses
  <1>11. ASSUME UNCHANGED vars PROVE OwnAffair(ch, c) BY <1>11 DEF vars
  <1> QED BY <1>1, <1>2, <1>3, <1>5, <1>6, <1>7, <1>8, <1>9, <1>10, <1>11 DEF Next, Handle

\* Only his own comments, and the replies to them, can be changed by the request of a
\* visitor, whatever cookie it carries.
THEOREM VisitorsTouchOnlyTheirOwn == Spec => VisitorsKeepToTheirOwn
  <1> DEFINE A == \A ch \in Channel :
         request[ch].at = "sent" /\ request'[ch] # request[ch] /\ ~LoggedIn(ch) =>
           \A c \in Comment : Live(c) => OwnAffair(ch, c)
  <1>1. Private /\ [Next]_vars => [A]_vars
    BY VisitorsStep
  <1>2. Spec => [][A]_vars
    BY <1>1, PrivateAlways, PTL DEF Spec
  <1> QED BY <1>2 DEF VisitorsKeepToTheirOwn, OwnAffair

-----------------------------------------------------------------------------
\* What is Mine is so by the state and the owner of the row alone.
LEMMA MineRemains ==
  ASSUME NEW c \in Comment, NEW t, Mine(c, t), Live(c)',
         comment'[c].owner = comment[c].owner
  PROVE  Live(c)' /\ comment'[c].owner # None /\ t = comment'[c].owner
  BY DEF Mine

LEMMA OwnersRemain ==
  ASSUME TypeOK, [Next]_vars, NEW c \in Comment, Live(c), Live(c)'
  PROVE  comment'[c].owner = comment[c].owner
  <1> DEFINE Goal == comment'[c].owner = comment[c].owner
  <1>1. ASSUME NEW ch \in Channel, NEW b \in Browser, NEW op \in Writing \cup Changing,
               NEW d \in Comment \cup {None}, Send(ch, b, op, d)
        PROVE  Goal
    BY <1>1 DEF Send
  <1>2. ASSUME NEW ch \in Channel, NEW t \in Token, Visit(ch, t) PROVE Goal
    BY <1>2 DEF Visit
  <1>3. ASSUME NEW ch \in Channel, NEW d \in Comment, NEW t \in Token, AddComment(ch, d, t)
        PROVE  Goal
    <2>1. c # d BY <1>3 DEF AddComment, Live
    <2> QED BY <1>3, <2>1 DEF AddComment, TypeOK
  <1>4. ASSUME NEW ch \in Channel, UpdateCommentContent(ch) PROVE Goal
    BY <1>4 DEF UpdateCommentContent, TypeOK, Row
  <1>5. ASSUME NEW ch \in Channel, SetCommentHidden(ch) PROVE Goal
    <2>1. comment' = comment \/ \E hidden \in BOOLEAN :
             comment' = [comment EXCEPT ![request[ch].target].hidden = hidden]
      BY <1>5 DEF SetCommentHidden
    <2>2. ASSUME NEW hidden \in BOOLEAN,
                 comment' = [comment EXCEPT ![request[ch].target].hidden = hidden]
          PROVE  Goal
      BY <2>2 DEF TypeOK, Row
    <2> QED BY <2>1, <2>2
  <1>6. ASSUME NEW ch \in Channel, DeleteComment(ch) PROVE Goal
    <2>1. comment'[c] = NoRow("deleted") \/ comment'[c] = comment[c]
      BY <1>6 DEF DeleteComment
    <2>2. comment'[c] # NoRow("deleted") BY DEF Live, NoRow
    <2> QED BY <2>1, <2>2
  <1>7. ASSUME NEW ch \in Channel, Receive(ch) PROVE Goal BY <1>7 DEF Receive
  <1>8. ASSUME NEW ch \in Channel, Lose(ch) PROVE Goal BY <1>8 DEF Lose
  <1>9. ASSUME NEW d \in Comment, WindowCloses(d) PROVE Goal
    BY <1>9 DEF WindowCloses, TypeOK, Row
  <1>10. ASSUME UNCHANGED vars PROVE Goal BY <1>10 DEF vars
  <1> HIDE DEF Goal
  <1>11. Goal
    BY <1>1, <1>2, <1>3, <1>4, <1>5, <1>6, <1>7, <1>8, <1>9, <1>10 DEF Next, Handle
  <1> QED BY <1>11 DEF Goal

-----------------------------------------------------------------------------
\* A settled browser stays settled, and keeps its cookie: what is under way of it
\* carries the cookie, so no answer brings another.
LEMMA AnsweredSettled ==
  ASSUME TypeOK, NEW b \in Browser, Settled(b), NEW ch \in Channel, NEW t,
         request[ch].at = "sent", Respond(ch, t), UNCHANGED cookie
  PROVE  Settled(b)'
  <1> SUFFICES ASSUME NEW v \in Channel, request'[v] # Idle, request'[v].browser = b
               PROVE  request'[v].token = cookie[b]
    BY DEF Settled, RequestOf
  <1>1. request[ch] # Idle BY DEF Idle
  <1>2. CASE v = ch
    <2>1. request[ch].token = None BY <1>2 DEF Respond, Done, TypeOK
    <2>2. request[ch].browser = b BY <1>2, <2>1 DEF Respond, TypeOK
    <2> QED BY <1>1, <2>1, <2>2 DEF Settled, RequestOf
  <1>3. CASE v # ch
    <2>1. request'[v] = request[v] BY <1>3 DEF Respond, Done, TypeOK
    <2> QED BY <2>1 DEF Settled, RequestOf
  <1> QED BY <1>2, <1>3

LEMMA QuietSettled ==
  ASSUME TypeOK, NEW b \in Browser, Settled(b), cookie'[b] = cookie[b],
         \A v \in Channel : request'[v] = request[v] \/ request'[v] = Idle
  PROVE  Settled(b)'
  BY DEF Settled, RequestOf

LEMMA SettledStep ==
  ASSUME TypeOK, [Next]_vars, NEW b \in Browser, Settled(b)
  PROVE  Settled(b)' /\ cookie'[b] = cookie[b]
  <1> DEFINE Goal == Settled(b)' /\ cookie'[b] = cookie[b]
  <1>1. ASSUME NEW ch \in Channel, Done(ch)
        PROVE  \A v \in Channel : request'[v] = request[v] \/ request'[v] = Idle
    BY <1>1 DEF Done, TypeOK
  <1>2. ASSUME NEW ch \in Channel, NEW a \in Browser, NEW op \in Writing \cup Changing,
               NEW c \in Comment \cup {None}, Send(ch, a, op, c)
        PROVE  Goal
    <2> SUFFICES ASSUME NEW v \in Channel, request'[v] # Idle, request'[v].browser = b
                 PROVE  request'[v].token = cookie[b]
      BY <1>2 DEF Send, Settled, RequestOf
    <2>1. CASE v = ch
      <3>1. request'[v].browser = a /\ request'[v].token = cookie[a]
        BY <1>2, <2>1 DEF Send, TypeOK
      <3> QED BY <3>1
    <2>2. CASE v # ch
      <3>1. request'[v] = request[v] BY <1>2, <2>2 DEF Send, TypeOK
      <3> QED BY <3>1 DEF Settled, RequestOf
    <2> QED BY <2>1, <2>2
  <1>3. ASSUME NEW ch \in Channel, NEW t \in Token, Visit(ch, t) PROVE Goal
    <2>1. request[ch].at = "sent" BY <1>3 DEF Visit, Arrives
    <2>2. UNCHANGED cookie BY <1>3 DEF Visit
    <2> QED BY <1>3, <2>1, <2>2, AnsweredSettled DEF Visit
  <1>4. ASSUME NEW ch \in Channel, NEW c \in Comment, NEW t \in Token, AddComment(ch, c, t)
        PROVE  Goal
    <2>1. request[ch].at = "sent" BY <1>4 DEF AddComment, Arrives
    <2>2. UNCHANGED cookie BY <1>4 DEF AddComment
    <2> QED BY <1>4, <2>1, <2>2, AnsweredSettled DEF AddComment
  <1>5. ASSUME NEW ch \in Channel, Done(ch), UNCHANGED cookie PROVE Goal
    BY <1>1, <1>5, QuietSettled
  <1>6. ASSUME NEW ch \in Channel,
               UpdateCommentContent(ch) \/ SetCommentHidden(ch) \/ DeleteComment(ch) \/ Lose(ch)
        PROVE  Goal
    <2>1. Done(ch) /\ UNCHANGED cookie
      BY <1>6 DEF UpdateCommentContent, SetCommentHidden, DeleteComment, Lose
    <2> QED BY <2>1, <1>5
  <1>7. ASSUME NEW ch \in Channel, Receive(ch) PROVE Goal
    <2>1. cookie'[b] = cookie[b]
      <3>1. CASE request[ch].browser = b
        <4>1. request[ch].token = cookie[b]
          BY <1>7, <3>1 DEF Receive, Settled, RequestOf, Idle
        <4> QED BY <1>7, <4>1, <3>1 DEF Receive, TypeOK
      <3>2. CASE request[ch].browser # b
        BY <1>7, <3>2 DEF Receive, TypeOK
      <3> QED BY <3>1, <3>2
    <2>2. Done(ch) BY <1>7 DEF Receive
    <2> QED BY <2>1, <2>2, <1>1, QuietSettled
  <1>8. ASSUME NEW c \in Comment, WindowCloses(c) PROVE Goal
    <2>1. UNCHANGED <<cookie, request>> BY <1>8 DEF WindowCloses
    <2> QED BY <2>1, QuietSettled
  <1>9. ASSUME UNCHANGED vars PROVE Goal
    <2>1. UNCHANGED <<cookie, request>> BY <1>9 DEF vars
    <2> QED BY <2>1, QuietSettled
  <1> HIDE DEF Goal
  <1>10. Goal BY <1>2, <1>3, <1>4, <1>6, <1>7, <1>8, <1>9 DEF Next, Handle
  <1> QED BY <1>10 DEF Goal

\* What a settled browser writes is its own.
LEMMA WrittenIsOwn ==
  ASSUME Private, [Next]_vars, NEW b \in Browser, Settled(b), NEW c \in Comment,
         ~Live(c), Live(c)', comment'[c].writer = b
  PROVE  comment'[c].owner = cookie[b]
  <1> DEFINE Goal == comment'[c].owner = cookie[b]
  <1>1. ASSUME comment'[c] = comment[c] \/ comment'[c].state = comment[c].state PROVE Goal
    BY <1>1 DEF Live
  <1>2. ASSUME NEW ch \in Channel, NEW d \in Comment, NEW t \in Token, AddComment(ch, d, t)
        PROVE  Goal
    <2>1. CASE c # d
      <3>1. comment'[c] = comment[c] BY <1>2, <2>1 DEF AddComment, Private, TypeOK
      <3> QED BY <3>1, <1>1
    <2>2. CASE c = d
      <3>1. comment'[c].owner = t /\ comment'[c].writer = request[ch].browser
        BY <1>2, <2>2 DEF AddComment, Private, TypeOK, NoRow
      <3>2. RequestOf(ch, b) BY <1>2, <3>1 DEF AddComment, Arrives, RequestOf, Idle
      <3>3. request[ch].token = cookie[b] /\ cookie[b] # None BY <3>2 DEF Settled
      <3> QED BY <1>2, <3>1, <3>3 DEF AddComment, Identity
    <2> QED BY <2>1, <2>2
  <1>3. ASSUME NEW ch \in Channel, UpdateCommentContent(ch) PROVE Goal
    <2>1. comment'[c].state = comment[c].state
      BY <1>3 DEF UpdateCommentContent, Private, TypeOK, Row
    <2> QED BY <2>1, <1>1
  <1>4. ASSUME NEW ch \in Channel, SetCommentHidden(ch) PROVE Goal
    <2>1. comment' = comment \/ \E hidden \in BOOLEAN :
             comment' = [comment EXCEPT ![request[ch].target].hidden = hidden]
      BY <1>4 DEF SetCommentHidden
    <2>2. ASSUME NEW hidden \in BOOLEAN,
                 comment' = [comment EXCEPT ![request[ch].target].hidden = hidden]
          PROVE  comment'[c].state = comment[c].state
      BY <2>2 DEF Private, TypeOK, Row
    <2> QED BY <2>1, <2>2, <1>1
  <1>5. ASSUME NEW ch \in Channel, DeleteComment(ch) PROVE Goal
    <2>1. comment'[c] = NoRow("deleted") \/ comment'[c] = comment[c]
      BY <1>5 DEF DeleteComment
    <2>2. comment'[c] # NoRow("deleted") BY DEF Live, NoRow
    <2> QED BY <2>1, <2>2, <1>1
  <1>6. ASSUME NEW d \in Comment, WindowCloses(d) PROVE Goal
    <2>1. comment'[c].state = comment[c].state
      BY <1>6 DEF WindowCloses, Private, TypeOK, Row
    <2> QED BY <2>1, <1>1
  <1>7. ASSUME comment' = comment PROVE Goal BY <1>7, <1>1
  <1>8. ASSUME NEW ch \in Channel, NEW a \in Browser, NEW op \in Writing \cup Changing,
               NEW d \in Comment \cup {None}, Send(ch, a, op, d)
        PROVE  Goal
    BY <1>7, <1>8 DEF Send
  <1>9. ASSUME NEW ch \in Channel, NEW t \in Token, Visit(ch, t) PROVE Goal
    BY <1>7, <1>9 DEF Visit
  <1>11. ASSUME NEW ch \in Channel, Receive(ch) \/ Lose(ch) PROVE Goal
    BY <1>7, <1>11 DEF Receive, Lose
  <1>12. ASSUME UNCHANGED vars PROVE Goal
    <2>1. comment' = comment BY <1>12 DEF vars
    <2> QED BY <2>1, <1>7
  <1>10. Goal
    <2> HIDE DEF Goal
    <2> QED BY <1>2, <1>3, <1>4, <1>5, <1>6, <1>8, <1>9, <1>11, <1>12 DEF Next, Handle
  <1> QED BY <1>10 DEF Goal

\* What its pages offer a settled browser is done when the request arrives.
LEMMA OffersAreHonoured ==
  ASSUME TypeOK, NEW b \in Browser, Settled(b), NEW ch \in Channel
  PROVE  Honoured(b, ch)
  <1> SUFFICES ASSUME RequestOf(ch, b) PROVE Honoured(b, ch) BY DEF Honoured
  <1> DEFINE c == request[ch].target
  <1>1. request[ch].token = cookie[b] /\ cookie[b] # None BY DEF Settled
  <1>2. ASSUME DeleteComment(ch), Mine(c, cookie[b]) PROVE comment'[c].state = "deleted"
    <2>1. c \in Comment BY <1>2, ArrivesFacts DEF DeleteComment, Changing
    <2>2. MayDelete(c, request[ch].token) BY <1>1, <1>2 DEF MayDelete, Mine
    <2>3. c \in Erased(c) BY <1>2, <2>1 DEF Erased, Mine
    <2> QED BY <1>2, <2>1, <2>2, <2>3 DEF DeleteComment, NoRow
  <1>3. ASSUME UpdateCommentContent(ch), CanEdit(c, cookie[b]) PROVE comment'[c].edited
    <2>1. c \in Comment BY <1>3, ArrivesFacts DEF UpdateCommentContent, Changing
    <2>2. MayEdit(c, request[ch].token) /\ Live(c)
      BY <1>1, <1>3 DEF MayEdit, CanEdit, Mine
    <2> QED BY <1>3, <2>1, <2>2 DEF UpdateCommentContent, TypeOK, Row
  <1> QED BY <1>2, <1>3 DEF Honoured

\* A browser whose requests all carry its cookie remains the writer of its comments,
\* and the buttons it was shown work.
THEOREM SettledWritersKeep == Spec => SettledWritersKeepTheirComments
  <1> DEFINE A == \A b \in Browser : Settled(b) =>
         /\ Settled(b)'
         /\ \A c \in Comment : Remains(b, c) /\ BecomesOwn(b, c)
         /\ \A ch \in Channel : Honoured(b, ch)
  <1>1. Private /\ [Next]_vars => A
    <2> SUFFICES ASSUME Private, [Next]_vars, NEW b \in Browser, Settled(b)
                 PROVE  /\ Settled(b)'
                        /\ \A c \in Comment : Remains(b, c) /\ BecomesOwn(b, c)
                        /\ \A ch \in Channel : Honoured(b, ch)
      OBVIOUS
    <2>1. TypeOK BY DEF Private
    <2>2. Settled(b)' /\ cookie'[b] = cookie[b] BY <2>1, SettledStep
    <2>3. cookie[b] # None BY DEF Settled
    <2>4. ASSUME NEW c \in Comment, Mine(c, cookie[b]), Live(c)' PROVE Mine(c, cookie[b])'
      <3>1. comment'[c].owner = comment[c].owner BY <2>1, <2>4, OwnersRemain DEF Mine
      <3> QED BY <2>2, <2>3, <2>4, <3>1, MineRemains DEF Mine
    <2>5. ASSUME NEW c \in Comment, ~Live(c), Live(c)', comment'[c].writer = b
          PROVE  Mine(c, cookie[b])'
      <3>1. comment'[c].owner = cookie[b] BY <2>5, WrittenIsOwn
      <3> QED BY <2>2, <2>3, <2>5, <3>1 DEF Mine
    <2>6. \A ch \in Channel : Honoured(b, ch) BY <2>1, OffersAreHonoured
    <2> QED BY <2>2, <2>4, <2>5, <2>6 DEF Remains, BecomesOwn
  <1>2. Spec => [][A]_vars
    BY <1>1, PrivateAlways, PTL DEF Spec
  <1> QED BY <1>2 DEF SettledWritersKeepTheirComments

=============================================================================
