------------------------------ MODULE Comments ------------------------------
(***************************************************************************)
(* Comments and the anonymous identity (the blog_anon cookie) that         *)
(* authorises their writers.                                               *)
(*                                                                         *)
(* Nobody logs in to comment.  The first request of a browser that writes  *)
(* something gets a random token with the response; the token is stored    *)
(* with the comment and has to be presented to change it.  A browser has   *)
(* several requests under way at once, each carries the cookie the browser *)
(* had when it was sent, responses arrive in any order or not at all, and  *)
(* a cookie that arrives replaces the one that is there.                   *)
(*                                                                         *)
(* Abstracted: nickname and text (edited stands for a change of it); the   *)
(* article, to which nothing ties a comment; the rate limiter (see         *)
(* RateLimiter); a comment's age (fresh: no older than 30 minutes).  The   *)
(* two other requests that give out tokens, the daily answer and the       *)
(* judging of an exercise, are the operation "visit".                      *)
(***************************************************************************)
EXTENDS FiniteSets

CONSTANTS
    Browser,
    Staff,      \* the browsers with an administrator's session
    Token,      \* values of blog_anon; bounds the number of identities
    Comment,    \* every value comments.id takes
    Channel     \* bound: requests under way

ASSUME StaffAssumption == Staff \subseteq Browser

None == "none"    \* no cookie, a NULL owner_token, parent_id 0
ASSUME NoneAssumption == None \notin Token \cup Comment \cup Browser

VARIABLES
    comment,    \* the comments table
    cookie,     \* cookie[b]: the blog_anon cookie browser b holds
    givenTo,    \* history: the browser a token was minted for
    request     \* request[ch]: the request or response under way there

vars == <<comment, cookie, givenTo, request>>

Row == [state : {"unused", "live", "deleted"}, parent : Comment \cup {None},
        owner : Token \cup {None}, fresh : BOOLEAN, hidden : BOOLEAN, edited : BOOLEAN,
        writer : Browser \cup {None}]   \* history: who sent it

NoRow(s) == [state |-> s, parent |-> None, owner |-> None, fresh |-> FALSE,
             hidden |-> FALSE, edited |-> FALSE, writer |-> None]

Writing == {"post", "visit"}
Changing == {"edit", "hide", "delete"}

Idle == [at |-> "idle"]
Sent == [at : {"sent"}, op : Writing, browser : Browser, token : Token \cup {None},
         target : Comment \cup {None}]
          \cup
        [at : {"sent"}, op : Changing, browser : Browser, token : Token \cup {None},
         target : Comment]
Response == [at : {"response"}, browser : Browser, token : Token]

TypeOK ==
    /\ comment \in [Comment -> Row]
    /\ cookie \in [Browser -> Token \cup {None}]
    /\ givenTo \in [Token -> Browser \cup {None}]
    /\ request \in [Channel -> {Idle} \cup Sent \cup Response]

\* Comments from before the owner_token column have no owner.
Init ==
    /\ \E old \in SUBSET Comment :
         comment = [c \in Comment |-> NoRow(IF c \in old THEN "live" ELSE "unused")]
    /\ cookie = [b \in Browser |-> None]
    /\ givenTo = [t \in Token |-> None]
    /\ request = [ch \in Channel |-> Idle]

Live(c) == comment[c].state = "live"

-----------------------------------------------------------------------------
\* The browser sends a request; its target is a comment the page has been shown,
\* to be changed or to be replied to.
Send(ch, b, op, c) ==
    /\ request[ch] = Idle
    /\ IF c = None THEN op \in Writing ELSE Live(c)
    /\ op = "visit" => c = None
    /\ request' = [request EXCEPT ![ch] =
                     [at |-> "sent", op |-> op, browser |-> b, token |-> cookie[b],
                      target |-> c]]
    /\ UNCHANGED <<comment, cookie, givenTo>>

Arrives(ch, op) == request[ch].at = "sent" /\ request[ch].op = op

Done(ch) == request' = [request EXCEPT ![ch] = Idle]

RespondEmpty(ch, t) ==   \* mutant: setAnonCookie is given the token that was not sent
    IF request[ch].token # None THEN Done(ch)
    ELSE request' = [request EXCEPT ![ch] =
                       [at |-> "response", browser |-> request[ch].browser, token |-> None]]

\* A response with a Set-Cookie, if the request came without a token; others do nothing.
Respond(ch, t) ==
    IF request[ch].token # None THEN Done(ch)
    ELSE request' = [request EXCEPT ![ch] =
                       [at |-> "response", browser |-> request[ch].browser, token |-> t]]

\* getAnonToken, or randomHex(16): a token nobody has.
SharedToken(ch, t) ==   \* mutant: the generator repeats itself
    IF request[ch].token # None THEN t = request[ch].token ELSE t \in Token
FreshToken(ch, t) == givenTo[t] = None   \* mutant: the cookie that came is not looked at
Identity(ch, t) ==
    IF request[ch].token # None THEN t = request[ch].token ELSE givenTo[t] = None

Give(ch, t) == givenTo' = [givenTo EXCEPT ![t] = request[ch].browser]

\* POST /api/posts/<id>/comments: addComment, whatever parent_id names.
AddComment(ch, c, t) ==
    /\ Arrives(ch, "post")
    /\ comment[c].state = "unused"
    /\ Identity(ch, t)
    /\ comment' = [comment EXCEPT ![c] =
                     [NoRow("live") EXCEPT !.parent = request[ch].target, !.owner = t,
                        !.fresh = TRUE, !.writer = request[ch].browser]]
    /\ Give(ch, t)
    /\ Respond(ch, t)
    /\ UNCHANGED cookie

\* GET /api/daily/answer, POST /api/practice/submit: the same cookie.  A comment whose
\* INSERT fails is such a visit too: the cookie is set all the same.
Visit(ch, t) ==
    /\ \E op \in Writing : Arrives(ch, op)
    /\ Identity(ch, t)
    /\ Give(ch, t)
    /\ Respond(ch, t)
    /\ UNCHANGED <<comment, cookie>>

LoggedIn(ch) == request[ch].browser \in Staff

\* updateCommentContent, for one who is not logged in: its WHERE clause.
MayEdit(c, t) == Live(c) /\ t # None /\ comment[c].owner = t /\ comment[c].fresh

\* PUT /api/comments/<id> with content
UpdateCommentContent(ch) ==
    /\ Arrives(ch, "edit")
    /\ LET c == request[ch].target IN
       comment' = IF Live(c) /\ (LoggedIn(ch) \/ MayEdit(c, request[ch].token))
                  THEN [comment EXCEPT ![c].edited = TRUE] ELSE comment
    /\ Done(ch)
    /\ UNCHANGED <<cookie, givenTo>>

\* PUT /api/comments/<id> with hidden
SetCommentHidden(ch) ==
    /\ Arrives(ch, "hide")
    /\ LET c == request[ch].target IN
       IF LoggedIn(ch) /\ Live(c)
       THEN \E hidden \in BOOLEAN : comment' = [comment EXCEPT ![c].hidden = hidden]
       ELSE UNCHANGED comment
    /\ Done(ch)
    /\ UNCHANGED <<cookie, givenTo>>

\* deleteComment, for one who is not logged in: the check of owner_token.
AnyToken(c, t) == Live(c) /\ t # None   \* mutant: the owner is not compared
MayDelete(c, t) == Live(c) /\ t # None /\ comment[c].owner = t

\* DELETE /api/comments/<id>: DELETE ... WHERE id=? OR parent_id=?
Erased(c) == {d \in Comment : Live(d) /\ (d = c \/ comment[d].parent = c)}
DeleteComment(ch) ==
    /\ Arrives(ch, "delete")
    /\ LET c == request[ch].target IN
       comment' = IF LoggedIn(ch) \/ MayDelete(c, request[ch].token)
                  THEN [d \in Comment |-> IF d \in Erased(c) THEN NoRow("deleted")
                                                             ELSE comment[d]]
                  ELSE comment
    /\ Done(ch)
    /\ UNCHANGED <<cookie, givenTo>>

\* The response arrives: the browser stores the cookie it brings.
Receive(ch) ==
    /\ request[ch].at = "response"
    /\ cookie' = [cookie EXCEPT ![request[ch].browser] = request[ch].token]
    /\ Done(ch)
    /\ UNCHANGED <<comment, givenTo>>

\* The request or the response is lost; a statement that fails and a refusal of the rate
\* limiter, which comes before randomHex, look the same.
Lose(ch) ==
    /\ request[ch] # Idle
    /\ Done(ch)
    /\ UNCHANGED <<comment, cookie, givenTo>>

\* 30 minutes have passed since created_at.
WindowCloses(c) ==
    /\ comment[c].fresh
    /\ comment' = [comment EXCEPT ![c].fresh = FALSE]
    /\ UNCHANGED <<cookie, givenTo, request>>

Handle(ch) ==
    \/ \E t \in Token : Visit(ch, t) \/ \E c \in Comment : AddComment(ch, c, t)
    \/ UpdateCommentContent(ch) \/ SetCommentHidden(ch) \/ DeleteComment(ch)

Next ==
    \/ \E ch \in Channel :
         \/ \E b \in Browser, op \in Writing \cup Changing, c \in Comment \cup {None} : Send(ch, b, op, c)
         \/ Handle(ch) \/ Receive(ch) \/ Lose(ch)
    \/ \E c \in Comment : WindowCloses(c)

Spec == Init /\ [][Next]_vars

-----------------------------------------------------------------------------
(***************************************************************************)
(* README.md:819-823: nobody gets at another's identity.  The token that a *)
(* browser holds, sends or is being sent was minted for it and for no      *)
(* other, and the owner of a comment is the identity of the browser that   *)
(* wrote it.                                                               *)
(***************************************************************************)
IdentityIsPrivate ==
    /\ \A b \in Browser : cookie[b] # None => givenTo[cookie[b]] = b
    /\ \A ch \in Channel : request[ch] # Idle /\ request[ch].token # None =>
                              givenTo[request[ch].token] = request[ch].browser
    /\ \A c \in Comment : Live(c) /\ comment[c].owner # None =>
                            givenTo[comment[c].owner] = comment[c].writer

(***************************************************************************)
(* What a visitor's request changes he wrote himself, and a comment that   *)
(* vanishes without an administrator was the visitor's or a reply to his.  *)
(* A comment without an owner is an administrator's affair (README.md:817) *)
(* unless it replies to a visitor's.                                       *)
(***************************************************************************)
Wrote(b, c) == c # None /\ Live(c) /\ comment[c].writer = b

VisitorsKeepToTheirOwn ==
    [][\A ch \in Channel :
         request[ch].at = "sent" /\ request'[ch] # request[ch] /\ ~LoggedIn(ch) =>
           \A c \in Comment : Live(c) =>
             LET b == request[ch].browser
                 erased == comment'[c].state = "deleted" IN
             /\ erased => Wrote(b, c) \/ Wrote(b, comment[c].parent)
             /\ erased \/ comment'[c].hidden = comment[c].hidden
             /\ erased \/ comment'[c].edited = comment[c].edited \/ Wrote(b, c)]_vars

(***************************************************************************)
(* getComments tells a browser which comments are its own (mine) and which *)
(* it may still edit (can_edit), and the page keeps the buttons.  A        *)
(* browser is settled once it has a cookie and every request it has under  *)
(* way carries that one.  From then on, whatever responses are lost or     *)
(* late: it stays settled; what it is told is its own, and what it writes, *)
(* remains its own while it lives; and the buttons keep their promise: a   *)
(* DELETE of its own that arrives deletes, a PUT within the 30 minutes     *)
(* edits.                                                                  *)
(***************************************************************************)
Mine(c, t) == Live(c) /\ t # None /\ comment[c].owner # None /\ t = comment[c].owner
CanEdit(c, t) == Mine(c, t) /\ comment[c].fresh

RequestOf(ch, b) == request[ch] # Idle /\ request[ch].browser = b

Settled(b) ==
    /\ cookie[b] # None
    /\ \A ch \in Channel : RequestOf(ch, b) => request[ch].token = cookie[b]

Remains(b, c) == Mine(c, cookie[b]) /\ Live(c)' => Mine(c, cookie[b])'
BecomesOwn(b, c) == ~Live(c) /\ Live(c)' /\ comment'[c].writer = b => Mine(c, cookie[b])'

Honoured(b, ch) ==
    RequestOf(ch, b) =>
      /\ DeleteComment(ch) /\ Mine(request[ch].target, cookie[b]) =>
            comment'[request[ch].target].state = "deleted"
      /\ UpdateCommentContent(ch) /\ CanEdit(request[ch].target, cookie[b]) =>
            comment'[request[ch].target].edited

SettledWritersKeepTheirComments ==
    [][\A b \in Browser : Settled(b) =>
         /\ Settled(b)'
         /\ \A c \in Comment : Remains(b, c) /\ BecomesOwn(b, c)
         /\ \A ch \in Channel : Honoured(b, ch)]_vars

(***************************************************************************)
(* README.md:828 and routes.cpp:575: a browser is one identity, and with   *)
(* the cookie it was given it lays claim to its comments from then on.     *)
(* Not kept: two requests sent before the first response came back get a   *)
(* token each, the cookie that arrives last replaces the other, and the    *)
(* comment whose owner that was is its writer's no more.                   *)
(***************************************************************************)
WritersKeepTheirComments ==
    [][\A b \in Browser, c \in Comment : Remains(b, c)]_vars

=============================================================================
