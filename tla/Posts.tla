------------------------------- MODULE Posts --------------------------------
(***************************************************************************)
(* Articles and who may change them.                                       *)
(*                                                                         *)
(* Composes with Accounts: the same database mutex, the same sessions, and *)
(* deleteAdmin, whose first statement hands the leaving administrator's    *)
(* articles to the main one.  A handler that changes an article reads the  *)
(* session, then the row it needs for its decision, then writes; task[e]   *)
(* is where the article or profile request that thread e serves has got    *)
(* to, and what it has read.  The threads of Worker serve the account      *)
(* requests at the same time.                                              *)
(*                                                                         *)
(* Abstracted: title, text, topic and summary of an article.  updatePost   *)
(* replaces them together with status, which stands for them all; the      *)
(* operation "publish" or "draft" is a PUT with that status, "hide" and    *)
(* "show" a PUT .../hidden.  A statement whose failure the code answers by *)
(* refusing the request is not made to fail here; those whose result       *)
(* nobody looks at, or whose failure is taken for "no such row", are.      *)
(***************************************************************************)
EXTENDS Accounts

CONSTANTS
    Editor,     \* Crow threads serving article and profile requests
    Post,       \* every value posts.id takes
    Nick,       \* nicknames; a new account's is its e-mail address
    Sent        \* bound: the operations on existing articles that are requested

Anonymous == "anonymous"   \* the author written when there is no nickname

Op == {"publish", "draft", "hide", "show", "delete"}

ASSUME AnonymousAssumption == Anonymous \notin Nick
ASSUME SentAssumption == Sent \subseteq Op

VARIABLES
    nick,     \* admins.nickname
    post,     \* the posts table
    owners,   \* history: owners[p] is everyone who has ever been author_id of p
    failed,   \* history: has a statement failed whose failure the code lets pass?
    task      \* task[e]: the article or profile request thread e serves

postVars == <<nick, post, owners, failed, task>>
allVars == <<vars, postVars>>

Status == {"published", "draft"}
Row == [state : {"unused", "live", "deleted"}, owner : AdminId,
        author : Nick \cup {Anonymous}, status : Status, hidden : BOOLEAN]

CreateTask == [pc : {"nick"}, adminId : AdminId, status : Status]
InsertTask == [pc : {"insert"}, adminId : AdminId, status : Status,
               author : Nick \cup {Anonymous}]
ChangeTask == [pc : {"check", "apply"}, op : Op, post : Post, adminId : AdminId,
               isMain : BOOLEAN, found : BOOLEAN]
ProfileTask == [pc : {"profile", "sync"}, adminId : AdminId, nick : Nick]

Task == {Idle} \cup CreateTask \cup InsertTask \cup ChangeTask \cup ProfileTask

PostsTypeOK ==
    /\ TypeOK
    /\ nick \in [AdminId -> Nick]
    /\ post \in [Post -> Row]
    /\ owners \in [Post -> SUBSET AdminId]
    /\ failed \in BOOLEAN
    /\ task \in [Editor -> Task]

\* The id of an article that is not in the table; the other columns mean nothing.
NoRow(s) == [state |-> s, owner |-> Main, author |-> Anonymous,
             status |-> "draft", hidden |-> FALSE]

\* posts is empty; the seed gives the main administrator a nickname.
PostsInit ==
    /\ Init
    /\ nick \in [AdminId -> Nick]
    /\ post = [p \in Post |-> NoRow("unused")]
    /\ owners = [p \in Post |-> {}]
    /\ failed = FALSE
    /\ task = [e \in Editor |-> Idle]

Live(p) == post[p].state = "live"

-----------------------------------------------------------------------------
EndTask(e) == task' = [task EXCEPT ![e] = Idle]

\* mtx_ is free of updateProfile, the one article-side section of two statements.
TaskDbFree == \A e \in Editor : task[e].pc # "sync"
NoLock == TRUE   \* mutant: the lock_guard is gone
AllDbFree == DbFree /\ TaskDbFree

\* POST /api/posts: getSession.
BeginCreate(e, s, st) ==
    /\ task[e] = Idle
    /\ task' = [task EXCEPT ![e] = [pc |-> "nick", adminId |-> s.adminId, status |-> st]]
    /\ UNCHANGED <<vars, nick, post, owners, failed>>

\* What getAdminNickname finds; a row that is gone has no nickname.
NullName(a) == IF account[a] = "active" THEN nick[a] ELSE "null"   \* mutant
NameOf(a) == IF account[a] = "active" THEN nick[a] ELSE Anonymous

\* POST /api/posts: getAdminNickname, and "anonymous" when it comes back empty.
GetAdminNickname(e, name) ==
    /\ task[e].pc = "nick" /\ AllDbFree
    /\ task' = [task EXCEPT ![e] =
                  [pc |-> "insert", adminId |-> task[e].adminId,
                   status |-> task[e].status, author |-> name]]
    /\ UNCHANGED <<vars, nick, post, owners>>

AskNickname(e) ==
    \/ GetAdminNickname(e, NameOf(task[e].adminId)) /\ UNCHANGED failed
    \/ GetAdminNickname(e, Anonymous) /\ failed' = TRUE

\* addPost: nothing ties author_id to a row of admins.
AddPost(e) ==
    /\ task[e].pc = "insert" /\ AllDbFree
    /\ \E p \in Post :
         /\ post[p].state = "unused"
         /\ post' = [post EXCEPT ![p] =
                       [state |-> "live", owner |-> task[e].adminId,
                        author |-> task[e].author, status |-> task[e].status,
                        hidden |-> FALSE]]
         /\ owners' = [owners EXCEPT ![p] = {task[e].adminId}]
    /\ EndTask(e)
    /\ UNCHANGED <<vars, nick, failed>>

\* PUT, PUT .../hidden and DELETE /api/posts/<id>: getSession.
BeginChange(e, s, op, p) ==
    /\ task[e] = Idle
    /\ task' = [task EXCEPT ![e] =
                   [pc |-> "check", op |-> op, post |-> p, adminId |-> s.adminId,
                    isMain |-> s.isMain, found |-> FALSE]]
    /\ UNCHANGED <<vars, nick, post, owners, failed>>

(***************************************************************************)
(* getPostAuthor and the decision each handler takes on its result.  PUT   *)
(* and PUT .../hidden answer 404 when it finds nothing; DELETE goes on.    *)
(***************************************************************************)
AnyAdmin(t) == TRUE   \* mutant: the 403 branch is lost
MayChange(t) == t.isMain \/ post[t.post].owner = t.adminId

GetPostAuthor(e, found) ==
    /\ task[e].pc = "check" /\ AllDbFree
    /\ IF IF found THEN MayChange(task[e]) ELSE task[e].op = "delete"
       THEN task' = [task EXCEPT ![e].pc = "apply", ![e].found = found]
       ELSE EndTask(e)
    /\ UNCHANGED <<vars, nick, post, owners>>

AskAuthor(e) ==
    \/ GetPostAuthor(e, Live(task[e].post)) /\ UNCHANGED failed
    \/ GetPostAuthor(e, FALSE) /\ failed' = TRUE

\* updatePost, setPostHidden, deletePost: all WHERE id=? and nothing more.
Changed(t) ==
    CASE t.op = "publish" -> [post[t.post] EXCEPT !.status = "published"]
      [] t.op = "draft"   -> [post[t.post] EXCEPT !.status = "draft"]
      [] t.op = "hide"    -> [post[t.post] EXCEPT !.hidden = TRUE]
      [] t.op = "show"    -> [post[t.post] EXCEPT !.hidden = FALSE]
      [] t.op = "delete"  -> NoRow("deleted")

ApplyChange(e) ==
    /\ task[e].pc = "apply" /\ AllDbFree
    /\ post' = IF Live(task[e].post) THEN [post EXCEPT ![task[e].post] = Changed(task[e])]
                                     ELSE post
    /\ EndTask(e)
    /\ UNCHANGED <<vars, nick, owners, failed>>

\* PUT /api/profile: getSession.
BeginProfile(e, s, n) ==
    /\ task[e] = Idle
    /\ task' = [task EXCEPT ![e] = [pc |-> "profile", adminId |-> s.adminId, nick |-> n]]
    /\ UNCHANGED <<vars, nick, post, owners, failed>>

\* updateProfile's first statement, UPDATE admins; mtx_ stays held.
UpdateAdmins(e) ==
    /\ task[e].pc = "profile" /\ AllDbFree
    /\ nick' = IF account[task[e].adminId] = "active"
               THEN [nick EXCEPT ![task[e].adminId] = task[e].nick] ELSE nick
    /\ task' = [task EXCEPT ![e].pc = "sync"]
    /\ UNCHANGED <<vars, post, owners, failed>>

\* Its second, UPDATE posts SET author; nobody looks whether it succeeded.
UpdateAuthors(e) ==
    /\ task[e].pc = "sync"
    /\ \/ /\ post' = [p \in Post |-> IF Live(p) /\ post[p].owner = task[e].adminId
                                     THEN [post[p] EXCEPT !.author = task[e].nick]
                                     ELSE post[p]]
          /\ UNCHANGED failed
       \/ failed' = TRUE /\ UNCHANGED post
    /\ EndTask(e)
    /\ UNCHANGED <<vars, nick, owners>>

(***************************************************************************)
(* deleteAdmin's first statement, composed: UPDATE posts SET author_id,    *)
(* author.  Its result is not looked at either.                            *)
(***************************************************************************)
OwnerOnly(row) == [row EXCEPT !.owner = Main]   \* mutant: author is forgotten
Inherited(row) == [row EXCEPT !.owner = Main, !.author = nick[Main]]

DeleteAdminMovesPosts(w) ==
    /\ TaskDbFree
    /\ ReassignPosts(w)
    /\ LET moved == {p \in Post : /\ Live(p) /\ post[p].owner = req[w].target
                                  /\ req[w].target # Main} IN
       \/ /\ post' = [p \in Post |-> IF p \in moved THEN Inherited(post[p]) ELSE post[p]]
          /\ owners' = [p \in Post |-> IF p \in moved THEN owners[p] \cup {Main}
                                                      ELSE owners[p]]
          /\ UNCHANGED failed
       \/ failed' = TRUE /\ UNCHANGED <<post, owners>>
    /\ UNCHANGED <<nick, task>>

RestartAll ==
    /\ Restart
    /\ task' = [e \in Editor |-> Idle]
    /\ UNCHANGED <<nick, post, owners, failed>>

ArticleStep ==
    \E e \in Editor :
      \/ \E s \in sessions :
           \/ \E st \in Status : BeginCreate(e, s, st)
           \/ \E op \in Sent, p \in Post : BeginChange(e, s, op, p)
           \/ \E n \in Nick : BeginProfile(e, s, n)
      \/ AskNickname(e)
      \/ AddPost(e)
      \/ AskAuthor(e)
      \/ ApplyChange(e)
      \/ UpdateAdmins(e)
      \/ UpdateAuthors(e)

AccountStep ==
    /\ \/ SessionStep
       \/ TaskDbFree /\ DbStep
       \/ \E w \in Worker : EraseAdmin(w)
    /\ UNCHANGED postVars

PostsNext == \/ ArticleStep \/ AccountStep \/ RestartAll
             \/ \E w \in Worker : DeleteAdminMovesPosts(w)

PostsSpec == PostsInit /\ [][PostsNext]_allVars

-----------------------------------------------------------------------------
(***************************************************************************)
(* An article request decides on one reading of the row and writes later,  *)
(* by id alone.  What still holds at the write: whoever is about to change *)
(* an article by virtue of owning it did own it at some time.  (A DELETE   *)
(* that found no row is let through without that: see ChangesOnlyOwn.)     *)
(***************************************************************************)
WritersOwned ==
    \A e \in Editor : task[e].pc = "apply" /\ task[e].found =>
        task[e].isMain \/ task[e].adminId \in owners[task[e].post]

(***************************************************************************)
(* database.cpp:1939: a leaving administrator's articles are moved first,  *)
(* so that none is left ownerless.  Between deleteAdmin's two statements   *)
(* no request can slip an article in: when the row of admins goes, nobody  *)
(* but the main administrator is left owning what it owned.  (Unless the   *)
(* UPDATE failed, which deleteAdmin does not look at.)                     *)
(***************************************************************************)
ErasedAdminOwnsNothing ==
    ~failed => \A w \in Worker : req[w].pc = "erase" /\ req[w].target # Main =>
                 \A p \in Post : Live(p) => post[p].owner # req[w].target

(***************************************************************************)
(* An article owned by an account that exists bears a nickname.           *)
(* "anonymous" is what a request gets whose account was deleted under it,  *)
(* and the article stays that account's until deleteAdmin, called again,   *)
(* moves it to the main administrator and signs it with his name.          *)
(***************************************************************************)
NamedAuthor ==
    ~failed => \A p \in Post : Live(p) /\ account[post[p].owner] = "active" =>
                 post[p].author \in Nick

(***************************************************************************)
(* README.md:787: who is not the main administrator changes or deletes     *)
(* only his own articles.  Not kept.  A DELETE of an id that no article    *)
(* has yet passes the check (routes.cpp:449 refuses only when the row is   *)
(* found) and removes the article that another administrator is given that *)
(* id for meanwhile; and deleteAdmin may move an article between the check *)
(* and the write of any of the three requests.                             *)
(***************************************************************************)
ChangesOwn(e) == post[task[e].post].owner = task[e].adminId

ChangesOnlyOwn ==
    [][\A e \in Editor :
         task[e].pc = "apply" /\ task'[e] = Idle /\ post' # post /\ ~task[e].isMain
           => ChangesOwn(e)]_allVars

(***************************************************************************)
(* database.cpp:1939 as a state: no article without an owner.  Not kept:   *)
(* deleteAdmin leaves the deleted account's sessions alive, and addPost    *)
(* checks no row of admins.                                                *)
(***************************************************************************)
EveryPostHasOwner ==
    \A p \in Post : Live(p) => account[post[p].owner] = "active"

(***************************************************************************)
(* database.cpp:2042: updateProfile keeps the author of all an account's   *)
(* articles in step with its nickname.  Not kept: POST /api/posts reads    *)
(* the nickname in one critical section and inserts in another, and the    *)
(* two UPDATEs of updateProfile are not one transaction.                   *)
(***************************************************************************)
AuthorInSync ==
    ~failed /\ AllDbFree =>
        \A p \in Post : Live(p) /\ account[post[p].owner] = "active" =>
                         post[p].author = nick[post[p].owner]

=============================================================================
