------------------------------ MODULE Accounts ------------------------------
(***************************************************************************)
(* Administrator accounts and their login sessions.                        *)
(*                                                                         *)
(* The admins table lives in MySQL and survives a restart; the sessions    *)
(* live in the process (g_sessions in auth.cpp) and do not.  Every method  *)
(* of DataBase is one critical section of mtx_, and every session function *)
(* one critical section of g_sessionsMtx, but a route handler calls        *)
(* several of them: a request is a little program whose steps interleave   *)
(* with those of the other requests, and what it read in one step may be   *)
(* stale in the next.  req[w] is the program counter and the locals of the *)
(* request that Crow thread w is serving.                                  *)
(*                                                                         *)
(* Abstracted: e-mail addresses (an account is named by its id; a second   *)
(* registration of an address is refused and changes nothing, as is every  *)
(* other refused request), salts and hashes (a hash matches exactly the    *)
(* password it was made from), and the random bits of a session token: it  *)
(* is any token at all, one that is in use included.                       *)
(***************************************************************************)
EXTENDS Naturals

CONSTANTS
    AdminId,    \* every value admins.id takes
    Main,       \* the row seeded with is_main=1
    Password,
    Token,      \* session tokens; bounds the number of sessions
    Worker      \* Crow threads; bounds the number of concurrent requests

ASSUME MainAssumption == Main \in AdminId

VARIABLES
    account,    \* account[a]: has row a not been inserted yet, is it there, or deleted
    password,   \* password[a]: the one password_hash of row a matches
    sessions,   \* g_sessions
    req         \* req[w]: the request thread w serves

vars == <<account, password, sessions, req>>

(***************************************************************************)
(* cred is a history field: does the password this session was granted for *)
(* still match (current), was it changed while the session existed         *)
(* (outdated), or had it changed already when the session was stored       *)
(* (raced)?  by is the thread that stored it.                              *)
(***************************************************************************)
Session == [token : Token, adminId : AdminId, isMain : BOOLEAN,
            cred : {"current", "outdated", "raced"}, by : Worker]

Idle == [pc |-> "idle"]

MintRequest == [pc : {"mint"}, adminId : AdminId, isMain : BOOLEAN,
                cred : {"current", "outdated"}]
ChangeRequest == [pc : {"change"}, adminId : AdminId, old : Password, new : Password]
PurgeRequest == [pc : {"purge"}, adminId : AdminId]
AddRequest == [pc : {"add"}]
DeleteRequest == [pc : {"delete", "erase"}, target : AdminId]

Request == {Idle} \cup MintRequest \cup ChangeRequest \cup PurgeRequest
             \cup AddRequest \cup DeleteRequest

TypeOK ==
    /\ account \in [AdminId -> {"unused", "active", "deleted"}]
    /\ password \in [AdminId -> Password]
    /\ sessions \subseteq Session
    /\ req \in [Worker -> Request]

\* First start: initTable finds admins empty and seedMainAdmin inserts one row.
Init ==
    /\ account = [a \in AdminId |-> IF a = Main THEN "active" ELSE "unused"]
    /\ password \in [AdminId -> Password]
    /\ sessions = {}
    /\ req = [w \in Worker |-> Idle]

-----------------------------------------------------------------------------
Finish(w) == req' = [req EXCEPT ![w] = Idle]

\* mtx_ is free: no request is between the two statements of deleteAdmin.
DbFree == \A w \in Worker : req[w].pc # "erase"

\* The is_main column loginAdmin returns.
IdColumn(a) == a   \* mutant: row[0] read in place of row[1]
IsMainColumn(a) == a = Main

\* POST /api/login, first half: DataBase::loginAdmin accepts the password.
LoginAdmin(w, a, p) ==
    /\ req[w] = Idle /\ DbFree
    /\ account[a] = "active" /\ password[a] = p
    /\ req' = [req EXCEPT ![w] = [pc |-> "mint", adminId |-> a,
                                  isMain |-> IsMainColumn(a), cred |-> "current"]]
    /\ UNCHANGED <<account, password, sessions>>

\* Second half: createSession draws a token, and g_sessions[token] = s replaces what is there.
CreateSession(w, t) ==
    /\ req[w].pc = "mint"
    /\ sessions' = {s \in sessions : s.token # t} \cup
         {[token |-> t, adminId |-> req[w].adminId, isMain |-> req[w].isMain,
           cred |-> IF req[w].cred = "current" THEN "current" ELSE "raced", by |-> w]}
    /\ Finish(w)
    /\ UNCHANGED <<account, password>>

\* GET /logout
DestroySession(t) ==
    /\ \E s \in sessions : s.token = t
    /\ sessions' = {s \in sessions : s.token # t}
    /\ UNCHANGED <<account, password, req>>

\* PUT /api/password, first step: getSession copies the session out.
GetSession(w, s, old, new) ==
    /\ req[w] = Idle
    /\ req' = [req EXCEPT ![w] = [pc |-> "change", adminId |-> s.adminId,
                                  old |-> old, new |-> new]]
    /\ UNCHANGED <<account, password, sessions>>

\* The sessions and the logins under way that rest on a's present password.
OutdateSessions(a) ==
    {IF s.adminId = a /\ s.cred = "current" THEN [s EXCEPT !.cred = "outdated"] ELSE s :
        s \in sessions}
OutdateLogins(a) ==
    [v \in Worker |-> IF req[v].pc = "mint" /\ req[v].adminId = a
                      THEN [req[v] EXCEPT !.cred = "outdated"] ELSE req[v]]

\* Second step: UPDATE admins ... WHERE id=? AND password_hash matches old.
ChangePassword(w) ==
    /\ req[w].pc = "change" /\ DbFree
    /\ LET a == req[w].adminId IN
       IF account[a] = "active" /\ password[a] = req[w].old
       THEN /\ password' = [password EXCEPT ![a] = req[w].new]
            /\ sessions' = OutdateSessions(a)
            /\ req' = [OutdateLogins(a) EXCEPT ![w] = [pc |-> "purge", adminId |-> a]]
       ELSE Finish(w) /\ UNCHANGED <<password, sessions>>
    /\ UNCHANGED account

DestroyOneSession(w) ==   \* mutant: the loop stops after the first match
    /\ req[w].pc = "purge"
    /\ LET own == {s \in sessions : s.adminId = req[w].adminId} IN
       IF own = {} THEN UNCHANGED sessions ELSE \E s \in own : sessions' = sessions \ {s}
    /\ Finish(w)
    /\ UNCHANGED <<account, password>>

\* Third step: destroySessionsForAdmin.
DestroySessionsForAdmin(w) ==
    /\ req[w].pc = "purge"
    /\ sessions' = {s \in sessions : s.adminId # req[w].adminId}
    /\ Finish(w)
    /\ UNCHANGED <<account, password>>

\* POST and DELETE /api/admins, first step: isLoggedIn and isMainAdmin pass.
IsMainAdmin(w, s) ==
    /\ req[w] = Idle /\ s.isMain
    /\ \/ req' = [req EXCEPT ![w] = [pc |-> "add"]]
       \/ \E a \in AdminId : req' = [req EXCEPT ![w] = [pc |-> "delete", target |-> a]]
    /\ UNCHANGED <<account, password, sessions>>

\* insertAdmin(is_main=0), or its refusal of an address already registered.
InsertAdmin(w) ==
    /\ req[w].pc = "add" /\ DbFree
    /\ \/ \E a \in AdminId, p \in Password :
            /\ account[a] = "unused"
            /\ account' = [account EXCEPT ![a] = "active"]
            /\ password' = [password EXCEPT ![a] = p]
       \/ UNCHANGED <<account, password>>
    /\ Finish(w)
    /\ UNCHANGED sessions

\* deleteAdmin takes mtx_; its first statement moves the posts (see Posts).
ReassignPosts(w) ==
    /\ req[w].pc = "delete" /\ DbFree
    /\ req' = [req EXCEPT ![w].pc = "erase"]
    /\ UNCHANGED <<account, password, sessions>>

\* deleteAdmin's second statement: DELETE FROM admins WHERE id=? AND is_main=0.
AnyRow(a) == account[a] = "active"   \* mutant: without AND is_main=0
DeletableRow(a) == account[a] = "active" /\ a # Main
EraseAdmin(w) ==
    /\ req[w].pc = "erase"
    /\ account' = [account EXCEPT ![req[w].target] =
                     IF DeletableRow(req[w].target) THEN "deleted" ELSE @]
    /\ Finish(w)
    /\ UNCHANGED <<password, sessions>>

\* The process dies and is started again: g_sessions and every request are gone.
Restart ==
    /\ sessions' = {}
    /\ req' = [w \in Worker |-> Idle]
    /\ UNCHANGED <<account, password>>

SessionStep ==
    \/ \E t \in Token : DestroySession(t)
    \/ \E w \in Worker :
         \/ \E t \in Token : CreateSession(w, t)
         \/ DestroySessionsForAdmin(w)
         \/ \E s \in sessions : \/ \E old, new \in Password : GetSession(w, s, old, new)
                                \/ IsMainAdmin(w, s)

DbStep ==
    \E w \in Worker :
      \/ \E a \in AdminId, p \in Password : LoginAdmin(w, a, p)
      \/ ChangePassword(w)
      \/ InsertAdmin(w)

Next == SessionStep \/ DbStep \/ Restart
          \/ \E w \in Worker : ReassignPosts(w) \/ EraseAdmin(w)

Spec == Init /\ [][Next]_vars

\* A request that Crow has started runs to its end, unless the process dies.
Serve(w) == \/ \E t \in Token : CreateSession(w, t)
            \/ ChangePassword(w) \/ DestroySessionsForAdmin(w)
            \/ InsertAdmin(w) \/ ReassignPosts(w) \/ EraseAdmin(w)

FairSpec == Spec /\ \A w \in Worker : WF_vars(Serve(w))

-----------------------------------------------------------------------------
(***************************************************************************)
(* The isMain flag a session carries was read once, at login, and is never *)
(* read from the table again (isMainAdmin looks at g_sessions only).  It   *)
(* is right for as long as the session lives: it says "main" exactly for   *)
(* the main administrator's account, which is still there, and no session  *)
(* names an account that was never registered.                             *)
(***************************************************************************)
Authentic(a, isMain) == account[a] # "unused" /\ (isMain <=> a = Main)

SessionPrivilege ==
    /\ account[Main] = "active"
    /\ \A s \in sessions : Authentic(s.adminId, s.isMain)
    /\ \A w \in Worker : req[w].pc = "mint" => Authentic(req[w].adminId, req[w].isMain)

(***************************************************************************)
(* changePassword commits before destroySessionsForAdmin runs, so a        *)
(* session granted for the old password is still accepted in between; but  *)
(* only in between: when such a session is in the table, a request is on   *)
(* its way to destroy it.  A crash between the two steps is no exception   *)
(* (the sessions die with the process).  The sessions of logins that were  *)
(* themselves under way are the next property's business.                  *)
(***************************************************************************)
PurgePending(a) == \E w \in Worker : req[w].pc = "purge" /\ req[w].adminId = a

OutdatedOnlyWhilePurging ==
    \A s \in sessions : s.cred = "outdated" => PurgePending(s.adminId)

(***************************************************************************)
(* A login whose password was changed between loginAdmin and createSession *)
(* is stored all the same, after the purge, and nothing will look for it   *)
(* again.  How many can slip through: once no purge of an account is       *)
(* pending, at most one per thread, stored or still to be stored, however  *)
(* many logins and changes there were; the next change ends what the last  *)
(* one missed.                                                             *)
(***************************************************************************)
Stale(a) == {s \in sessions : s.adminId = a /\ s.cred # "current"}
StaleLogin(w, a) == req[w].pc = "mint" /\ req[w].adminId = a /\ req[w].cred = "outdated"

OneSlipsPerThread ==
    \A a \in AdminId : ~PurgePending(a) =>
        /\ \A r, s \in Stale(a) : r.by = s.by => r = s
        /\ \A s \in Stale(a) : ~StaleLogin(s.by, a)

(***************************************************************************)
(* What routes.cpp:224 and auth.h:33 promise: after a password change all  *)
(* the account's sessions are destroyed, so none that rests on an old      *)
(* password is left once no purge is pending.  The code does not keep it:  *)
(* a login whose loginAdmin accepted the old password may call             *)
(* createSession after the purge.                                          *)
(***************************************************************************)
PasswordChangeForcesLogout ==
    \A s \in sessions : s.cred # "current" => PurgePending(s.adminId)

\* A session that a password change outdated is eventually destroyed.
OutdatedSessionsEnd ==
    \A a \in AdminId :
      (\E s \in sessions : s.adminId = a /\ s.cred = "outdated")
        ~> (\A s \in sessions : s.adminId = a => s.cred # "outdated")

=============================================================================
