----------------------------- MODULE PostsProofs ----------------------------
(***************************************************************************)
(* What holds of Accounts for any accounts, passwords, tokens and threads, *)
(* and of Posts for any articles and nicknames besides.  Every step of     *)
(* Posts is a step of Accounts or leaves it alone, so what the first part  *)
(* shows of sessions carries over; the second part is about the articles.  *)
(***************************************************************************)
EXTENDS Posts, TLAPS

-----------------------------------------------------------------------------
(* Accounts. *)

\* Record shapes, stated once so that the steps below need not expand them.
LEMMA RequestShape ==
    ASSUME NEW r \in Request
    PROVE  /\ r.pc = "idle" => r = Idle
           /\ r.pc = "mint" => r \in MintRequest
           /\ r.pc = "change" => r \in ChangeRequest
           /\ r.pc = "purge" => r \in PurgeRequest
           /\ r.pc = "add" => r \in AddRequest
           /\ r.pc \in {"delete", "erase"} => r \in DeleteRequest
BY DEF Request, Idle, MintRequest, ChangeRequest, PurgeRequest, AddRequest, DeleteRequest

LEMMA TypeInit == Init => TypeOK
BY MainAssumption DEF Init, TypeOK, Request, Idle

LEMMA TypeStep == TypeOK /\ [Next]_vars => TypeOK'
<1> SUFFICES ASSUME TypeOK, [Next]_vars PROVE TypeOK'
  OBVIOUS
<1> USE DEF TypeOK, Request, Idle, MintRequest, ChangeRequest, PurgeRequest,
            AddRequest, DeleteRequest
<1>1. ASSUME NEW t \in Token, DestroySession(t) PROVE TypeOK'
  BY <1>1 DEF DestroySession
<1>2. ASSUME NEW w \in Worker, NEW t \in Token, CreateSession(w, t) PROVE TypeOK'
  <2> DEFINE s == [token |-> t, adminId |-> req[w].adminId, isMain |-> req[w].isMain,
                   cred |-> IF req[w].cred = "current" THEN "current" ELSE "raced", by |-> w]
  <2>1. req[w] \in MintRequest
    BY <1>2, RequestShape DEF CreateSession
  <2>2. s \in Session
    BY <2>1 DEF Session
  <2> QED
    BY <1>2, <2>2 DEF CreateSession, Finish
<1>3. ASSUME NEW w \in Worker, DestroySessionsForAdmin(w) PROVE TypeOK'
  BY <1>3 DEF DestroySessionsForAdmin, Finish
<1>4. ASSUME NEW w \in Worker, NEW s \in sessions, NEW old \in Password,
             NEW new \in Password, GetSession(w, s, old, new)
      PROVE TypeOK'
  BY <1>4 DEF GetSession, Session
<1>5. ASSUME NEW w \in Worker, NEW s \in sessions, IsMainAdmin(w, s) PROVE TypeOK'
  BY <1>5 DEF IsMainAdmin
<1>6. ASSUME NEW w \in Worker, NEW a \in AdminId, NEW p \in Password, LoginAdmin(w, a, p)
      PROVE TypeOK'
  BY <1>6 DEF LoginAdmin, IsMainColumn
<1>7. ASSUME NEW w \in Worker, ChangePassword(w) PROVE TypeOK'
  <2>1. req[w] \in ChangeRequest
    BY <1>7, RequestShape DEF ChangePassword
  <2>2. OutdateSessions(req[w].adminId) \subseteq Session
    BY <2>1 DEF OutdateSessions, Session
  <2>3. \A v \in Worker : req[v].pc = "mint" => req[v] \in MintRequest
    BY RequestShape
  <2>4. OutdateLogins(req[w].adminId) \in [Worker -> Request]
    BY <2>3 DEF OutdateLogins
  <2> QED
    BY <1>7, <2>1, <2>2, <2>4 DEF ChangePassword, Finish
<1>8. ASSUME NEW w \in Worker, InsertAdmin(w) PROVE TypeOK'
  BY <1>8 DEF InsertAdmin, Finish
<1>9. ASSUME NEW w \in Worker, ReassignPosts(w) PROVE TypeOK'
  BY <1>9 DEF ReassignPosts
<1>10. ASSUME NEW w \in Worker, EraseAdmin(w) PROVE TypeOK'
  BY <1>10 DEF EraseAdmin, Finish
<1>11. CASE Restart
  BY <1>11 DEF Restart
<1>12. CASE UNCHANGED vars
  BY <1>12 DEF vars
<1> QED
  BY <1>1, <1>2, <1>3, <1>4, <1>5, <1>6, <1>7, <1>8, <1>9, <1>10, <1>11, <1>12
     DEF Next, SessionStep, DbStep

\* Every state of every behaviour is well typed.
THEOREM TypeCorrect == Spec => []TypeOK
BY TypeInit, TypeStep, PTL DEF Spec

-----------------------------------------------------------------------------
(***************************************************************************)
(* A password change only relabels: every session after it is a session    *)
(* before it up to cred, and so is every login under way; a label becomes  *)
(* "outdated" only for the account whose purge it makes due.               *)
(***************************************************************************)
Relabelled(s, r) == s = r \/ s = [r EXCEPT !.cred = "outdated"]

LEMMA RelabelKeeps ==
    ASSUME NEW r, NEW s, r \in Session \/ r \in MintRequest, Relabelled(s, r)
    PROVE  /\ s.adminId = r.adminId /\ s.isMain = r.isMain
           /\ r \in Session => s.by = r.by
           /\ r \in MintRequest => s.pc = "mint"
BY DEF Relabelled, Session, MintRequest

LEMMA ChangeRelabels ==
    ASSUME TypeOK, NEW w \in Worker, ChangePassword(w)
    PROVE  /\ \A s \in sessions' : \E r \in sessions :
                /\ Relabelled(s, r)
                /\ s # r => req'[w].pc = "purge" /\ req'[w].adminId = r.adminId
           /\ \A v \in Worker : v # w =>
                /\ Relabelled(req'[v], req[v])
                /\ req'[v] # req[v] => req'[w].pc = "purge" /\ req'[w].adminId = req[v].adminId
           /\ \A v \in Worker : v # w /\ req[v].pc # "mint" => req'[v] = req[v]
           /\ req[w].pc = "change" /\ req'[w].pc \in {"idle", "purge"}
           /\ account' = account
<1> DEFINE a == req[w].adminId
           Out(s) == IF s.adminId = a /\ s.cred = "current"
                     THEN [s EXCEPT !.cred = "outdated"] ELSE s
<1>1. req[w].pc = "change" /\ account' = account
  BY DEF ChangePassword
<1>2. CASE account[a] = "active" /\ password[a] = req[w].old
  <2>1. /\ sessions' = {Out(s) : s \in sessions}
        /\ req' = [OutdateLogins(a) EXCEPT ![w] = [pc |-> "purge", adminId |-> a]]
    BY <1>2 DEF ChangePassword, OutdateSessions
  <2>2. /\ req'[w] = [pc |-> "purge", adminId |-> a]
        /\ \A v \in Worker : v # w => req'[v] = OutdateLogins(a)[v]
    BY <2>1 DEF OutdateLogins
  <2>3. /\ \A v \in Worker : v # w =>
             Relabelled(req'[v], req[v]) /\ (req'[v] # req[v] => req[v].adminId = a)
        /\ \A v \in Worker : v # w /\ req[v].pc # "mint" => req'[v] = req[v]
    BY <2>2 DEF OutdateLogins, Relabelled
  <2>4. \A s \in sessions : /\ Relabelled(Out(s), s)
                            /\ Out(s) # s => s.adminId = a
    BY DEF Relabelled, TypeOK, Session
  <2>5. \A s \in sessions' : \E r \in sessions :
           /\ Relabelled(s, r)
           /\ s # r => req'[w].pc = "purge" /\ req'[w].adminId = r.adminId
    <3> TAKE s \in sessions'
    <3>1. PICK r \in sessions : s = Out(r)
      BY <2>1
    <3> QED
      BY <2>2, <2>4, <3>1
  <2>6. req'[w].pc = "purge" /\ req'[w].adminId = a
    BY <2>2
  <2> HIDE DEF Out, a
  <2> QED
    BY <1>1, <2>3, <2>5, <2>6, Zenon
<1>3. CASE ~(account[a] = "active" /\ password[a] = req[w].old)
  <2>1. sessions' = sessions /\ req' = [req EXCEPT ![w] = Idle]
    BY <1>3 DEF ChangePassword, Finish
  <2>2. req'[w].pc = "idle" /\ \A v \in Worker : v # w => req'[v] = req[v]
    BY <2>1 DEF TypeOK, Idle
  <2> QED
    BY <1>1, <2>1, <2>2 DEF Relabelled
<1> QED
  BY <1>2, <1>3

\* A login that is under way after a password change was so before it.
LEMMA ChangeLogins ==
    ASSUME TypeOK, NEW w \in Worker, ChangePassword(w),
           NEW v \in Worker, req'[v].pc = "mint"
    PROVE  /\ req[v].pc = "mint"
           /\ req'[v].adminId = req[v].adminId /\ req'[v].isMain = req[v].isMain
<1>1. v # w
  BY ChangeRelabels
<1>2. Relabelled(req'[v], req[v]) /\ req[v].pc = "mint"
  BY <1>1, ChangeRelabels
<1>3. req[v] \in MintRequest
  BY <1>2, RequestShape DEF TypeOK
<1> QED
  BY <1>2, <1>3, RelabelKeeps

-----------------------------------------------------------------------------
LEMMA PrivilegeStep == TypeOK /\ SessionPrivilege /\ [Next]_vars => SessionPrivilege'
<1> SUFFICES ASSUME TypeOK, SessionPrivilege, [Next]_vars PROVE SessionPrivilege'
  OBVIOUS
<1> USE MainAssumption DEF TypeOK, SessionPrivilege, Authentic, Idle
<1>1. ASSUME NEW t \in Token, DestroySession(t) PROVE SessionPrivilege'
  BY <1>1 DEF DestroySession
<1>2. ASSUME NEW w \in Worker, NEW t \in Token, CreateSession(w, t) PROVE SessionPrivilege'
  BY <1>2 DEF CreateSession, Finish
<1>3. ASSUME NEW w \in Worker, DestroySessionsForAdmin(w) PROVE SessionPrivilege'
  BY <1>3 DEF DestroySessionsForAdmin, Finish
<1>4. ASSUME NEW w \in Worker, NEW s \in sessions, NEW old \in Password,
             NEW new \in Password, GetSession(w, s, old, new)
      PROVE SessionPrivilege'
  BY <1>4 DEF GetSession
<1>5. ASSUME NEW w \in Worker, NEW s \in sessions, IsMainAdmin(w, s)
      PROVE SessionPrivilege'
  BY <1>5 DEF IsMainAdmin
<1>6. ASSUME NEW w \in Worker, NEW a \in AdminId, NEW p \in Password, LoginAdmin(w, a, p)
      PROVE SessionPrivilege'
  BY <1>6 DEF LoginAdmin, IsMainColumn
<1>7. ASSUME NEW w \in Worker, ChangePassword(w) PROVE SessionPrivilege'
  <2>1. \A s \in sessions' : \E r \in sessions : s.adminId = r.adminId /\ s.isMain = r.isMain
    BY <1>7, ChangeRelabels, RelabelKeeps
  <2>2. \A v \in Worker : req'[v].pc = "mint" =>
          /\ req[v].pc = "mint"
          /\ req'[v].adminId = req[v].adminId /\ req'[v].isMain = req[v].isMain
    BY <1>7, ChangeLogins
  <2>3. account' = account
    BY <1>7, ChangeRelabels
  <2> QED
    BY <2>1, <2>2, <2>3
<1>8. ASSUME NEW w \in Worker, InsertAdmin(w) PROVE SessionPrivilege'
  <2>1. \A a \in AdminId : account[a] # "unused" => account'[a] = account[a]
    BY <1>8 DEF InsertAdmin
  <2>2. sessions' = sessions /\ \A v \in Worker : req'[v].pc = "mint" => req'[v] = req[v]
    BY <1>8 DEF InsertAdmin, Finish
  <2>3. /\ \A s \in sessions : s.adminId \in AdminId
        /\ \A v \in Worker : req[v].pc = "mint" => req[v].adminId \in AdminId
    BY RequestShape DEF Session, MintRequest
  <2> QED
    BY <2>1, <2>2, <2>3
<1>9. ASSUME NEW w \in Worker, ReassignPosts(w) PROVE SessionPrivilege'
  BY <1>9 DEF ReassignPosts
<1>10. ASSUME NEW w \in Worker, EraseAdmin(w) PROVE SessionPrivilege'
  BY <1>10 DEF EraseAdmin, Finish, DeletableRow
<1>11. CASE Restart
  BY <1>11 DEF Restart
<1>12. CASE UNCHANGED vars
  BY <1>12 DEF vars
<1> QED
  BY <1>1, <1>2, <1>3, <1>4, <1>5, <1>6, <1>7, <1>8, <1>9, <1>10, <1>11, <1>12
     DEF Next, SessionStep, DbStep

\* The privilege a session was given at login is right for its whole life.
THEOREM PrivilegeIsAuthentic == Spec => []SessionPrivilege
<1>1. Init => SessionPrivilege
  BY MainAssumption DEF Init, SessionPrivilege, Idle
<1> QED
  BY <1>1, TypeCorrect, PrivilegeStep, PTL DEF Spec

-----------------------------------------------------------------------------
LEMMA PurgeStep ==
    TypeOK /\ OutdatedOnlyWhilePurging /\ [Next]_vars => OutdatedOnlyWhilePurging'
<1> SUFFICES ASSUME TypeOK, OutdatedOnlyWhilePurging, [Next]_vars
             PROVE OutdatedOnlyWhilePurging'
  OBVIOUS
<1> USE DEF TypeOK, OutdatedOnlyWhilePurging, PurgePending, Idle
<1>1. ASSUME NEW t \in Token, DestroySession(t) PROVE OutdatedOnlyWhilePurging'
  BY <1>1 DEF DestroySession
<1>2. ASSUME NEW w \in Worker, NEW t \in Token, CreateSession(w, t) PROVE OutdatedOnlyWhilePurging'
  BY <1>2 DEF CreateSession, Finish
<1>3. ASSUME NEW w \in Worker, DestroySessionsForAdmin(w)
      PROVE OutdatedOnlyWhilePurging'
  BY <1>3 DEF DestroySessionsForAdmin, Finish
<1>4. ASSUME NEW w \in Worker, NEW s \in sessions, NEW old \in Password,
             NEW new \in Password, GetSession(w, s, old, new)
      PROVE OutdatedOnlyWhilePurging'
  BY <1>4 DEF GetSession
<1>5. ASSUME NEW w \in Worker, NEW s \in sessions, IsMainAdmin(w, s)
      PROVE OutdatedOnlyWhilePurging'
  BY <1>5 DEF IsMainAdmin
<1>6. ASSUME NEW w \in Worker, NEW a \in AdminId, NEW p \in Password, LoginAdmin(w, a, p)
      PROVE OutdatedOnlyWhilePurging'
  BY <1>6 DEF LoginAdmin
<1>7. ASSUME NEW w \in Worker, ChangePassword(w) PROVE OutdatedOnlyWhilePurging'
  <2> SUFFICES ASSUME NEW s \in sessions', s.cred = "outdated"
               PROVE  \E v \in Worker : req'[v].pc = "purge" /\ req'[v].adminId = s.adminId
    OBVIOUS
  <2>1. PICK r \in sessions :
          /\ Relabelled(s, r)
          /\ s # r => req'[w].pc = "purge" /\ req'[w].adminId = r.adminId
    BY <1>7, ChangeRelabels
  <2>2. s.adminId = r.adminId
    BY <2>1, RelabelKeeps
  <2>3. CASE s = r
    <3>1. PICK v \in Worker : req[v].pc = "purge" /\ req[v].adminId = s.adminId
      BY <2>3
    <3>2. req[w].pc = "change"
      BY <1>7, ChangeRelabels
    <3>3. v # w /\ req[v].pc # "mint"
      BY <3>1, <3>2
    <3>4. req'[v] = req[v]
      BY <1>7, <3>3, ChangeRelabels
    <3> QED
      BY <3>1, <3>4
  <2> QED
    BY <2>1, <2>2, <2>3
<1>8. ASSUME NEW w \in Worker, InsertAdmin(w) PROVE OutdatedOnlyWhilePurging'
  BY <1>8 DEF InsertAdmin, Finish
<1>9. ASSUME NEW w \in Worker, ReassignPosts(w) PROVE OutdatedOnlyWhilePurging'
  BY <1>9 DEF ReassignPosts
<1>10. ASSUME NEW w \in Worker, EraseAdmin(w) PROVE OutdatedOnlyWhilePurging'
  BY <1>10 DEF EraseAdmin, Finish
<1>11. CASE Restart
  BY <1>11 DEF Restart
<1>12. CASE UNCHANGED vars
  BY <1>12 DEF vars
<1> QED
  BY <1>1, <1>2, <1>3, <1>4, <1>5, <1>6, <1>7, <1>8, <1>9, <1>10, <1>11, <1>12
     DEF Next, SessionStep, DbStep

\* A session a password change outdated is only ever there while its purge is due.
THEOREM OutdatedSessionsAreDoomed == Spec => []OutdatedOnlyWhilePurging
<1>1. Init => OutdatedOnlyWhilePurging
  BY DEF Init, OutdatedOnlyWhilePurging
<1> QED
  BY <1>1, TypeCorrect, PurgeStep, PTL DEF Spec

-----------------------------------------------------------------------------
(***************************************************************************)
(* The threads whose logins slip past a purge.  Most steps add no stale    *)
(* session, make no login stale and lose no purge.                         *)
(***************************************************************************)
LEMMA SlipKept ==
    ASSUME TypeOK, OneSlipsPerThread,
           \A a \in AdminId : ~PurgePending(a)' =>
               /\ ~PurgePending(a)
               /\ \A s \in Stale(a)' : s \in Stale(a)
               /\ \A w \in Worker : StaleLogin(w, a)' => StaleLogin(w, a)
    PROVE  OneSlipsPerThread'
<1> SUFFICES ASSUME NEW a \in AdminId, ~PurgePending(a)'
             PROVE  /\ \A q, s \in Stale(a)' : q.by = s.by => q = s
                    /\ \A s \in Stale(a)' : ~StaleLogin(s.by, a)'
  BY DEF OneSlipsPerThread
<1>1. \A s \in Stale(a) : s.by \in Worker
  BY DEF Stale, TypeOK, Session
<1> QED
  BY <1>1 DEF OneSlipsPerThread

LEMMA SlipStep == TypeOK /\ OneSlipsPerThread /\ [Next]_vars => OneSlipsPerThread'
<1> SUFFICES ASSUME TypeOK, OneSlipsPerThread, [Next]_vars PROVE OneSlipsPerThread'
  OBVIOUS
\* Sessions go, and no request becomes stale or stops purging.
<1>1. ASSUME \A s \in sessions' : s \in sessions,
             \A w \in Worker : \/ req'[w] = req[w]
                               \/ /\ req[w].pc # "purge"
                                  /\ req'[w].pc = "mint" => req'[w].cred = "current"
      PROVE  OneSlipsPerThread'
  <2>1. \A a \in AdminId : \A s \in Stale(a)' : s \in Stale(a)
    BY <1>1 DEF Stale
  <2>2. \A a \in AdminId : \A w \in Worker : StaleLogin(w, a)' => StaleLogin(w, a)
    BY <1>1 DEF StaleLogin
  <2>3. \A a \in AdminId : PurgePending(a) => PurgePending(a)'
    BY <1>1 DEF PurgePending
  <2> QED
    BY <2>1, <2>2, <2>3, SlipKept
\* The late login is one of the thread's, and no longer under way.
<1>2. ASSUME NEW w \in Worker, NEW t \in Token, CreateSession(w, t) PROVE OneSlipsPerThread'
  <2> SUFFICES ASSUME NEW a \in AdminId, ~PurgePending(a)'
               PROVE  /\ \A q, s \in Stale(a)' : q.by = s.by => q = s
                      /\ \A s \in Stale(a)' : ~StaleLogin(s.by, a)'
    BY DEF OneSlipsPerThread
  <2>1. req[w].pc = "mint" /\ req[w] \in MintRequest /\ req' = [req EXCEPT ![w] = Idle]
    BY <1>2, RequestShape DEF CreateSession, Finish, TypeOK
  <2>2. ~PurgePending(a)
    BY <2>1 DEF PurgePending, TypeOK
  <2>3. \A v \in Worker : StaleLogin(v, a)' => v # w /\ StaleLogin(v, a)
    BY <2>1 DEF StaleLogin, Idle, TypeOK
  <2>4. PICK n : /\ n.by = w /\ n.adminId = req[w].adminId
                 /\ n.cred # "current" => req[w].cred # "current"
                 /\ \A s \in sessions' : s \in sessions \/ s = n
    <3> DEFINE new == [token |-> t, adminId |-> req[w].adminId, isMain |-> req[w].isMain,
                       cred |-> IF req[w].cred = "current" THEN "current" ELSE "raced", by |-> w]
    <3>1. /\ new.by = w /\ new.adminId = req[w].adminId
          /\ new.cred # "current" => req[w].cred # "current"
          /\ \A s \in sessions' : s \in sessions \/ s = new
      BY <1>2 DEF CreateSession
    <3> QED
      BY <3>1
  <2>5. n.adminId = a /\ n.cred # "current" => StaleLogin(w, a)
    BY <2>1, <2>4 DEF StaleLogin, MintRequest
  <2>6. \A s \in Stale(a)' : s \in Stale(a) \/ (s = n /\ StaleLogin(w, a))
    BY <2>4, <2>5 DEF Stale
  <2>7. \A s \in Stale(a) : s.by \in Worker /\ ~StaleLogin(s.by, a)
    BY <2>2 DEF OneSlipsPerThread, Stale, TypeOK, Session
  <2>8. \A q, s \in Stale(a) : q.by = s.by => q = s
    BY <2>2 DEF OneSlipsPerThread
  <2> QED
    BY <2>3, <2>4, <2>6, <2>7, <2>8
\* Nothing of the account is left, and the other accounts' purges stay.
<1>3. ASSUME NEW w \in Worker, DestroySessionsForAdmin(w) PROVE OneSlipsPerThread'
  <2>1. /\ sessions' = {s \in sessions : s.adminId # req[w].adminId}
        /\ req[w].pc = "purge" /\ req' = [req EXCEPT ![w] = Idle]
    BY <1>3 DEF DestroySessionsForAdmin, Finish
  <2>2. \A a \in AdminId : \A s \in Stale(a)' : s \in Stale(a) /\ a # req[w].adminId
    BY <2>1 DEF Stale
  <2>3. \A a \in AdminId : \A v \in Worker : StaleLogin(v, a)' => StaleLogin(v, a)
    BY <2>1 DEF StaleLogin, Idle, TypeOK
  <2>4. \A a \in AdminId : a # req[w].adminId /\ PurgePending(a) => PurgePending(a)'
    BY <2>1 DEF PurgePending, TypeOK
  <2>5. ASSUME NEW a \in AdminId, ~PurgePending(a)'
        PROVE  /\ \A q, s \in Stale(a)' : q.by = s.by => q = s
               /\ \A s \in Stale(a)' : ~StaleLogin(s.by, a)'
    <3>1. CASE a = req[w].adminId
      BY <2>2, <3>1
    <3>2. CASE a # req[w].adminId
      <4>1. ~PurgePending(a)
        BY <2>4, <2>5, <3>2
      <4>2. \A s \in Stale(a) : s.by \in Worker
        BY DEF Stale, TypeOK, Session
      <4> QED
        BY <2>2, <2>3, <4>1, <4>2 DEF OneSlipsPerThread
    <3> QED
      BY <3>1, <3>2
  <2> QED
    BY <2>5 DEF OneSlipsPerThread
\* What becomes stale has its purge pending from then on.
<1>4. ASSUME NEW w \in Worker, ChangePassword(w) PROVE OneSlipsPerThread'
  <2> SUFFICES ASSUME NEW a \in AdminId, ~PurgePending(a)'
               PROVE  /\ ~PurgePending(a)
                      /\ \A s \in Stale(a)' : s \in Stale(a)
                      /\ \A v \in Worker : StaleLogin(v, a)' => StaleLogin(v, a)
    BY SlipKept
  <2>0. ~(req'[w].pc = "purge" /\ req'[w].adminId = a)
    BY DEF PurgePending
  <2>1. ~PurgePending(a)
    <3> SUFFICES ASSUME NEW v \in Worker, req[v].pc = "purge", req[v].adminId = a PROVE FALSE
      BY DEF PurgePending
    <3>1. v # w
      BY <1>4, ChangeRelabels
    <3>2. req'[v] = req[v]
      BY <1>4, <3>1, ChangeRelabels
    <3> QED
      BY <3>2 DEF PurgePending
  <2>2. ASSUME NEW s \in Stale(a)' PROVE s \in Stale(a)
    <3>1. s \in sessions' /\ s.adminId = a /\ s.cred # "current"
      BY DEF Stale
    <3>2. PICK r \in sessions :
            /\ Relabelled(s, r)
            /\ s # r => req'[w].pc = "purge" /\ req'[w].adminId = r.adminId
      BY <1>4, <3>1, ChangeRelabels
    <3>3. s.adminId = r.adminId
      BY <3>2, RelabelKeeps DEF TypeOK
    <3> QED
      BY <2>0, <3>1, <3>2, <3>3 DEF Stale
  <2>3. ASSUME NEW v \in Worker, StaleLogin(v, a)' PROVE StaleLogin(v, a)
    <3>1. req'[v].pc = "mint" /\ req'[v].adminId = a /\ req'[v].cred = "outdated"
      BY <2>3 DEF StaleLogin
    <3>2. req[v].adminId = a /\ v # w
      BY <1>4, <3>1, ChangeLogins, ChangeRelabels
    <3>3. req'[v] = req[v]
      BY <1>4, <2>0, <3>2, ChangeRelabels
    <3> QED
      BY <3>1, <3>3 DEF StaleLogin
  <2> QED
    BY <2>1, <2>2, <2>3
<1>5. ASSUME NEW w \in Worker, NEW a \in AdminId, NEW p \in Password, LoginAdmin(w, a, p)
      PROVE OneSlipsPerThread'
  BY <1>1, <1>5 DEF LoginAdmin, Idle, TypeOK
<1>6. ASSUME NEW t \in Token, DestroySession(t) PROVE OneSlipsPerThread'
  BY <1>1, <1>6 DEF DestroySession
<1>7. ASSUME NEW w \in Worker,
             \/ InsertAdmin(w) \/ EraseAdmin(w) \/ ReassignPosts(w)
             \/ \E s \in sessions : \/ \E old, new \in Password : GetSession(w, s, old, new)
                                    \/ IsMainAdmin(w, s)
      PROVE OneSlipsPerThread'
  <2>1. \A s \in sessions' : s \in sessions
    BY <1>7 DEF InsertAdmin, EraseAdmin, ReassignPosts, GetSession, IsMainAdmin
  <2>2. \A v \in Worker : req'[v] = req[v] \/ (req[v].pc # "purge" /\ req'[v].pc # "mint")
    <3>1. CASE InsertAdmin(w) \/ EraseAdmin(w)
      BY <3>1 DEF InsertAdmin, EraseAdmin, Finish, Idle, TypeOK
    <3>2. CASE ReassignPosts(w)
      <4>1. req[w].pc = "delete" /\ req[w] \in DeleteRequest
        BY <3>2, RequestShape DEF ReassignPosts, TypeOK
      <4>2. req'[w].pc = "erase"
        BY <3>2, <4>1 DEF ReassignPosts, TypeOK, DeleteRequest
      <4> QED
        BY <3>2, <4>1, <4>2 DEF ReassignPosts, TypeOK
    <3>3. CASE \E s \in sessions : \/ \E old, new \in Password : GetSession(w, s, old, new)
                                   \/ IsMainAdmin(w, s)
      BY <3>3 DEF GetSession, IsMainAdmin, Idle, TypeOK
    <3> QED
      BY <1>7, <3>1, <3>2, <3>3
  <2> QED
    BY <1>1, <2>1, <2>2
<1>8. CASE Restart
  BY <1>8 DEF Restart, OneSlipsPerThread, Stale
<1>9. CASE UNCHANGED vars
  BY <1>1, <1>9 DEF vars
<1> QED
  BY <1>2, <1>3, <1>4, <1>5, <1>6, <1>7, <1>8, <1>9 DEF Next, SessionStep, DbStep

(***************************************************************************)
(* However many logins and password changes interleave, and whatever       *)
(* tokens they draw, at most one login of an account per thread slips past *)
(* its purge (routes.cpp:148).                                             *)
(***************************************************************************)
THEOREM FewSlipThrough == Spec => []OneSlipsPerThread
<1>1. Init => OneSlipsPerThread
  BY DEF Init, OneSlipsPerThread, Stale
<1> QED
  BY <1>1, TypeCorrect, SlipStep, PTL DEF Spec

-----------------------------------------------------------------------------
(* Posts. *)

LEMMA StepIsAccountStep == [PostsNext]_allVars => [Next]_vars
<1> SUFFICES ASSUME [PostsNext]_allVars PROVE [Next]_vars
  OBVIOUS
<1>1. CASE ArticleStep
  BY <1>1 DEF ArticleStep, BeginCreate, AskNickname, GetAdminNickname, AddPost, BeginChange,
       AskAuthor, GetPostAuthor, ApplyChange, BeginProfile, UpdateAdmins, UpdateAuthors
<1>2. CASE AccountStep
  BY <1>2 DEF AccountStep, Next
<1>3. CASE RestartAll
  BY <1>3 DEF RestartAll, Next
<1>4. ASSUME NEW w \in Worker, DeleteAdminMovesPosts(w) PROVE [Next]_vars
  BY <1>4 DEF DeleteAdminMovesPosts, Next
<1>5. CASE UNCHANGED allVars
  BY <1>5 DEF allVars
<1> QED
  BY <1>1, <1>2, <1>3, <1>4, <1>5 DEF PostsNext

(***************************************************************************)
(* Serving articles adds nothing to what Accounts can do: seen through the *)
(* accounts and the sessions alone, the whole server is Accounts.          *)
(***************************************************************************)
THEOREM PostsImplementAccounts == PostsSpec => Spec
<1>1. PostsInit => Init
  BY DEF PostsInit
<1> QED
  BY <1>1, StepIsAccountStep, PTL DEF PostsSpec, Spec

(***************************************************************************)
(* What was shown of sessions holds of the whole server: no article        *)
(* request makes a session, changes a privilege or revives a session that  *)
(* a password change has outdated.                                         *)
(***************************************************************************)
THEOREM SessionsStaySound ==
    PostsSpec => [](SessionPrivilege /\ OutdatedOnlyWhilePurging /\ OneSlipsPerThread)
<1> QED
  BY PostsImplementAccounts, PrivilegeIsAuthentic, OutdatedSessionsAreDoomed,
     FewSlipThrough, PTL

-----------------------------------------------------------------------------
(* Type correctness. *)

LEMMA TaskShape ==
    ASSUME NEW t \in Task
    PROVE  /\ t.pc = "nick" => t \in CreateTask
           /\ t.pc = "insert" => t \in InsertTask
           /\ t.pc \in {"check", "apply"} => t \in ChangeTask
           /\ t.pc \in {"profile", "sync"} => t \in ProfileTask
BY DEF Task, Idle, CreateTask, InsertTask, ChangeTask, ProfileTask

LEMMA NoRowType == NoRow("unused") \in Row /\ NoRow("deleted") \in Row
BY MainAssumption DEF NoRow, Row, Status

LEMMA PostsTypeInit == PostsInit => PostsTypeOK
BY TypeInit, NoRowType DEF PostsInit, PostsTypeOK, Task

LEMMA PostsTypeStep == PostsTypeOK /\ [PostsNext]_allVars => PostsTypeOK'
<1> SUFFICES ASSUME PostsTypeOK, [PostsNext]_allVars PROVE PostsTypeOK'
  OBVIOUS
<1>0. TypeOK'
  BY StepIsAccountStep, TypeStep DEF PostsTypeOK
<1>t. \A s \in sessions : s.adminId \in AdminId /\ s.isMain \in BOOLEAN
  BY DEF PostsTypeOK, TypeOK, Session
<1>1. ASSUME NEW e \in Editor, NEW s \in sessions, NEW st \in Status, BeginCreate(e, s, st)
      PROVE  PostsTypeOK'
  BY <1>0, <1>1, <1>t DEF BeginCreate, PostsTypeOK, Task, CreateTask
<1>2. ASSUME NEW e \in Editor, NEW s \in sessions, NEW op \in Sent, NEW p \in Post,
             BeginChange(e, s, op, p)
      PROVE  PostsTypeOK'
  BY <1>0, <1>2, <1>t, SentAssumption DEF BeginChange, PostsTypeOK, Task, ChangeTask
<1>3. ASSUME NEW e \in Editor, NEW s \in sessions, NEW n \in Nick, BeginProfile(e, s, n)
      PROVE  PostsTypeOK'
  BY <1>0, <1>3, <1>t DEF BeginProfile, PostsTypeOK, Task, ProfileTask
<1>4. ASSUME NEW e \in Editor, AskNickname(e) PROVE PostsTypeOK'
  <2>1. task[e] \in CreateTask
    BY <1>4, TaskShape DEF AskNickname, GetAdminNickname, PostsTypeOK
  <2>2. NameOf(task[e].adminId) \in Nick \cup {Anonymous}
    BY <2>1 DEF NameOf, PostsTypeOK, CreateTask
  <2>3. PICK name \in Nick \cup {Anonymous} :
          task' = [task EXCEPT ![e] = [pc |-> "insert", adminId |-> task[e].adminId,
                                       status |-> task[e].status, author |-> name]]
    BY <1>4, <2>2 DEF AskNickname, GetAdminNickname
  <2>4. task' \in [Editor -> Task]
    BY <2>1, <2>3 DEF PostsTypeOK, Task, CreateTask, InsertTask
  <2> QED
    BY <1>0, <1>4, <2>4 DEF AskNickname, GetAdminNickname, PostsTypeOK
<1>5. ASSUME NEW e \in Editor, AddPost(e) PROVE PostsTypeOK'
  <2>1. task[e] \in InsertTask
    BY <1>5, TaskShape DEF AddPost, PostsTypeOK
  <2>2. [state |-> "live", owner |-> task[e].adminId, author |-> task[e].author,
         status |-> task[e].status, hidden |-> FALSE] \in Row
    BY <2>1 DEF InsertTask, Row
  <2>3. task[e].adminId \in AdminId
    BY <2>1 DEF InsertTask
  <2> QED
    BY <1>0, <1>5, <2>2, <2>3 DEF AddPost, EndTask, PostsTypeOK, Task
<1>6. ASSUME NEW e \in Editor, AskAuthor(e) PROVE PostsTypeOK'
  <2>1. task[e] \in ChangeTask
    BY <1>6, TaskShape DEF AskAuthor, GetPostAuthor, PostsTypeOK
  <2>2. \A found \in BOOLEAN :
          [task EXCEPT ![e].pc = "apply", ![e].found = found] \in [Editor -> Task]
    BY <2>1 DEF PostsTypeOK, Task, ChangeTask
  <2>3. task' \in [Editor -> Task]
    BY <1>6, <2>2 DEF AskAuthor, GetPostAuthor, EndTask, PostsTypeOK, Task, Live
  <2> QED
    BY <1>0, <1>6, <2>3 DEF AskAuthor, GetPostAuthor, PostsTypeOK
<1>7. ASSUME NEW e \in Editor, ApplyChange(e) PROVE PostsTypeOK'
  <2>1. task[e] \in ChangeTask
    BY <1>7, TaskShape DEF ApplyChange, PostsTypeOK
  <2>2. post[task[e].post] \in Row /\ task[e].op \in Op
    BY <2>1 DEF PostsTypeOK, ChangeTask
  <2>3. Changed(task[e]) \in Row
    BY <2>2, NoRowType DEF Changed, Op, Row, Status
  <2> QED
    BY <1>0, <1>7, <2>3 DEF ApplyChange, EndTask, PostsTypeOK, Task
<1>8. ASSUME NEW e \in Editor, UpdateAdmins(e) PROVE PostsTypeOK'
  <2>1. task[e] \in ProfileTask
    BY <1>8, TaskShape DEF UpdateAdmins, PostsTypeOK
  <2> QED
    BY <1>0, <1>8, <2>1 DEF UpdateAdmins, PostsTypeOK, Task, ProfileTask
<1>9. ASSUME NEW e \in Editor, UpdateAuthors(e) PROVE PostsTypeOK'
  <2>1. task[e] \in ProfileTask
    BY <1>9, TaskShape DEF UpdateAuthors, PostsTypeOK
  <2>2. \A p \in Post : [post[p] EXCEPT !.author = task[e].nick] \in Row
    BY <2>1 DEF PostsTypeOK, ProfileTask, Row
  <2>3. post' \in [Post -> Row]
    BY <1>9, <2>2 DEF UpdateAuthors, PostsTypeOK
  <2> QED
    BY <1>0, <1>9, <2>3 DEF UpdateAuthors, EndTask, PostsTypeOK, Task
<1>10. CASE AccountStep
  BY <1>0, <1>10 DEF AccountStep, postVars, PostsTypeOK
<1>11. CASE RestartAll
  BY <1>0, <1>11 DEF RestartAll, PostsTypeOK, Task
<1>12. ASSUME NEW w \in Worker, DeleteAdminMovesPosts(w) PROVE PostsTypeOK'
  <2>1. \A p \in Post : Inherited(post[p]) \in Row
    BY MainAssumption DEF Inherited, PostsTypeOK, Row
  <2>2. post' \in [Post -> Row] /\ owners' \in [Post -> SUBSET AdminId]
    BY <1>12, <2>1, MainAssumption DEF DeleteAdminMovesPosts, PostsTypeOK
  <2> QED
    BY <1>0, <1>12, <2>2 DEF DeleteAdminMovesPosts, PostsTypeOK
<1>13. CASE UNCHANGED allVars
  BY <1>0, <1>13 DEF allVars, postVars, PostsTypeOK
<1> QED
  BY <1>1, <1>2, <1>3, <1>4, <1>5, <1>6, <1>7, <1>8, <1>9, <1>10, <1>11, <1>12, <1>13
     DEF PostsNext, ArticleStep

\* Every state of every behaviour is well typed.
THEOREM PostsTypeCorrect == PostsSpec => []PostsTypeOK
BY PostsTypeInit, PostsTypeStep, PTL DEF PostsSpec

-----------------------------------------------------------------------------
(***************************************************************************)
(* Nothing is erased from under its articles.  It takes the critical       *)
(* section: while deleteAdmin is between its statements, mtx_ lets no      *)
(* other statement that could change an owner run.                         *)
(***************************************************************************)
LEMMA ErasedInit == PostsInit => ErasedAdminOwnsNothing
BY DEF PostsInit, ErasedAdminOwnsNothing, Init, Idle

LEMMA ErasedStep ==
    ASSUME PostsTypeOK, ErasedAdminOwnsNothing, [PostsNext]_allVars
    PROVE  ErasedAdminOwnsNothing'
<1> USE DEF ErasedAdminOwnsNothing, Live
\* Steps that only read, or change nothing but their own task.
<1>1. ASSUME NEW e \in Editor,
             \/ AskNickname(e) \/ AskAuthor(e) \/ UpdateAdmins(e)
             \/ \E s \in sessions : \/ \E st \in Status : BeginCreate(e, s, st)
                                    \/ \E op \in Sent, p \in Post : BeginChange(e, s, op, p)
                                    \/ \E n \in Nick : BeginProfile(e, s, n)
      PROVE  ErasedAdminOwnsNothing'
  <2>1. UNCHANGED <<vars, post>> /\ (failed => failed')
    BY <1>1 DEF BeginCreate, BeginChange, BeginProfile, AskNickname, GetAdminNickname,
                AskAuthor, GetPostAuthor, UpdateAdmins
  <2> QED
    BY <2>1 DEF vars
\* Steps that need mtx_: nobody is at "erase", and nobody comes to be.
<1>2. ASSUME NEW e \in Editor, AddPost(e) \/ ApplyChange(e) PROVE ErasedAdminOwnsNothing'
  <2>1. AllDbFree /\ req' = req
    BY <1>2 DEF AddPost, ApplyChange, vars
  <2> QED
    BY <2>1 DEF AllDbFree, DbFree
<1>3. ASSUME NEW e \in Editor, UpdateAuthors(e) PROVE ErasedAdminOwnsNothing'
  <2>1. req' = req /\ (failed => failed')
    BY <1>3 DEF UpdateAuthors, vars
  <2>2. \A p \in Post : post'[p].state = post[p].state /\ post'[p].owner = post[p].owner
    <3> TAKE p \in Post
    <3>1. post[p] \in Row
      BY DEF PostsTypeOK
    <3>2. post'[p] = post[p] \/ post'[p] = [post[p] EXCEPT !.author = task[e].nick]
      BY <1>3 DEF UpdateAuthors
    <3> QED
      BY <3>1, <3>2 DEF Row
  <2> QED
    BY <2>1, <2>2
<1>4. CASE AccountStep
  <2> SUFFICES ASSUME NEW w \in Worker, req'[w].pc = "erase"
               PROVE  req[w] = req'[w]
    BY <1>4 DEF AccountStep, postVars
  <2>1. req \in [Worker -> Request]
    BY DEF PostsTypeOK, TypeOK
  <2>2. CASE SessionStep
    BY <2>1, <2>2 DEF SessionStep, DestroySession, CreateSession, DestroySessionsForAdmin,
         GetSession, IsMainAdmin, Finish, Idle
  <2>3. ASSUME NEW v \in Worker, NEW a \in AdminId, NEW p \in Password, LoginAdmin(v, a, p)
        PROVE  req[w] = req'[w]
    BY <2>1, <2>3 DEF LoginAdmin
  <2>4. ASSUME NEW v \in Worker, ChangePassword(v) PROVE req[w] = req'[w]
    <3>1. TypeOK /\ req[v].pc = "change" /\ req'[v].pc \in {"idle", "purge"}
      BY <2>4, ChangeRelabels DEF PostsTypeOK
    <3>2. w # v
      BY <3>1
    <3>3. Relabelled(req'[w], req[w]) /\ (req[w].pc # "mint" => req'[w] = req[w])
      BY <2>4, <3>1, <3>2, ChangeRelabels
    <3>4. CASE req[w].pc = "mint"
      <4>1. req[w] \in MintRequest
        BY <3>4, <2>1, RequestShape
      <4> QED
        BY <4>1, <3>3, RelabelKeeps
    <3> QED
      BY <3>3, <3>4
  <2>5. ASSUME NEW v \in Worker, InsertAdmin(v) \/ EraseAdmin(v) PROVE req[w] = req'[w]
    BY <2>1, <2>5 DEF InsertAdmin, EraseAdmin, Finish, Idle
  <2> QED
    BY <1>4, <2>2, <2>3, <2>4, <2>5 DEF AccountStep, DbStep
<1>5. CASE RestartAll
  BY <1>5 DEF RestartAll, Restart, Idle
<1>6. ASSUME NEW w \in Worker, DeleteAdminMovesPosts(w) PROVE ErasedAdminOwnsNothing'
  <2> SUFFICES ASSUME ~failed', NEW v \in Worker, req'[v].pc = "erase",
                      req'[v].target # Main, NEW p \in Post, post'[p].state = "live"
               PROVE  post'[p].owner # req'[v].target
    OBVIOUS
  <2>1. /\ DbFree /\ req[w].pc = "delete" /\ req' = [req EXCEPT ![w].pc = "erase"]
        /\ req \in [Worker -> Request] /\ post[p] \in Row
    BY <1>6 DEF DeleteAdminMovesPosts, ReassignPosts, PostsTypeOK, TypeOK
  <2>2. v = w
    BY <2>1 DEF DbFree
  <2>3. req'[w].target = req[w].target
    <3>1. req[w] \in DeleteRequest
      BY <2>1, RequestShape
    <3> QED
      BY <2>1, <3>1 DEF DeleteRequest
  <2>4. post'[p] = IF post[p].state = "live" /\ post[p].owner = req[w].target
                   THEN Inherited(post[p]) ELSE post[p]
    BY <1>6, <2>2, <2>3 DEF DeleteAdminMovesPosts
  <2>5. Inherited(post[p]).owner = Main
    BY <2>1 DEF Inherited, Row
  <2> QED
    BY <2>2, <2>3, <2>4, <2>5
<1>7. CASE UNCHANGED allVars
  BY <1>7 DEF allVars, vars, postVars
<1> QED
  BY <1>1, <1>2, <1>3, <1>4, <1>5, <1>6, <1>7 DEF PostsNext, ArticleStep

(***************************************************************************)
(* database.cpp:1939: when deleteAdmin's second statement runs, the        *)
(* account it deletes owns no article, as long as no statement failed      *)
(* whose result the code does not look at.                                 *)
(***************************************************************************)
THEOREM ErasureIsClean == PostsSpec => []ErasedAdminOwnsNothing
BY ErasedInit, ErasedStep, PostsTypeCorrect, PTL DEF PostsSpec

-----------------------------------------------------------------------------
(***************************************************************************)
(* Who changes an article as its owner owned it once.  The set of past     *)
(* owners only grows while the id is in use, and an id that was found is   *)
(* never unused again; the present owner is one of them.                   *)
(***************************************************************************)
OwnerIsRecorded == \A p \in Post : Live(p) => post[p].owner \in owners[p]

FoundIsUsed ==
    \A e \in Editor : task[e].pc = "apply" /\ task[e].found =>
        post[task[e].post].state # "unused"

Owned == OwnerIsRecorded /\ FoundIsUsed /\ WritersOwned

\* What a step does to the articles if it is not AddPost: none appears, none is forgotten.
ArticlesKept ==
    \A p \in Post :
        /\ post[p].state # "unused" => post'[p].state # "unused"
        /\ owners[p] \subseteq owners'[p]

LEMMA OwnedInit == PostsInit => Owned
BY DEF PostsInit, Owned, OwnerIsRecorded, FoundIsUsed, WritersOwned, NoRow, Live, Idle

\* Steps that leave every request that is about to write alone, but perhaps end it.
LEMMA OwnedKept ==
    ASSUME PostsTypeOK, Owned, ArticlesKept, OwnerIsRecorded',
           \A e \in Editor : task'[e] = task[e] \/ task'[e].pc # "apply"
    PROVE  Owned'
<1>1. \A e \in Editor : task'[e].pc = "apply" =>
        task'[e] = task[e] /\ task[e] \in ChangeTask
  BY TaskShape DEF PostsTypeOK
<1>2. FoundIsUsed' /\ WritersOwned'
  BY <1>1 DEF Owned, FoundIsUsed, WritersOwned, ArticlesKept, ChangeTask
<1> QED
  BY <1>2 DEF Owned

LEMMA OwnedStep == PostsTypeOK /\ Owned /\ [PostsNext]_allVars => Owned'
<1> SUFFICES ASSUME PostsTypeOK, Owned, [PostsNext]_allVars PROVE Owned'
  OBVIOUS
<1>0. OwnerIsRecorded
  BY DEF Owned
\* Steps that do not look at the articles.
<1>1. ASSUME UNCHANGED <<post, owners>>,
             \A e \in Editor : task'[e] = task[e] \/ task'[e].pc # "apply"
      PROVE  Owned'
  <2>1. ArticlesKept /\ OwnerIsRecorded'
    BY <1>0, <1>1 DEF ArticlesKept, OwnerIsRecorded, Live
  <2> QED
    BY <1>1, <2>1, OwnedKept
<1>2. ASSUME NEW e \in Editor,
             \/ AskNickname(e) \/ UpdateAdmins(e)
             \/ \E s \in sessions : \/ \E st \in Status : BeginCreate(e, s, st)
                                    \/ \E op \in Sent, p \in Post : BeginChange(e, s, op, p)
                                    \/ \E n \in Nick : BeginProfile(e, s, n)
      PROVE  Owned'
  <2>1. UNCHANGED <<post, owners>>
    BY <1>2 DEF BeginCreate, BeginChange, BeginProfile, AskNickname, GetAdminNickname,
                UpdateAdmins
  <2>2. CASE UpdateAdmins(e)
    <3>1. task[e] \in ProfileTask
      BY <2>2, TaskShape DEF UpdateAdmins, PostsTypeOK
    <3>2. task'[e].pc = "sync" /\ \A f \in Editor : f # e => task'[f] = task[f]
      BY <2>2, <3>1 DEF UpdateAdmins, PostsTypeOK, ProfileTask
    <3> QED
      BY <1>1, <2>1, <3>2
  <2>3. CASE ~UpdateAdmins(e)
    <3>1. task'[e].pc # "apply" /\ \A f \in Editor : f # e => task'[f] = task[f]
      BY <1>2, <2>3 DEF BeginCreate, BeginChange, BeginProfile, AskNickname,
                        GetAdminNickname, PostsTypeOK
    <3> QED
      BY <1>1, <2>1, <3>1
  <2> QED
    BY <2>2, <2>3
<1>3. ASSUME NEW e \in Editor, AddPost(e) PROVE Owned'
  <2>1. PICK p \in Post :
          /\ post[p].state = "unused"
          /\ post' = [post EXCEPT ![p] =
                        [state |-> "live", owner |-> task[e].adminId,
                         author |-> task[e].author, status |-> task[e].status,
                         hidden |-> FALSE]]
          /\ owners' = [owners EXCEPT ![p] = {task[e].adminId}]
    BY <1>3 DEF AddPost
  <2>2. OwnerIsRecorded'
    BY <1>0, <2>1 DEF OwnerIsRecorded, PostsTypeOK, Live
  <2>3. \A f \in Editor : task'[f].pc = "apply" => task'[f] = task[f] /\ task[f] \in ChangeTask
    BY <1>3, TaskShape DEF AddPost, EndTask, Idle, PostsTypeOK
  <2>4. ASSUME NEW f \in Editor, task'[f].pc = "apply", task'[f].found
        PROVE  /\ post'[task'[f].post].state # "unused"
               /\ task'[f].isMain \/ task'[f].adminId \in owners'[task'[f].post]
    <3>1. /\ task[f].post \in Post
          /\ post[task[f].post].state # "unused"
          /\ task[f].isMain \/ task[f].adminId \in owners[task[f].post]
      BY <2>3, <2>4 DEF Owned, FoundIsUsed, WritersOwned, ChangeTask
    <3>2. task[f].post # p
      BY <3>1, <2>1
    <3> QED
      BY <2>1, <2>3, <2>4, <3>1, <3>2 DEF PostsTypeOK
  <2> QED
    BY <2>2, <2>4 DEF Owned, FoundIsUsed, WritersOwned
<1>4. ASSUME NEW e \in Editor, AskAuthor(e) PROVE Owned'
  <2>1. UNCHANGED <<post, owners>>
    BY <1>4 DEF AskAuthor, GetPostAuthor
  <2>2. task[e] \in ChangeTask
    BY <1>4, TaskShape DEF AskAuthor, GetPostAuthor, PostsTypeOK
  <2>3. PICK found \in {Live(task[e].post), FALSE} :
          IF IF found THEN MayChange(task[e]) ELSE task[e].op = "delete"
          THEN task' = [task EXCEPT ![e].pc = "apply", ![e].found = found]
          ELSE EndTask(e)
    BY <1>4 DEF AskAuthor, GetPostAuthor
  <2>4. CASE EndTask(e)
    BY <1>1, <2>1, <2>4 DEF EndTask, Idle, PostsTypeOK
  <2>5. CASE /\ task' = [task EXCEPT ![e].pc = "apply", ![e].found = found]
             /\ found => MayChange(task[e])
    <3>1. /\ task'[e].post = task[e].post /\ task'[e].isMain = task[e].isMain
          /\ task'[e].adminId = task[e].adminId /\ (task'[e].found <=> found)
          /\ \A f \in Editor : f # e => task'[f] = task[f]
      BY <2>2, <2>5 DEF PostsTypeOK, ChangeTask
    <3>2. found => /\ post[task[e].post].state = "live"
                   /\ task[e].isMain \/ task[e].adminId \in owners[task[e].post]
      BY <1>0, <2>2, <2>3, <2>5 DEF OwnerIsRecorded, MayChange, Live, ChangeTask
    <3>3. FoundIsUsed' /\ WritersOwned'
      BY <2>1, <3>1, <3>2 DEF Owned, FoundIsUsed, WritersOwned
    <3> QED
      BY <1>0, <2>1, <3>3 DEF Owned, OwnerIsRecorded, Live
  <2> QED
    BY <2>3, <2>4, <2>5
<1>5. ASSUME NEW e \in Editor, ApplyChange(e) PROVE Owned'
  <2>1. task[e] \in ChangeTask
    BY <1>5, TaskShape DEF ApplyChange, PostsTypeOK
  <2>2. post[task[e].post] \in Row /\ task[e].op \in Op
    BY <2>1 DEF PostsTypeOK, ChangeTask
  <2>3. /\ Live(task[e].post) => Changed(task[e]).state # "unused"
        /\ Changed(task[e]).state = "live" => Changed(task[e]).owner = post[task[e].post].owner
    BY <2>2 DEF Changed, Op, Row, NoRow, Live
  <2>4. ArticlesKept /\ OwnerIsRecorded'
    BY <1>0, <1>5, <2>1, <2>3
       DEF ApplyChange, ArticlesKept, OwnerIsRecorded, Live, PostsTypeOK, ChangeTask
  <2> QED
    BY <1>5, <2>4, OwnedKept DEF ApplyChange, EndTask, Idle, PostsTypeOK
<1>6. ASSUME NEW e \in Editor, UpdateAuthors(e) PROVE Owned'
  <2>1. \A p \in Post : post'[p].state = post[p].state /\ post'[p].owner = post[p].owner
    <3> TAKE p \in Post
    <3>1. post[p] \in Row
      BY DEF PostsTypeOK
    <3>2. post'[p] = post[p] \/ post'[p] = [post[p] EXCEPT !.author = task[e].nick]
      BY <1>6 DEF UpdateAuthors
    <3> QED
      BY <3>1, <3>2 DEF Row
  <2>2. ArticlesKept /\ OwnerIsRecorded'
    BY <1>0, <1>6, <2>1 DEF UpdateAuthors, ArticlesKept, OwnerIsRecorded, Live
  <2> QED
    BY <1>6, <2>2, OwnedKept DEF UpdateAuthors, EndTask, Idle, PostsTypeOK
<1>7. ASSUME NEW w \in Worker, DeleteAdminMovesPosts(w) PROVE Owned'
  <2>1. task' = task
    BY <1>7 DEF DeleteAdminMovesPosts
  <2>2. ASSUME NEW p \in Post
        PROVE  /\ post'[p].state = post[p].state /\ owners[p] \subseteq owners'[p]
               /\ Live(p) => post'[p].owner \in owners'[p]
    <3>1. post[p] \in Row /\ (Live(p) => post[p].owner \in owners[p])
      BY <1>0 DEF PostsTypeOK, OwnerIsRecorded
    <3>2. \/ post'[p] = post[p] /\ owners'[p] = owners[p]
          \/ post'[p] = Inherited(post[p]) /\ owners'[p] = owners[p] \cup {Main}
      BY <1>7 DEF DeleteAdminMovesPosts, PostsTypeOK
    <3> QED
      BY <3>1, <3>2 DEF Inherited, Row
  <2>3. ArticlesKept /\ OwnerIsRecorded'
    BY <2>2 DEF ArticlesKept, OwnerIsRecorded, Live
  <2> QED
    BY <2>1, <2>3, OwnedKept
<1>8. CASE AccountStep \/ UNCHANGED allVars
  BY <1>1, <1>8 DEF AccountStep, postVars, allVars
<1>9. CASE RestartAll
  BY <1>1, <1>9 DEF RestartAll, Idle
<1> QED
  BY <1>2, <1>3, <1>4, <1>5, <1>6, <1>7, <1>8, <1>9 DEF PostsNext, ArticleStep

(***************************************************************************)
(* Although the check and the write are two critical sections: whoever is  *)
(* about to change an article that was found, and is not the main          *)
(* administrator, has owned it.                                            *)
(***************************************************************************)
THEOREM WhoWritesHasOwned == PostsSpec => []WritersOwned
<1>1. Owned => WritersOwned
  BY DEF Owned
<1> QED
  BY <1>1, OwnedInit, OwnedStep, PostsTypeCorrect, PTL DEF PostsSpec

-----------------------------------------------------------------------------
(***************************************************************************)
(* Articles of existing accounts are signed.  An account that is gone does *)
(* not come back: whoever has a session, or an article, or an article      *)
(* request, has or had an account; so a request that found no nickname     *)
(* writes for an account that stays gone.                                  *)
(***************************************************************************)
Known(a) == account[a] # "unused"

Logged ==
    /\ Known(Main)
    /\ \A s \in sessions : Known(s.adminId)
    /\ \A w \in Worker : req[w].pc = "mint" => Known(req[w].adminId)

Signed ==
    /\ \A e \in Editor : task[e].pc \in {"nick", "insert"} => Known(task[e].adminId)
    /\ \A p \in Post : Live(p) => Known(post[p].owner)
    /\ \A e \in Editor : task[e].pc = "insert" /\ account[task[e].adminId] = "active" =>
                           failed \/ task[e].author \in Nick
    /\ NamedAuthor

\* Rows of admins come and go once.
LEMMA AccountsAge ==
    ASSUME TypeOK, [Next]_vars, NEW a \in AdminId
    PROVE  /\ Known(a) => Known(a)'
           /\ Known(a) /\ account'[a] = "active" => account[a] = "active"
<1> USE DEF Known, TypeOK
<1>1. ASSUME NEW w \in Worker, InsertAdmin(w) \/ EraseAdmin(w)
      PROVE  /\ Known(a) => Known(a)'
             /\ Known(a) /\ account'[a] = "active" => account[a] = "active"
  BY <1>1 DEF InsertAdmin, EraseAdmin
<1>2. CASE account' = account
  BY <1>2
<1>3. account' = account \/ \E w \in Worker : InsertAdmin(w) \/ EraseAdmin(w)
  BY DEF Next, vars, SessionStep, DbStep, DestroySession, CreateSession, LoginAdmin,
         DestroySessionsForAdmin, GetSession, IsMainAdmin, ChangePassword, ReassignPosts, Restart
<1> QED
  BY <1>1, <1>2, <1>3

LEMMA LoggedStep == TypeOK /\ Logged /\ [Next]_vars => Logged'
<1> SUFFICES ASSUME TypeOK, Logged, [Next]_vars PROVE Logged'
  OBVIOUS
<1>0. \A a \in AdminId : Known(a) => Known(a)'
  BY AccountsAge
\* Nobody is let in anew.
<1>1. ASSUME \A s \in sessions' : \E r \in sessions : s.adminId = r.adminId,
             \A w \in Worker : req'[w].pc = "mint" =>
                 req[w].pc = "mint" /\ req'[w].adminId = req[w].adminId
      PROVE  Logged'
  <2>1. \A s \in sessions : s.adminId \in AdminId
    BY DEF TypeOK, Session
  <2>2. \A w \in Worker : req[w].pc = "mint" => req[w].adminId \in AdminId
    BY RequestShape DEF TypeOK, MintRequest
  <2> QED
    BY <1>0, <1>1, <2>1, <2>2, MainAssumption DEF Logged, Known
<1>2. ASSUME NEW w \in Worker, NEW t \in Token, CreateSession(w, t) PROVE Logged'
  <2>1. account' = account /\ req' = [req EXCEPT ![w] = Idle] /\ req[w].pc = "mint"
    BY <1>2 DEF CreateSession, Finish
  <2>2. \A s \in sessions' : s \in sessions \/ s.adminId = req[w].adminId
    BY <1>2 DEF CreateSession
  <2> QED
    BY <2>1, <2>2 DEF Logged, Known, TypeOK, Idle
<1>3. ASSUME NEW w \in Worker, NEW a \in AdminId, NEW p \in Password, LoginAdmin(w, a, p)
      PROVE  Logged'
  BY <1>3 DEF LoginAdmin, Logged, Known, TypeOK
<1>4. ASSUME NEW w \in Worker, ChangePassword(w) PROVE Logged'
  <2>1. \A s \in sessions' : \E r \in sessions : s.adminId = r.adminId
    <3> TAKE s \in sessions'
    <3>1. PICK r \in sessions : Relabelled(s, r)
      BY <1>4, ChangeRelabels
    <3>2. r \in Session
      BY DEF TypeOK
    <3> QED
      BY <3>1, <3>2, RelabelKeeps
  <2>2. \A v \in Worker : req'[v].pc = "mint" =>
          req[v].pc = "mint" /\ req'[v].adminId = req[v].adminId
    BY <1>4, ChangeLogins
  <2> QED
    BY <1>1, <2>1, <2>2
<1>5. ASSUME NEW t \in Token, DestroySession(t) PROVE Logged'
  BY <1>1, <1>5 DEF DestroySession
<1>6. ASSUME NEW w \in Worker,
             \/ DestroySessionsForAdmin(w)
             \/ InsertAdmin(w) \/ EraseAdmin(w)
             \/ \E s \in sessions : \/ \E old, new \in Password : GetSession(w, s, old, new)
                                    \/ IsMainAdmin(w, s)
      PROVE  Logged'
  <2>1. \A s \in sessions' : \E r \in sessions : s.adminId = r.adminId
    BY <1>6 DEF DestroySessionsForAdmin, InsertAdmin, EraseAdmin, GetSession, IsMainAdmin
  <2>2. \A v \in Worker : req'[v].pc = "mint" => req'[v] = req[v]
    BY <1>6 DEF DestroySessionsForAdmin, InsertAdmin, EraseAdmin, GetSession, IsMainAdmin,
                Finish, Idle, TypeOK
  <2> QED
    BY <1>1, <2>1, <2>2
<1>7. ASSUME NEW w \in Worker, ReassignPosts(w) PROVE Logged'
  <2>1. req[w] \in DeleteRequest
    BY <1>7, RequestShape DEF ReassignPosts, TypeOK
  <2> QED
    BY <1>1, <1>7, <2>1 DEF ReassignPosts, TypeOK, DeleteRequest
<1>8. CASE Restart
  BY <1>8 DEF Restart, Logged, Known, Idle
<1>9. CASE UNCHANGED vars
  BY <1>1, <1>9 DEF vars
<1> QED
  BY <1>2, <1>3, <1>4, <1>5, <1>6, <1>7, <1>8, <1>9 DEF Next, SessionStep, DbStep

LEMMA SignedInit == PostsInit => Logged /\ Signed
<1> SUFFICES ASSUME PostsInit PROVE Logged /\ Signed
  OBVIOUS
<1>1. /\ sessions = {} /\ \A w \in Worker : req[w].pc = "idle"
      /\ \A e \in Editor : task[e].pc = "idle"
      /\ \A p \in Post : ~Live(p)
  BY DEF PostsInit, Init, NoRow, Live, Idle
<1>2. Logged
  BY <1>1, MainAssumption DEF PostsInit, Init, Logged, Known
<1>3. Signed
  BY <1>1 DEF Signed, NamedAuthor
<1> QED
  BY <1>2, <1>3

\* A step that changes neither an article nor a request to write one.
LEMMA SignedKept ==
    ASSUME PostsTypeOK, Signed, [Next]_vars, failed => failed',
           \A p \in Post : Live(p)' => /\ Live(p) /\ post'[p].owner = post[p].owner
                                       /\ post'[p].author = post[p].author
                                          \/ post'[p].author \in Nick,
           \A e \in Editor : task'[e].pc \in {"nick", "insert"} => task'[e] = task[e]
    PROVE  Signed'
<1>1. \A p \in Post : Live(p) => post[p].owner \in AdminId
  BY DEF PostsTypeOK, Row
<1>2. \A e \in Editor : task[e].pc \in {"nick", "insert"} => task[e].adminId \in AdminId
  BY TaskShape DEF PostsTypeOK, CreateTask, InsertTask
<1>3. \A a \in AdminId : /\ Known(a) => Known(a)'
                         /\ Known(a) /\ account'[a] = "active" => account[a] = "active"
  BY AccountsAge DEF PostsTypeOK
<1>4. \A e \in Editor : task'[e].pc \in {"nick", "insert"} =>
        account'[task'[e].adminId] # "unused"
  BY <1>2, <1>3 DEF Signed, Known
<1>5. \A p \in Post : Live(p)' => account'[post'[p].owner] # "unused"
  BY <1>1, <1>3 DEF Signed, Known
<1>6. ASSUME NEW e \in Editor, task'[e].pc = "insert", account'[task'[e].adminId] = "active"
      PROVE  failed' \/ task'[e].author \in Nick
  <2>1. task'[e] = task[e] /\ task[e].pc = "insert"
    BY <1>6
  <2>2. account[task[e].adminId] = "active"
    BY <1>2, <1>3, <1>6, <2>1 DEF Signed
  <2>3. failed \/ task[e].author \in Nick
    BY <2>1, <2>2 DEF Signed
  <2> QED
    BY <2>1, <2>3
<1>7. NamedAuthor'
  <2> SUFFICES ASSUME ~failed', NEW p \in Post, Live(p)', account'[post'[p].owner] = "active"
               PROVE  post'[p].author \in Nick
    BY DEF NamedAuthor
  <2>1. Live(p) /\ post'[p].owner = post[p].owner
    OBVIOUS
  <2>2. account[post[p].owner] = "active"
    BY <1>1, <1>3, <2>1 DEF Signed
  <2>3. ~failed => post[p].author \in Nick
    BY <2>1, <2>2 DEF Signed, NamedAuthor
  <2>4. ~failed
    OBVIOUS
  <2> QED
    BY <2>3, <2>4
<1> QED
  BY <1>4, <1>5, <1>6, <1>7 DEF Signed, Known

LEMMA SignedStep ==
    ASSUME PostsTypeOK, Logged, Signed, [PostsNext]_allVars
    PROVE  Signed'
<1>0. [Next]_vars
  BY StepIsAccountStep
\* Steps on other tasks than those that create articles.
<1>1. ASSUME NEW e \in Editor,
             \/ AskAuthor(e) \/ UpdateAdmins(e)
             \/ \E s \in sessions : \/ \E op \in Sent, p \in Post : BeginChange(e, s, op, p)
                                    \/ \E n \in Nick : BeginProfile(e, s, n)
      PROVE  Signed'
  <2>1. post' = post /\ (failed => failed')
    BY <1>1 DEF BeginChange, BeginProfile, AskAuthor, GetPostAuthor, UpdateAdmins
  <2>2. \A f \in Editor : task'[f].pc \in {"nick", "insert"} => task'[f] = task[f]
    <3>1. CASE AskAuthor(e)
      <4>1. task[e] \in ChangeTask
        BY <3>1, TaskShape DEF AskAuthor, GetPostAuthor, PostsTypeOK
      <4>2. task'[e].pc \in {"apply", "idle"} /\ \A f \in Editor : f # e => task'[f] = task[f]
        BY <3>1, <4>1 DEF AskAuthor, GetPostAuthor, EndTask, Idle, PostsTypeOK, ChangeTask
      <4> QED
        BY <4>2
    <3>2. CASE UpdateAdmins(e)
      <4>1. task[e] \in ProfileTask
        BY <3>2, TaskShape DEF UpdateAdmins, PostsTypeOK
      <4>2. task'[e].pc = "sync" /\ \A f \in Editor : f # e => task'[f] = task[f]
        BY <3>2, <4>1 DEF UpdateAdmins, PostsTypeOK, ProfileTask
      <4> QED
        BY <4>2
    <3> QED
      BY <1>1, <3>1, <3>2 DEF BeginChange, BeginProfile, PostsTypeOK
  <2> QED
    BY <1>0, <2>1, <2>2, SignedKept DEF Live
<1>2. ASSUME NEW e \in Editor, NEW s \in sessions, NEW st \in Status, BeginCreate(e, s, st)
      PROVE  Signed'
  <2>1. /\ UNCHANGED <<account, post, failed>>
        /\ task' = [task EXCEPT ![e] = [pc |-> "nick", adminId |-> s.adminId, status |-> st]]
    BY <1>2 DEF BeginCreate, vars
  <2>2. Known(s.adminId)
    BY DEF Logged
  <2>3. task'[e].pc = "nick" /\ task'[e].adminId = s.adminId
        /\ \A f \in Editor : f # e => task'[f] = task[f]
    BY <2>1 DEF PostsTypeOK
  <2> QED
    BY <2>1, <2>2, <2>3 DEF Signed, NamedAuthor, Known, Live
<1>3. ASSUME NEW e \in Editor, AskNickname(e) PROVE Signed'
  <2>1. task[e] \in CreateTask /\ task[e].pc = "nick"
    BY <1>3, TaskShape DEF AskNickname, GetAdminNickname, PostsTypeOK
  <2>2. PICK name : /\ task' = [task EXCEPT ![e] =
                                  [pc |-> "insert", adminId |-> task[e].adminId,
                                   status |-> task[e].status, author |-> name]]
                    /\ \/ name = NameOf(task[e].adminId) /\ UNCHANGED failed
                       \/ failed' = TRUE
    BY <1>3 DEF AskNickname, GetAdminNickname
  <2>3. UNCHANGED <<account, post>> /\ (failed => failed')
    BY <1>3 DEF AskNickname, GetAdminNickname, vars
  <2>4. /\ task'[e].pc = "insert" /\ task'[e].adminId = task[e].adminId
        /\ task'[e].author = name /\ \A f \in Editor : f # e => task'[f] = task[f]
    BY <2>2 DEF PostsTypeOK
  <2>5. Known(task[e].adminId)
    BY <2>1 DEF Signed
  <2>6. account[task[e].adminId] = "active" => failed' \/ name \in Nick
    BY <2>1, <2>2 DEF NameOf, PostsTypeOK, CreateTask
  <2>7. \A f \in Editor : task'[f].pc = "insert" /\ account'[task'[f].adminId] = "active" =>
                            failed' \/ task'[f].author \in Nick
    BY <2>3, <2>4, <2>6 DEF Signed
  <2>8. \A f \in Editor : task'[f].pc \in {"nick", "insert"} => account'[task'[f].adminId] # "unused"
    BY <2>3, <2>4, <2>5 DEF Signed, Known
  <2>9. NamedAuthor' /\ \A p \in Post : Live(p)' => account'[post'[p].owner] # "unused"
    BY <2>3 DEF Signed, NamedAuthor, Live, Known
  <2> QED
    BY <2>7, <2>8, <2>9 DEF Signed, Known
<1>4. ASSUME NEW e \in Editor, AddPost(e) PROVE Signed'
  <2>1. task[e] \in InsertTask /\ task[e].pc = "insert" /\ UNCHANGED <<account, failed>>
    BY <1>4, TaskShape DEF AddPost, PostsTypeOK, vars
  <2>2. PICK p \in Post :
          post' = [post EXCEPT ![p] =
                     [state |-> "live", owner |-> task[e].adminId, author |-> task[e].author,
                      status |-> task[e].status, hidden |-> FALSE]]
    BY <1>4 DEF AddPost
  <2>3. /\ post'[p].owner = task[e].adminId /\ post'[p].author = task[e].author
        /\ \A q \in Post : q # p => post'[q] = post[q]
    BY <2>2 DEF PostsTypeOK
  <2>4. \A f \in Editor : task'[f].pc \in {"nick", "insert"} => task'[f] = task[f]
    BY <1>4 DEF AddPost, EndTask, Idle, PostsTypeOK
  <2>5. /\ Known(task[e].adminId)
        /\ account[task[e].adminId] = "active" => failed \/ task[e].author \in Nick
    BY <2>1 DEF Signed
  <2>6. NamedAuthor'
    <3> SUFFICES ASSUME ~failed, NEW q \in Post, Live(q)', account[post'[q].owner] = "active"
                 PROVE  post'[q].author \in Nick
      BY <2>1 DEF NamedAuthor
    <3>1. CASE q = p
      BY <2>3, <2>5, <3>1
    <3>2. CASE q # p
      BY <2>3, <3>2 DEF Signed, NamedAuthor, Live
    <3> QED
      BY <3>1, <3>2
  <2>7. \A q \in Post : Live(q)' => account'[post'[q].owner] # "unused"
    BY <2>1, <2>3, <2>5 DEF Signed, Live, Known
  <2>8. \A f \in Editor : task'[f].pc \in {"nick", "insert"} => account'[task'[f].adminId] # "unused"
    BY <2>1, <2>4 DEF Signed, Known
  <2>9. \A f \in Editor : task'[f].pc = "insert" /\ account'[task'[f].adminId] = "active" =>
                            failed' \/ task'[f].author \in Nick
    BY <2>1, <2>4 DEF Signed
  <2> QED
    BY <2>6, <2>7, <2>8, <2>9 DEF Signed, Known
<1>5. ASSUME NEW e \in Editor, ApplyChange(e) PROVE Signed'
  <2>1. task[e] \in ChangeTask
    BY <1>5, TaskShape DEF ApplyChange, PostsTypeOK
  <2>2. post[task[e].post] \in Row /\ task[e].op \in Op /\ task[e].post \in Post
    BY <2>1 DEF PostsTypeOK, ChangeTask
  <2>3. Changed(task[e]).state = "live" =>
          /\ Changed(task[e]).owner = post[task[e].post].owner
          /\ Changed(task[e]).author = post[task[e].post].author
    BY <2>2 DEF Changed, Op, Row, NoRow
  <2>4. \A p \in Post : Live(p)' => /\ Live(p) /\ post'[p].owner = post[p].owner
                                    /\ post'[p].author = post[p].author
    BY <1>5, <2>2, <2>3 DEF ApplyChange, Live, PostsTypeOK
  <2>5. \A f \in Editor : task'[f].pc \in {"nick", "insert"} => task'[f] = task[f]
    BY <1>5 DEF ApplyChange, EndTask, Idle, PostsTypeOK
  <2>6. failed => failed'
    BY <1>5 DEF ApplyChange
  <2> QED
    BY <1>0, <2>4, <2>5, <2>6, SignedKept
<1>6. ASSUME NEW e \in Editor, UpdateAuthors(e) PROVE Signed'
  <2>1. task[e] \in ProfileTask
    BY <1>6, TaskShape DEF UpdateAuthors, PostsTypeOK
  <2>2. \A p \in Post : Live(p)' => /\ Live(p) /\ post'[p].owner = post[p].owner
                                    /\ post'[p].author = post[p].author
                                       \/ post'[p].author \in Nick
    <3> TAKE p \in Post
    <3>1. post[p] \in Row /\ task[e].nick \in Nick
      BY <2>1 DEF PostsTypeOK, ProfileTask
    <3>2. post'[p] = post[p] \/ post'[p] = [post[p] EXCEPT !.author = task[e].nick]
      BY <1>6 DEF UpdateAuthors
    <3> QED
      BY <3>1, <3>2 DEF Row, Live
  <2>3. \A f \in Editor : task'[f].pc \in {"nick", "insert"} => task'[f] = task[f]
    BY <1>6 DEF UpdateAuthors, EndTask, Idle, PostsTypeOK
  <2>4. failed => failed'
    BY <1>6 DEF UpdateAuthors
  <2> QED
    BY <1>0, <2>2, <2>3, <2>4, SignedKept
<1>7. ASSUME NEW w \in Worker, DeleteAdminMovesPosts(w) PROVE Signed'
  <2>1. UNCHANGED <<account, task>> /\ (failed => failed')
    BY <1>7 DEF DeleteAdminMovesPosts, ReassignPosts
  <2>2. ASSUME NEW p \in Post, Live(p)'
        PROVE  /\ Live(p)
               /\ \/ post'[p] = post[p]
                  \/ post'[p].owner = Main /\ post'[p].author \in Nick
    <3>1. post[p] \in Row /\ nick[Main] \in Nick
      BY MainAssumption DEF PostsTypeOK
    <3>2. post'[p] = post[p] \/ (Live(p) /\ post'[p] = Inherited(post[p]))
      BY <1>7 DEF DeleteAdminMovesPosts
    <3> QED
      BY <2>2, <3>1, <3>2 DEF Inherited, Row, Live
  <2>3. NamedAuthor'
    BY <2>1, <2>2 DEF Signed, NamedAuthor
  <2>4. \A p \in Post : Live(p)' => account'[post'[p].owner] # "unused"
    BY <2>1, <2>2 DEF Signed, Logged, Known
  <2> QED
    BY <2>1, <2>3, <2>4 DEF Signed, Known
<1>8. CASE AccountStep \/ UNCHANGED allVars
  <2>1. UNCHANGED postVars
    BY <1>8 DEF AccountStep, allVars
  <2> QED
    BY <1>0, <2>1, SignedKept DEF postVars, Live
<1>9. CASE RestartAll
  BY <1>0, <1>9, SignedKept DEF RestartAll, Idle, Live
<1> QED
  BY <1>1, <1>2, <1>3, <1>4, <1>5, <1>6, <1>7, <1>8, <1>9 DEF PostsNext, ArticleStep

(***************************************************************************)
(* An article whose owner has an account bears a nickname, as long as no   *)
(* statement failed whose result the code does not look at.                *)
(***************************************************************************)
THEOREM AuthorsAreNamed == PostsSpec => []NamedAuthor
<1>1. PostsTypeOK /\ Logged /\ Signed /\ [PostsNext]_allVars => (Logged /\ Signed)'
  BY LoggedStep, SignedStep, StepIsAccountStep DEF PostsTypeOK
<1>2. Signed => NamedAuthor
  BY DEF Signed
<1> QED
  BY <1>1, <1>2, SignedInit, PostsTypeCorrect, PTL DEF PostsSpec

=============================================================================
