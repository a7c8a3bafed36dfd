---------------------------- MODULE SessionsProofs ----------------------------
(***************************************************************************)
(* Theorems about Sessions, for any accounts, requests, e-mails and        *)
(* changes: its types, the uniqueness of e-mails, that it implements       *)
(* RefreshTokens, and from a second invariant what races between requests  *)
(* cannot do to sessions and to decisions on accounts.                     *)
(***************************************************************************)
EXTENDS Sessions, TLAPS

\* What a request holds at each of its awaits.
HandlerInv ==
    \A r \in Request :
        /\ pc[r] \in InFlight \cup {"done"} => mem[r] \in Memory
        /\ pc[r] \in InFlight \ {"insert"} => account[mem[r].user] # None
        /\ pc[r] = "insert" => mem[r].user = r
        /\ pc[r] \in {"insert", "lookup", "drop", "discard", "issue"} => mem[r].op \in Issuing
        /\ pc[r] \in {"save", "softRemove"} => mem[r].op \notin Issuing

\* A session's token was inserted, for an account, and for no other.
SessionInv ==
    \A u \in User :
        session[u] # None =>
            /\ session[u] \in Created
            /\ account[u] # None
            /\ \A v \in User : session[v] = session[u] => v = u

IInv == TypeOK /\ HandlerInv /\ SessionInv

\* Object.assign of a permitted change leaves a row of the users table.
LEMMA AssignedIsRow ==
    ASSUME NEW row \in Row, NEW c \in Change
    PROVE  Assigned(row, c) \in Row
BY SessionsAssumption DEF Assigned, Row

\* Everything starts with the seeded accounts, each with a token of its own.
LEMMA InitIInv == Init => IInv
<1> SUFFICES ASSUME Init PROVE IInv
    OBVIOUS
<1>1. TypeOK
    BY SessionsAssumption DEF Init, TypeOK, User, Token, GenerateAccessToken, Row
<1>2. HandlerInv
    BY DEF Init, HandlerInv, InFlight
<1>3. \A u \in User : session[u] # None => u \in Seeded /\ session[u] = u
    BY DEF Init
<1>4. \A u \in Seeded : account[u] \in Row
    BY SessionsAssumption DEF Init, User
<1>5. SessionInv
    BY <1>3, <1>4, SessionsAssumption DEF SessionInv, Created
<1> QED
    BY <1>1, <1>2, <1>5 DEF IInv

-----------------------------------------------------------------------------
\* Requests that only read: they keep what they found and go on.
Reading(r) ==
    \/ RegisterCheck(r) \/ Login(r) \/ FindOldToken(r) \/ Refresh(r)
    \/ UpdateRole(r) \/ UpdateProfile(r) \/ AssignUserToBranch(r) \/ RemoveLoad(r)

\* A step that reads changes no table, and keeps a user, a row and an operation
\* that fit the await it goes to.
LEMMA ReadingKeeps ==
    ASSUME IInv, NEW r \in Request, Reading(r)
    PROVE  /\ UNCHANGED <<account, session, expired, badges, stale>>
           /\ pc[r] \in {"new", "lookup"}
           /\ \E l \in (InFlight \cup Ended) \ {"done"} : pc' = [pc EXCEPT ![r] = l]
           /\ \E m \in Memory \cup {None} : mem' = [mem EXCEPT ![r] = m]
           /\ pc'[r] \in InFlight =>
                /\ mem'[r] \in Memory
                /\ pc'[r] # "insert" => account[mem'[r].user] # None
                /\ pc'[r] = "insert" => mem'[r].user = r
                /\ pc'[r] \in {"insert", "lookup", "drop", "discard", "issue"} => mem'[r].op \in Issuing
                /\ pc'[r] \in {"save", "softRemove"} => mem'[r].op \notin Issuing
<1> USE DEF Goto, InFlight, Ended
<1>t. TypeOK /\ HandlerInv /\ SessionInv
    BY DEF IInv
<1>u. \A u \in User : account[u] # None => account[u] \in Row
    BY <1>t DEF TypeOK
<1>1. CASE RegisterCheck(r)
    <2>1. PICK e \in Email :
             /\ Keep(r, "register", r, [email |-> e, role |-> "cashier", removed |-> FALSE], None)
             /\ Goto(r, IF \E u \in User : Found(u) /\ account[u].email = e
                        THEN "rejected" ELSE "insert")
        BY <1>1 DEF RegisterCheck
    <2>2. [op |-> "register", user |-> r,
           row |-> [email |-> e, role |-> "cashier", removed |-> FALSE], old |-> None] \in Memory
        BY DEF Memory, Op, Row, Role, User
    <2> QED
        BY <1>1, <1>t, <2>1, <2>2 DEF RegisterCheck, Keep, TypeOK, Issuing
<1>2. CASE Login(r)
    <2>1. PICK u \in User, valid \in BOOLEAN :
             /\ account[u] # None
             /\ Keep(r, "login", u, account[u], None)
             /\ Goto(r, IF Found(u) /\ valid THEN "lookup" ELSE "rejected")
        BY <1>2 DEF Login
    <2>2. [op |-> "login", user |-> u, row |-> account[u], old |-> None] \in Memory
        BY <2>1, <1>u DEF Memory, Op
    <2> QED
        BY <1>2, <1>t, <2>1, <2>2 DEF Login, Keep, TypeOK, Issuing
<1>3. CASE FindOldToken(r)
    <2>1. mem[r] \in Memory /\ mem[r].op \in Issuing /\ account[mem[r].user] # None
        BY <1>3, <1>t DEF FindOldToken, HandlerInv
    <2> DEFINE old == IF Found(mem[r].user) THEN session[mem[r].user] ELSE None
    <2>2. mem[r].user \in User /\ old \in Token \cup {None}
        BY <2>1, <1>t DEF Memory, TypeOK
    <2>3. /\ [mem[r] EXCEPT !.old = old] \in Memory
          /\ [mem[r] EXCEPT !.old = old].op = mem[r].op
          /\ [mem[r] EXCEPT !.old = old].user = mem[r].user
        BY <2>1, <2>2 DEF Memory
    <2>4. mem' = [mem EXCEPT ![r] = [mem[r] EXCEPT !.old = old]]
        BY <1>3, <1>t DEF FindOldToken, TypeOK
    <2> QED
        BY <1>3, <1>t, <2>1, <2>3, <2>4 DEF FindOldToken, TypeOK
<1>4. CASE Refresh(r)
    <2>1. PICK t \in Created :
             \/ /\ \A u \in User : session[u] # t
                /\ Goto(r, "rejected")
                /\ UNCHANGED mem
             \/ \E u \in User :
                   /\ session[u] = t
                   /\ Keep(r, "refresh", u, account[u], t)
                   /\ Goto(r, Outcome(t, u))
        BY <1>4 DEF Refresh
    <2>2. t # None /\ t \in Token
        BY SessionsAssumption DEF Created, Token
    <2>3. CASE Goto(r, "rejected") /\ UNCHANGED mem
        <3>1. mem' = [mem EXCEPT ![r] = mem[r]] /\ mem[r] \in Memory \cup {None}
            BY <2>3, <1>t DEF TypeOK
        <3> QED
            BY <1>4, <1>t, <2>3, <3>1 DEF Refresh, TypeOK
    <2>4. CASE \E u \in User :
                   /\ session[u] = t
                   /\ Keep(r, "refresh", u, account[u], t)
                   /\ Goto(r, Outcome(t, u))
        <3>1. PICK u \in User :
                   /\ session[u] = t
                   /\ Keep(r, "refresh", u, account[u], t)
                   /\ Goto(r, Outcome(t, u))
            BY <2>4
        <3>2. account[u] # None
            BY <3>1, <2>2, <1>t DEF SessionInv
        <3>3. [op |-> "refresh", user |-> u, row |-> account[u], old |-> t] \in Memory
            BY <3>2, <2>2, <1>u DEF Memory, Op
        <3>4. Outcome(t, u) \in {"discard", "drop", "failed"}
            BY DEF Outcome
        <3> QED
            BY <1>4, <1>t, <3>1, <3>2, <3>3, <3>4 DEF Refresh, Keep, TypeOK, Issuing
    <2> QED
        BY <2>1, <2>3, <2>4
<1>5. CASE UpdateRole(r)
    <2>1. PICK u \in User, c \in Change :
             /\ Found(u)
             /\ Keep(r, "role", u, Assigned(account[u], c), None)
             /\ Goto(r, "save")
        BY <1>5 DEF UpdateRole
    <2>2. account[u] # None
        BY <2>1 DEF Found
    <2>3. [op |-> "role", user |-> u, row |-> Assigned(account[u], c), old |-> None] \in Memory
        BY <2>2, <1>u, AssignedIsRow DEF Memory, Op
    <2> QED
        BY <1>5, <1>t, <2>1, <2>2, <2>3 DEF UpdateRole, Keep, TypeOK, Issuing
<1>6. CASE UpdateProfile(r)
    <2>1. PICK b \in badges, c \in Change :
             /\ Found(b.user)
             /\ Keep(r, "profile", b.user, Assigned(account[b.user], c), None)
             /\ Goto(r, IF c.role = None THEN "save" ELSE "rejected")
        BY <1>6 DEF UpdateProfile
    <2>2. account[b.user] # None /\ b.user \in User
        BY <2>1, <1>t DEF Found, TypeOK
    <2>3. [op |-> "profile", user |-> b.user, row |-> Assigned(account[b.user], c), old |-> None]
             \in Memory
        BY <2>2, <1>u, AssignedIsRow DEF Memory, Op
    <2> QED
        BY <1>6, <1>t, <2>1, <2>2, <2>3 DEF UpdateProfile, Keep, TypeOK, Issuing
<1>7. CASE AssignUserToBranch(r)
    <2>1. PICK u \in User, role \in {"manager", "cashier"} :
             /\ Found(u)
             /\ Keep(r, "assign", u, account[u], None)
             /\ Goto(r, IF account[u].role = role THEN "save" ELSE "rejected")
        BY <1>7 DEF AssignUserToBranch
    <2>2. account[u] # None
        BY <2>1 DEF Found
    <2>3. [op |-> "assign", user |-> u, row |-> account[u], old |-> None] \in Memory
        BY <2>2, <1>u DEF Memory, Op
    <2> QED
        BY <1>7, <1>t, <2>1, <2>2, <2>3 DEF AssignUserToBranch, Keep, TypeOK, Issuing
<1>8. CASE RemoveLoad(r)
    <2>1. PICK u \in User :
             /\ Found(u)
             /\ Keep(r, "remove", u, account[u], None)
             /\ Goto(r, "softRemove")
        BY <1>8 DEF RemoveLoad
    <2>2. account[u] # None
        BY <2>1 DEF Found
    <2>3. [op |-> "remove", user |-> u, row |-> account[u], old |-> None] \in Memory
        BY <2>2, <1>u DEF Memory, Op
    <2> QED
        BY <1>8, <1>t, <2>1, <2>2, <2>3 DEF RemoveLoad, Keep, TypeOK, Issuing
<1> QED
    BY <1>1, <1>2, <1>3, <1>4, <1>5, <1>6, <1>7, <1>8 DEF Reading
-----------------------------------------------------------------------------
\* The steps that end a login, a refresh or a registration, and those that write.
LEMMA TypeStep == IInv /\ [Next]_vars => TypeOK'
<1> SUFFICES ASSUME IInv, [Next]_vars PROVE TypeOK'
    OBVIOUS
<1> USE DEF Goto, InFlight, Ended
<1>t. TypeOK /\ HandlerInv
    BY DEF IInv
<1>1. ASSUME NEW r \in Request, Reading(r) PROVE TypeOK'
    BY <1>1, <1>t, ReadingKeeps DEF TypeOK
<1>2. ASSUME NEW r \in Request, Insert(r) PROVE TypeOK'
    <2>1. mem[r].row \in Row
        BY <1>2, <1>t DEF Insert, HandlerInv, Memory
    <2> QED
        BY <1>2, <1>t, <2>1 DEF Insert, TypeOK, User
<1>3. ASSUME NEW r \in Request, RemoveOldToken(r) PROVE TypeOK'
    BY <1>3, <1>t DEF RemoveOldToken, TypeOK
<1>4. ASSUME NEW r \in Request, Issue(r) PROVE TypeOK'
    <2>1. mem[r].user \in User /\ mem[r].row.role \in Role
        BY <1>4, <1>t DEF Issue, HandlerInv, Memory, Row
    <2>2. GenerateAccessToken(mem[r].user, mem[r].row) \in [user : User, role : Role]
        BY <2>1 DEF GenerateAccessToken
    <2> QED
        BY <1>4, <1>t, <2>2 DEF Issue, TypeOK, Token
<1>5. ASSUME NEW r \in Request, SaveUser(r) PROVE TypeOK'
    <2>1. mem[r].row \in Row
        BY <1>5, <1>t DEF SaveUser, HandlerInv, Memory
    <2> QED
        BY <1>5, <1>t, <2>1 DEF SaveUser, TypeOK, Readers
<1>6. ASSUME NEW r \in Request, SoftRemove(r) PROVE TypeOK'
    <2>1. mem[r].user \in User /\ account[mem[r].user] \in Row
        BY <1>6, <1>t DEF SoftRemove, HandlerInv, Memory, TypeOK
    <2>2. [account[mem[r].user] EXCEPT !.removed = TRUE] \in Row
        BY <2>1 DEF Row
    <2> QED
        BY <1>6, <1>t, <2>2 DEF SoftRemove, TypeOK, Readers
<1>7. ASSUME NEW r \in Request, Refused(r) \/ Fail(r) PROVE TypeOK'
    BY <1>7, <1>t DEF Refused, Fail, TypeOK
<1>8. ASSUME NEW t \in Token, Expire(t) PROVE TypeOK'
    BY <1>8, <1>t DEF Expire, TypeOK
<1>9. CASE UNCHANGED vars
    BY <1>9, <1>t DEF vars, TypeOK
<1> QED
    BY <1>1, <1>2, <1>3, <1>4, <1>5, <1>6, <1>7, <1>8, <1>9 DEF Next, Reading

\* Accounts are never deleted from the table, whoever acts.
LEMMA AccountsStay ==
    ASSUME IInv, [Next]_vars, NEW u \in User, account[u] # None
    PROVE  account'[u] # None
<1>t. TypeOK /\ HandlerInv
    BY DEF IInv
<1>1. \A row \in Row : row # None
    BY SessionsAssumption
<1>2. ASSUME NEW r \in Request, Insert(r) PROVE account'[u] # None
    <2>1. mem[r].row \in Row
        BY <1>2, <1>t DEF Insert, HandlerInv, Memory, InFlight
    <2> QED
        BY <1>1, <1>2, <1>t, <2>1 DEF Insert, TypeOK
<1>3. ASSUME NEW r \in Request, SaveUser(r) PROVE account'[u] # None
    <2>1. mem[r].row \in Row
        BY <1>3, <1>t DEF SaveUser, HandlerInv, Memory, InFlight
    <2> QED
        BY <1>1, <1>3, <1>t, <2>1 DEF SaveUser, TypeOK
<1>4. ASSUME NEW r \in Request, SoftRemove(r) PROVE account'[u] # None
    <2>1. mem[r].user \in User /\ account[mem[r].user] \in Row
        BY <1>4, <1>t DEF SoftRemove, HandlerInv, Memory, TypeOK, InFlight
    <2>2. [account[mem[r].user] EXCEPT !.removed = TRUE] \in Row
        BY <2>1 DEF Row
    <2> QED
        BY <1>1, <1>4, <1>t, <2>2 DEF SoftRemove, TypeOK
<1> QED
    BY <1>2, <1>3, <1>4
       DEF Next, vars, RegisterCheck, Login, FindOldToken, Refresh, RemoveOldToken, Issue, Expire,
           UpdateRole, UpdateProfile, AssignUserToBranch, RemoveLoad, Refused, Fail

\* A request that goes on from one await to the next with what it has.
LEMMA HandlerStep == IInv /\ [Next]_vars => HandlerInv'
<1> SUFFICES ASSUME IInv, [Next]_vars PROVE HandlerInv'
    OBVIOUS
<1> USE DEF Goto, InFlight, Ended
<1>t. TypeOK /\ HandlerInv
    BY DEF IInv
<1>a. \A q \in Request : mem[q] \in Memory => mem[q].user \in User
    BY DEF Memory
<1>b. \A u \in User : account[u] # None => account'[u] # None
    BY AccountsStay
<1>1. ASSUME NEW r \in Request, Reading(r) PROVE HandlerInv'
    BY <1>1, <1>t, ReadingKeeps DEF HandlerInv, TypeOK
<1>2. ASSUME NEW r \in Request, Insert(r) PROVE HandlerInv'
    <2>1. mem[r] \in Memory /\ mem[r].user = r /\ mem[r].row # None
        BY <1>2, <1>t, SessionsAssumption DEF Insert, HandlerInv, Memory
    <2>2. account'[r] # None
        BY <1>2, <1>t, <2>1 DEF Insert, TypeOK, User
    <2> QED
        BY <1>2, <1>t, <1>a, <1>b, <2>1, <2>2 DEF Insert, HandlerInv, TypeOK, Issuing
<1>3. ASSUME NEW r \in Request, RemoveOldToken(r) PROVE HandlerInv'
    BY <1>3, <1>t DEF RemoveOldToken, HandlerInv, TypeOK
<1>4. ASSUME NEW r \in Request, Issue(r) PROVE HandlerInv'
    BY <1>4, <1>t DEF Issue, HandlerInv, TypeOK
<1>5. ASSUME NEW r \in Request, SaveUser(r) PROVE HandlerInv'
    BY <1>5, <1>t, <1>a, <1>b DEF SaveUser, HandlerInv, TypeOK
<1>6. ASSUME NEW r \in Request, SoftRemove(r) PROVE HandlerInv'
    BY <1>6, <1>t, <1>a, <1>b DEF SoftRemove, HandlerInv, TypeOK
<1>7. ASSUME NEW r \in Request, Refused(r) \/ Fail(r) PROVE HandlerInv'
    BY <1>7, <1>t DEF Refused, Fail, HandlerInv, TypeOK
<1>8. ASSUME NEW t \in Token, Expire(t) PROVE HandlerInv'
    BY <1>8, <1>t DEF Expire, HandlerInv
<1>9. CASE UNCHANGED vars
    BY <1>9, <1>t DEF vars, HandlerInv
<1> QED
    BY <1>1, <1>2, <1>3, <1>4, <1>5, <1>6, <1>7, <1>8, <1>9 DEF Next, Reading
-----------------------------------------------------------------------------
\* A token is inserted by Issue only.
LEMMA CreatedBySteps ==
    ASSUME IInv, [Next]_vars
    PROVE  \/ \E r \in Request :
                /\ Issue(r)
                /\ r \notin Created
                /\ Created' = Created \cup {r}
           \/ Created' = Created /\ \A r \in Request : ~Issue(r)
<1> USE DEF Goto, InFlight, Ended
<1>t. TypeOK /\ HandlerInv
    BY DEF IInv
<1>1. ASSUME NEW r \in Request, Reading(r) PROVE Created' = Created
    BY <1>1, <1>t, ReadingKeeps DEF Created, TypeOK
<1>2. ASSUME NEW r \in Request, Insert(r) \/ RemoveOldToken(r) \/ Refused(r) \/ Fail(r)
      PROVE  Created' = Created
    BY <1>2, <1>t DEF Insert, RemoveOldToken, Refused, Fail, Created, TypeOK
<1>3. ASSUME NEW r \in Request, Issue(r)
      PROVE  r \notin Created /\ Created' = Created \cup {r}
    BY <1>3, <1>t, SessionsAssumption DEF Issue, Created, TypeOK, HandlerInv
<1>4. ASSUME NEW r \in Request, SaveUser(r) \/ SoftRemove(r) PROVE Created' = Created
    BY <1>4, <1>t DEF SaveUser, SoftRemove, Created, TypeOK, HandlerInv
<1>5. ASSUME NEW t \in Token, Expire(t) PROVE Created' = Created
    BY <1>5 DEF Expire, Created
<1>6. ASSUME UNCHANGED vars PROVE Created' = Created
    <2>1. pc' = pc /\ mem' = mem
        BY <1>6 DEF vars
    <2> QED
        BY <2>1 DEF Created
<1>7. (\E r \in Request : Issue(r)) \/ Created' = Created
    BY <1>1, <1>2, <1>4, <1>5, <1>6 DEF Next, Reading
<1> QED
    BY <1>3, <1>7

\* What a step makes of the sessions: nothing, one less, or one more.
LEMMA SessionSteps ==
    ASSUME IInv, [Next]_vars
    PROVE  \/ UNCHANGED session /\ Created' = Created
           \/ \E u \in User :
                /\ session[u] # None
                /\ session' = [session EXCEPT ![u] = None]
                /\ Created' = Created
           \/ \E u \in User, r \in Request :
                /\ account[u] # None /\ session[u] = None /\ r \notin Created
                /\ session' = [session EXCEPT ![u] = r]
                /\ Created' = Created \cup {r}
<1> USE DEF InFlight
<1>t. TypeOK /\ HandlerInv
    BY DEF IInv
<1>1. ASSUME NEW r \in Request, Issue(r)
      PROVE  /\ mem[r].user \in User /\ account[mem[r].user] # None
             /\ session[mem[r].user] = None /\ session' = [session EXCEPT ![mem[r].user] = r]
    BY <1>1, <1>t DEF Issue, HandlerInv, Memory
<1>2. ASSUME NEW r \in Request, RemoveOldToken(r)
      PROVE  \/ UNCHANGED session
             \/ /\ mem[r].user \in User /\ session[mem[r].user] # None
                /\ session' = [session EXCEPT ![mem[r].user] = None]
    <2>1. mem[r].user \in User
        BY <1>2, <1>t DEF RemoveOldToken, HandlerInv, Memory
    <2>2. session' = [session EXCEPT ![mem[r].user] =
                        IF session[mem[r].user] = mem[r].old THEN None ELSE session[mem[r].user]]
        BY <1>2, <1>t, <2>1 DEF RemoveOldToken, TypeOK
    <2> QED
        BY <1>t, <2>1, <2>2 DEF TypeOK
<1>3. \/ UNCHANGED session
      \/ \E r \in Request : Issue(r) \/ RemoveOldToken(r)
    BY DEF Next, vars, RegisterCheck, Insert, Login, FindOldToken, Refresh, UpdateRole, UpdateProfile,
           AssignUserToBranch, SaveUser, RemoveLoad, SoftRemove, Refused, Fail, Expire
<1>4. (\E r \in Request : Issue(r)) \/ Created' = Created
    BY CreatedBySteps
<1>5. ASSUME NEW r \in Request, Issue(r)
      PROVE  \E q \in Request : Issue(q) /\ q \notin Created /\ Created' = Created \cup {q}
    BY <1>5, CreatedBySteps
<1>6. CASE \E r \in Request : Issue(r)
    BY <1>1, <1>5, <1>6
<1>7. CASE \A r \in Request : ~Issue(r)
    BY <1>2, <1>3, <1>4, <1>7
<1> QED
    BY <1>6, <1>7

LEMMA SessionStep == IInv /\ [Next]_vars => SessionInv'
<1> SUFFICES ASSUME IInv, [Next]_vars PROVE SessionInv'
    OBVIOUS
<1>t. TypeOK /\ SessionInv
    BY DEF IInv
<1>1. \A u \in User : account[u] # None => account'[u] # None
    BY AccountsStay
<1>2. CASE UNCHANGED session /\ Created' = Created
    BY <1>1, <1>2, <1>t DEF SessionInv
<1>3. CASE \E u \in User :
                /\ session[u] # None
                /\ session' = [session EXCEPT ![u] = None]
                /\ Created' = Created
    BY <1>1, <1>3, <1>t DEF SessionInv, TypeOK
<1>4. CASE \E u \in User, r \in Request :
                /\ account[u] # None /\ session[u] = None /\ r \notin Created
                /\ session' = [session EXCEPT ![u] = r]
                /\ Created' = Created \cup {r}
    BY <1>1, <1>4, <1>t, SessionsAssumption DEF SessionInv, TypeOK
<1> QED
    BY <1>2, <1>3, <1>4, SessionSteps

LEMMA Invariance == Spec => []IInv
<1>1. IInv /\ [Next]_vars => IInv'
    BY TypeStep, HandlerStep, SessionStep DEF IInv
<1> QED
    BY InitIInv, <1>1, PTL DEF Spec

(***************************************************************************)
(* The tables and the requests keep their types, for any number of         *)
(* accounts and requests: what a handler saves or issues was read as a row *)
(* that existed, and a DTO changes it into another row.                    *)
(***************************************************************************)
THEOREM TypeCorrect == Spec => []TypeOK
BY Invariance, PTL DEF IInv
-----------------------------------------------------------------------------
(***************************************************************************)
(* No two accounts ever have the same e-mail, however many registrations,  *)
(* updates and removals interleave: the index is asked by every write that *)
(* sets an e-mail.                                                         *)
(***************************************************************************)
THEOREM EmailsAreUnique == Spec => []EmailsDiffer
<1>1. Init => EmailsDiffer
    BY SessionsAssumption DEF Init, EmailsDiffer, User
<1>2. IInv /\ EmailsDiffer /\ [Next]_vars => EmailsDiffer'
    <2> SUFFICES ASSUME IInv, EmailsDiffer, [Next]_vars PROVE EmailsDiffer'
        OBVIOUS
    <2>t. TypeOK /\ HandlerInv
        BY DEF IInv
    <2>1. ASSUME NEW r \in Request, Insert(r) PROVE EmailsDiffer'
        <3>1. mem[r].user = r
            BY <2>1, <2>t DEF Insert, HandlerInv, InFlight
        <3> QED
            BY <2>1, <2>t, <3>1 DEF Insert, EmailsDiffer, EmailTaken, TypeOK, User
    <2>2. ASSUME NEW r \in Request, SaveUser(r) PROVE EmailsDiffer'
        BY <2>2, <2>t DEF SaveUser, EmailsDiffer, EmailTaken, TypeOK
    <2>3. ASSUME NEW r \in Request, SoftRemove(r) PROVE EmailsDiffer'
        <3>1. mem[r].user \in User /\ account[mem[r].user] \in Row
            BY <2>3, <2>t DEF SoftRemove, HandlerInv, Memory, TypeOK, InFlight
        <3>2. [account[mem[r].user] EXCEPT !.removed = TRUE].email = account[mem[r].user].email
            BY <3>1 DEF Row
        <3>3. account[mem[r].user] # None
            BY <3>1, SessionsAssumption
        <3> QED
            BY <2>3, <2>t, <3>1, <3>2, <3>3 DEF SoftRemove, EmailsDiffer, TypeOK
    <2>4. CASE UNCHANGED account
        BY <2>4 DEF EmailsDiffer
    <2> QED
        BY <2>1, <2>2, <2>3, <2>4
           DEF Next, vars, RegisterCheck, Login, FindOldToken, Refresh, RemoveOldToken, Issue, Expire,
               UpdateRole, UpdateProfile, AssignUserToBranch, RemoveLoad, Refused, Fail
<1> QED
    BY <1>1, <1>2, Invariance, PTL DEF Spec
-----------------------------------------------------------------------------
(***************************************************************************)
(* Sessions implements RefreshTokens: whatever logins, refreshes and       *)
(* failures do between the queries of a rotation, an account has one       *)
(* refresh token at most, and a token that was spent is never good again.  *)
(***************************************************************************)
THEOREM SessionsImplementRefreshTokens == Spec => TokensKeepTheirPromise
<1> DEFINE Spent == Created \ {session[u] : u \in User}
<1>1. Init => Tokens!Init
    <2> SUFFICES ASSUME Init PROVE Tokens!Init
        OBVIOUS
    <2>1. IInv
        BY InitIInv
    <2>2. Created = Seeded
        BY DEF Init, Created
    <2>3. \A u \in Seeded : u \in User /\ session[u] = u
        BY DEF Init, User
    <2>4. Spent = {}
        BY <2>2, <2>3
    <2> QED
        BY <2>1, <2>4 DEF Tokens!Init, IInv, TypeOK, SessionInv
<1>2. IInv /\ [Next]_vars => [Tokens!Next]_<<session, Spent>>
    <2> SUFFICES ASSUME IInv, [Next]_vars PROVE [Tokens!Next]_<<session, Spent>>
        OBVIOUS
    <2>t. TypeOK /\ SessionInv
        BY DEF IInv
    <2>1. CASE UNCHANGED session /\ Created' = Created
        BY <2>1
    <2>2. ASSUME NEW u \in User,
                 session[u] # None, session' = [session EXCEPT ![u] = None], Created' = Created
          PROVE  Tokens!Spend(u)
        <3>1. None \notin Created /\ session[u] \in Created
            BY <2>2, <2>t, SessionsAssumption DEF SessionInv, Created
        <3>2. \A t : t \in Spent' <=> t \in Spent \cup {session[u]}
            BY <2>2, <2>t, <3>1 DEF SessionInv, TypeOK
        <3>3. Spent' = Spent \cup {session[u]}
            BY <3>2
        <3> QED
            BY <2>2, <3>3 DEF Tokens!Spend
    <2>3. ASSUME NEW u \in User, NEW r \in Request,
                 session[u] = None, r \notin Created,
                 session' = [session EXCEPT ![u] = r], Created' = Created \cup {r}
          PROVE  Tokens!Issue(u, r)
        <3>1. \A v \in User : session[v] # r
            BY <2>3, <2>t, SessionsAssumption DEF SessionInv
        <3>2. None \notin Created /\ r # None
            BY SessionsAssumption DEF Created
        <3>3. \A t : t \in Spent' <=> t \in Spent
            BY <2>3, <2>t, <3>1, <3>2 DEF TypeOK
        <3>4. Spent' = Spent /\ r \notin Spent
            BY <2>3, <3>3
        <3> QED
            BY <2>3, <3>1, <3>4 DEF Tokens!Issue
    <2> QED
        BY <2>1, <2>2, <2>3, SessionSteps DEF Tokens!Next, Token
<1> QED
    BY <1>1, <1>2, Invariance, PTL DEF Spec, TokensKeepTheirPromise, Tokens!Spec
-----------------------------------------------------------------------------
(***************************************************************************)
(* What the remaining properties rest on: what a request's steps so far    *)
(* say of it, what it read and nobody changed since, whose a token is, and *)
(* where the tokens went that requests inserted.                           *)
(***************************************************************************)
WayInv ==
    \A r \in Request :
        /\ pc[r] = "new" => mem[r] = None
        /\ pc[r] \in {"new", "insert"} => account[r] = None
        /\ pc[r] = "insert" => ~mem[r].row.removed
        /\ pc[r] = "lookup" => mem[r].old = None
        /\ pc[r] = "discard" => mem[r].op = "refresh"
        /\ mem[r] # None /\ mem[r].op = "refresh" => mem[r].old # None

\* Unless somebody changed the account, the request goes on with what is there.
UpToDate ==
    \A r \in Request :
        LET u == mem[r].user
        IN  pc[r] \in {"lookup", "drop", "issue", "save"} /\ r \notin stale =>
                /\ ~account[u].removed
                /\ pc[r] = "save" /\ mem[r].op # "role" => mem[r].row.role = account[u].role

\* The account a token was inserted for; seeded ones bear its name.
Whose(t) == IF t \in Seeded THEN t ELSE mem[t].user

OwnersInv ==
    /\ \A u \in User, t \in Token : session[u] = t => Whose(t) = u
    /\ \A r \in Request :
          mem[r] # None /\ mem[r].old # None =>
              mem[r].old \in Created /\ mem[r].old # r /\ Whose(mem[r].old) = mem[r].user

\* A token that was inserted is there, or somebody read it to remove it.
RemovedBy(t) == \E s \in Request : mem[s] # None /\ mem[s].old = t

InsertedInv ==
    \A r \in Request :
        r \in Created => session[mem[r].user] = r \/ RemovedBy(r)

\* Somebody is about to insert, or was kept from it.
Explained(u) ==
    \E r \in Request :
        /\ mem[r] # None /\ mem[r].user = u /\ mem[r].op \in Issuing
        /\ \/ pc[r] \in {"issue", "failed"}
           \/ pc[r] = "rejected" /\ mem[r].op = "refresh"

ExplainedInv == \A u \in User : account[u] # None /\ session[u] = None => Explained(u)

JInv == IInv /\ WayInv /\ UpToDate /\ OwnersInv /\ InsertedInv /\ ExplainedInv

\* What Init says of each.
LEMMA InitJInv == Init => JInv
<1> SUFFICES ASSUME Init PROVE JInv
    OBVIOUS
<1>1. IInv
    BY InitIInv
<1>2. WayInv /\ UpToDate
    BY SessionsAssumption DEF Init, WayInv, UpToDate, User
<1>3. \A u \in User : session[u] # None => u \in Seeded /\ session[u] = u
    BY DEF Init
<1>4. OwnersInv
    BY <1>3, SessionsAssumption DEF Init, OwnersInv, Whose, Token
<1>5. InsertedInv
    BY SessionsAssumption DEF Init, InsertedInv, Created
<1>6. ExplainedInv
    BY SessionsAssumption DEF Init, ExplainedInv
<1> QED
    BY <1>1, <1>2, <1>4, <1>5, <1>6 DEF JInv

\* What a step that reads leaves its request with.
Seen(r) ==
    /\ pc'[r] # "new"
    /\ pc[r] = "new" \/ mem'[r].user = mem[r].user
    /\ mem[r] # None => mem[r].old = None
    /\ pc'[r] = "insert" => account[r] = None /\ ~mem'[r].row.removed
    /\ pc'[r] = "lookup" => mem'[r].old = None
    /\ pc'[r] = "discard" => mem'[r].op = "refresh"
    /\ mem'[r] # None /\ mem'[r].op = "refresh" => mem'[r].old # None
    /\ pc'[r] \in {"lookup", "drop", "issue", "save"} =>
          /\ r \notin stale \/ pc[r] = "new" => ~account[mem'[r].user].removed
          /\ pc'[r] = "save" /\ mem'[r].op # "role" => mem'[r].row.role = account[mem'[r].user].role
    /\ mem'[r] # None /\ mem'[r].old # None =>
          mem'[r].user \in User /\ session[mem'[r].user] = mem'[r].old

LEMMA ReadingSees ==
    ASSUME JInv, NEW r \in Request, Reading(r)
    PROVE  Seen(r)
<1> USE DEF Goto
<1>t. TypeOK /\ HandlerInv /\ SessionInv /\ WayInv /\ UpToDate
    BY DEF JInv, IInv
<1>n. pc[r] = "new" => mem[r] = None /\ account[r] = None
    BY <1>t DEF WayInv
<1>d. mem \in [Request -> Memory \cup {None}] /\ pc \in [Request -> {"new"} \cup InFlight \cup Ended]
    BY <1>t DEF TypeOK
<1>u. \A u \in User : account[u] # None => account[u] \in Row
    BY <1>t DEF TypeOK
<1>1. CASE RegisterCheck(r)
    <2>1. PICK e \in Email :
             /\ Keep(r, "register", r, [email |-> e, role |-> "cashier", removed |-> FALSE], None)
             /\ Goto(r, IF \E u \in User : Found(u) /\ account[u].email = e
                        THEN "rejected" ELSE "insert")
        BY <1>1 DEF RegisterCheck
    <2>2. /\ mem'[r] = [op |-> "register", user |-> r,
                        row |-> [email |-> e, role |-> "cashier", removed |-> FALSE], old |-> None]
          /\ pc[r] = "new" /\ pc'[r] \in {"rejected", "insert"}
        BY <1>1, <1>d, <2>1 DEF RegisterCheck, Keep
    <2> QED
        BY <1>n, <2>2 DEF Seen
<1>2. CASE Login(r)
    <2>1. PICK u \in User, valid \in BOOLEAN :
             /\ account[u] # None
             /\ Keep(r, "login", u, account[u], None)
             /\ Goto(r, IF Found(u) /\ valid THEN "lookup" ELSE "rejected")
        BY <1>2 DEF Login
    <2>2. /\ mem'[r] = [op |-> "login", user |-> u, row |-> account[u], old |-> None]
          /\ pc[r] = "new" /\ pc'[r] \in {"rejected", "lookup"}
          /\ pc'[r] = "lookup" => Found(u)
        BY <1>2, <1>d, <2>1 DEF Login, Keep
    <2> QED
        BY <1>n, <2>2 DEF Seen, Found
<1>3. CASE FindOldToken(r)
    <2>1. /\ pc[r] = "lookup" /\ mem[r] \in Memory /\ mem[r].old = None
          /\ r \notin stale => ~account[mem[r].user].removed
        BY <1>3, <1>t DEF FindOldToken, HandlerInv, InFlight, WayInv, UpToDate
    <2> DEFINE old == IF Found(mem[r].user) THEN session[mem[r].user] ELSE None
    <2>2. /\ mem'[r] = [mem[r] EXCEPT !.old = old]
          /\ pc'[r] = IF old = None THEN "issue" ELSE "drop"
        BY <1>3, <1>d DEF FindOldToken
    <2>3. /\ mem'[r].user = mem[r].user /\ mem'[r].op = mem[r].op
          /\ mem[r].user \in User /\ mem'[r].old = old
        BY <2>1, <2>2 DEF Memory
    <2>4. mem[r].op # "refresh"
        BY <1>t, <2>1, NoneAssumption DEF WayInv
    <2> QED
        BY <2>1, <2>2, <2>3, <2>4 DEF Seen
<1>4. CASE Refresh(r)
    <2>1. PICK t \in Created :
             \/ /\ \A u \in User : session[u] # t
                /\ Goto(r, "rejected")
                /\ UNCHANGED mem
             \/ \E u \in User :
                   /\ session[u] = t
                   /\ Keep(r, "refresh", u, account[u], t)
                   /\ Goto(r, Outcome(t, u))
        BY <1>4 DEF Refresh
    <2>2. pc[r] = "new" /\ mem[r] = None
        BY <1>4, <1>n DEF Refresh
    <2>3. CASE Goto(r, "rejected") /\ UNCHANGED mem
        BY <1>d, <2>2, <2>3 DEF Seen
    <2>4. ASSUME NEW u \in User,
                 session[u] = t, Keep(r, "refresh", u, account[u], t), Goto(r, Outcome(t, u))
          PROVE  Seen(r)
        <3>1. /\ mem'[r] = [op |-> "refresh", user |-> u, row |-> account[u], old |-> t]
              /\ pc'[r] = Outcome(t, u)
            BY <1>d, <2>4 DEF Keep
        <3>2. pc'[r] \in {"discard", "failed", "drop"} /\ (pc'[r] = "drop" => Found(u))
            BY <3>1 DEF Outcome
        <3>3. t # None
            BY SessionsAssumption DEF Created
        <3> QED
            BY <2>2, <2>4, <3>1, <3>2, <3>3 DEF Seen, Found
    <2> QED
        BY <2>1, <2>3, <2>4
<1>5. CASE UpdateRole(r)
    <2>1. PICK u \in User, c \in Change :
             /\ Found(u)
             /\ Keep(r, "role", u, Assigned(account[u], c), None)
             /\ Goto(r, "save")
        BY <1>5 DEF UpdateRole
    <2>2. /\ mem'[r] = [op |-> "role", user |-> u, row |-> Assigned(account[u], c), old |-> None]
          /\ pc[r] = "new" /\ pc'[r] = "save"
        BY <1>5, <1>d, <2>1 DEF UpdateRole, Keep
    <2> QED
        BY <1>n, <2>1, <2>2 DEF Seen, Found
<1>6. CASE UpdateProfile(r)
    <2>1. PICK b \in badges, c \in Change :
             /\ Found(b.user)
             /\ Keep(r, "profile", b.user, Assigned(account[b.user], c), None)
             /\ Goto(r, IF c.role = None THEN "save" ELSE "rejected")
        BY <1>6 DEF UpdateProfile
    <2>2. /\ mem'[r] = [op |-> "profile", user |-> b.user, row |-> Assigned(account[b.user], c),
                        old |-> None]
          /\ pc[r] = "new" /\ pc'[r] \in {"rejected", "save"}
          /\ pc'[r] = "save" => c.role = None
        BY <1>6, <1>d, <2>1 DEF UpdateProfile, Keep
    <2>3. b.user \in User
        BY <1>t DEF TypeOK
    <2>4. account[b.user] \in Row
        BY <1>u, <2>1, <2>3 DEF Found
    <2>5. c.role = None => Assigned(account[b.user], c).role = account[b.user].role
        BY <2>4 DEF Assigned, Row
    <2>6. mem'[r].user = b.user /\ mem'[r].op = "profile" /\ mem'[r].old = None
          /\ mem'[r].row = Assigned(account[b.user], c)
        BY <2>2
    <2> QED
        BY <1>n, <2>1, <2>2, <2>5, <2>6 DEF Seen, Found
<1>7. CASE AssignUserToBranch(r)
    <2>1. PICK u \in User, role \in {"manager", "cashier"} :
             /\ Found(u)
             /\ Keep(r, "assign", u, account[u], None)
             /\ Goto(r, IF account[u].role = role THEN "save" ELSE "rejected")
        BY <1>7 DEF AssignUserToBranch
    <2>2. /\ mem'[r] = [op |-> "assign", user |-> u, row |-> account[u], old |-> None]
          /\ pc[r] = "new" /\ pc'[r] \in {"rejected", "save"}
        BY <1>7, <1>d, <2>1 DEF AssignUserToBranch, Keep
    <2> QED
        BY <1>n, <2>1, <2>2 DEF Seen, Found
<1>8. CASE RemoveLoad(r)
    <2>1. PICK u \in User :
             /\ Found(u)
             /\ Keep(r, "remove", u, account[u], None)
             /\ Goto(r, "softRemove")
        BY <1>8 DEF RemoveLoad
    <2>2. /\ mem'[r] = [op |-> "remove", user |-> u, row |-> account[u], old |-> None]
          /\ pc[r] = "new" /\ pc'[r] = "softRemove"
        BY <1>8, <1>d, <2>1 DEF RemoveLoad, Keep
    <2> QED
        BY <1>n, <2>2 DEF Seen
<1> QED
    BY <1>1, <1>2, <1>3, <1>4, <1>5, <1>6, <1>7, <1>8 DEF Reading
-----------------------------------------------------------------------------
\* A token that was inserted stays its account's, and who read it keeps it.
LEMMA TokensKeep ==
    ASSUME JInv, [Next]_vars, NEW t \in Created
    PROVE  /\ t \in Created'
           /\ t \in Request => mem'[t] = mem[t]
           /\ RemovedBy(t) => \E s \in Request : mem'[s] # None /\ mem'[s].old = t
<1>t. IInv /\ TypeOK /\ WayInv
    BY DEF JInv, IInv
<1>1. t \in Created'
    BY <1>t, CreatedBySteps
<1>2. t # None
    BY SessionsAssumption DEF Created
<1>3. t \in Request => pc[t] = "done"
    BY SessionsAssumption DEF Created
<1>4. ASSUME NEW r \in Request, Reading(r)
      PROVE  /\ pc[r] \in {"new", "lookup"} /\ (mem[r] # None => mem[r].old = None)
             /\ \A q \in Request \ {r} : mem'[q] = mem[q]
    <2>1. pc[r] \in {"new", "lookup"} /\ \E m \in Memory \cup {None} : mem' = [mem EXCEPT ![r] = m]
        BY <1>t, <1>4, ReadingKeeps
    <2>2. mem[r] # None => mem[r].old = None
        BY <1>4, ReadingSees DEF Seen
    <2> QED
        BY <1>t, <2>1, <2>2 DEF TypeOK
<1>5. (\A r \in Request : ~Reading(r)) => mem' = mem
    BY DEF Next, vars, Reading, Insert, RemoveOldToken, Issue, SaveUser, SoftRemove, Refused, Fail, Expire
<1>6. t \in Request => mem'[t] = mem[t]
    BY <1>3, <1>4, <1>5
<1>7. ASSUME NEW s \in Request, mem[s] # None, mem[s].old = t
      PROVE  mem'[s] = mem[s]
    BY <1>2, <1>4, <1>5, <1>7
<1> QED
    BY <1>1, <1>6, <1>7 DEF RemovedBy

\* A request goes on the way the code does.
LEMMA WayStep == JInv /\ [Next]_vars => WayInv'
<1> SUFFICES ASSUME JInv, [Next]_vars PROVE WayInv'
    OBVIOUS
<1> USE DEF Goto
<1>t. IInv /\ TypeOK /\ HandlerInv /\ WayInv
    BY DEF JInv, IInv
<1>u. Request \subseteq User
    BY DEF User
<1>1. ASSUME NEW r \in Request, Reading(r) PROVE WayInv'
    <2>1. /\ Seen(r) /\ account' = account
          /\ \E l \in (InFlight \cup Ended) \ {"done"} : pc' = [pc EXCEPT ![r] = l]
          /\ \E m \in Memory \cup {None} : mem' = [mem EXCEPT ![r] = m]
        BY <1>t, <1>1, ReadingKeeps, ReadingSees
    <2>2. \A q \in Request \ {r} : pc'[q] = pc[q] /\ mem'[q] = mem[q]
        BY <1>t, <2>1 DEF TypeOK
    <2> QED
        BY <1>t, <2>1, <2>2 DEF WayInv, Seen
<1>2. ASSUME NEW r \in Request, Insert(r) PROVE WayInv'
    BY <1>t, <1>u, <1>2 DEF Insert, WayInv, TypeOK
<1>3. ASSUME NEW r \in Request, RemoveOldToken(r) \/ Issue(r) \/ Refused(r) \/ Fail(r) PROVE WayInv'
    BY <1>t, <1>3 DEF RemoveOldToken, Issue, Refused, Fail, WayInv, TypeOK
<1>4. ASSUME NEW r \in Request, SaveUser(r) \/ SoftRemove(r) PROVE WayInv'
    <2>1. account[mem[r].user] # None /\ mem[r].user \in User
        BY <1>t, <1>4 DEF SaveUser, SoftRemove, HandlerInv, InFlight, Memory
    <2>2. \A q \in Request : account[q] = None => account'[q] = None
        BY <1>t, <1>u, <1>4, <2>1 DEF SaveUser, SoftRemove, TypeOK
    <2> QED
        BY <1>t, <1>4, <2>2 DEF SaveUser, SoftRemove, WayInv, TypeOK
<1>5. ASSUME NEW t \in Token, Expire(t) PROVE WayInv'
    BY <1>t, <1>5 DEF Expire, WayInv
<1>6. CASE UNCHANGED vars
    BY <1>t, <1>6 DEF vars, WayInv
<1> QED
    BY <1>1, <1>2, <1>3, <1>4, <1>5, <1>6 DEF Next, Reading

\* Who saves an account marks everybody who holds it.
LEMMA UpToDateStep == JInv /\ [Next]_vars => UpToDate'
<1> SUFFICES ASSUME JInv, [Next]_vars PROVE UpToDate'
    OBVIOUS
<1> USE DEF Goto
<1>t. IInv /\ TypeOK /\ HandlerInv /\ WayInv /\ UpToDate
    BY DEF JInv, IInv
<1>1. ASSUME NEW r \in Request, Reading(r) PROVE UpToDate'
    <2>1. /\ Seen(r) /\ account' = account /\ stale' = stale
          /\ \E l \in (InFlight \cup Ended) \ {"done"} : pc' = [pc EXCEPT ![r] = l]
          /\ \E m \in Memory \cup {None} : mem' = [mem EXCEPT ![r] = m]
        BY <1>t, <1>1, ReadingKeeps, ReadingSees
    <2>2. \A q \in Request \ {r} : pc'[q] = pc[q] /\ mem'[q] = mem[q]
        BY <1>t, <2>1 DEF TypeOK
    <2> QED
        BY <1>t, <2>1, <2>2 DEF UpToDate, Seen
<1>2. ASSUME NEW r \in Request, Insert(r) PROVE UpToDate'
    <2>1. account[r] = None /\ mem[r].user = r /\ ~mem[r].row.removed
        BY <1>t, <1>2 DEF Insert, WayInv, HandlerInv
    <2>2. account'[r] = mem[r].row /\ \A u \in User \ {r} : account'[u] = account[u]
        BY <1>t, <1>2 DEF Insert, TypeOK, User
    <2>3. \A q \in Request : pc[q] \in {"lookup", "drop", "issue", "save"} =>
             mem[q].user \in User /\ account[mem[q].user] # None
        BY <1>t DEF HandlerInv, InFlight, Memory
    <2> QED
        BY <1>t, <1>2, <2>1, <2>2, <2>3 DEF Insert, UpToDate, TypeOK
<1>3. ASSUME NEW r \in Request, RemoveOldToken(r) \/ Issue(r) \/ Refused(r) \/ Fail(r) PROVE UpToDate'
    BY <1>t, <1>3 DEF RemoveOldToken, Issue, Refused, Fail, UpToDate, TypeOK
<1>4. ASSUME NEW r \in Request, SaveUser(r) \/ SoftRemove(r) PROVE UpToDate'
    <2>1. mem[r].user \in User
        BY <1>t, <1>4 DEF SaveUser, SoftRemove, HandlerInv, InFlight, Memory
    <2>2. /\ \A u \in User \ {mem[r].user} : account'[u] = account[u]
          /\ stale' = stale \cup (Readers(mem[r].user) \ {r})
          /\ mem' = mem /\ pc' = [pc EXCEPT ![r] = "done"]
        BY <1>t, <1>4, <2>1 DEF SaveUser, SoftRemove, TypeOK
    <2>3. \A q \in Request : pc[q] \in InFlight => mem[q].user \in User
        BY <1>t DEF HandlerInv, Memory
    <2>4. ASSUME NEW q \in Request \ {r}, pc[q] \in {"lookup", "drop", "issue", "save"}, q \notin stale'
          PROVE  account'[mem[q].user] = account[mem[q].user]
        BY <2>2, <2>3, <2>4 DEF Readers, InFlight
    <2> QED
        BY <1>t, <2>2, <2>4 DEF UpToDate, TypeOK
<1>5. ASSUME NEW t \in Token, Expire(t) PROVE UpToDate'
    BY <1>t, <1>5 DEF Expire, UpToDate
<1>6. CASE UNCHANGED vars
    BY <1>t, <1>6 DEF vars, UpToDate
<1> QED
    BY <1>1, <1>2, <1>3, <1>4, <1>5, <1>6 DEF Next, Reading

\* Only two steps touch the table of tokens.
LEMMA TokenSteps ==
    ASSUME JInv, [Next]_vars
    PROVE  \/ UNCHANGED session /\ Created' = Created
           \/ \E r \in Request :
                /\ RemoveOldToken(r) /\ Created' = Created
                /\ mem[r] \in Memory /\ mem[r].user \in User /\ mem[r].old = session[mem[r].user]
                /\ session' = [session EXCEPT ![mem[r].user] = None]
           \/ \E r \in Request :
                /\ Issue(r) /\ r \notin Created /\ Created' = Created \cup {r}
                /\ mem' = mem
                /\ mem[r] \in Memory /\ mem[r].user \in User /\ session[mem[r].user] = None
                /\ session' = [session EXCEPT ![mem[r].user] = r]
<1>t. IInv /\ TypeOK /\ HandlerInv
    BY DEF JInv, IInv
<1>1. ASSUME NEW r \in Request, Issue(r)
      PROVE  /\ mem' = mem /\ mem[r] \in Memory /\ mem[r].user \in User
             /\ session[mem[r].user] = None /\ session' = [session EXCEPT ![mem[r].user] = r]
    BY <1>t, <1>1 DEF Issue, HandlerInv, InFlight, Memory
<1>2. ASSUME NEW r \in Request, RemoveOldToken(r)
      PROVE  \/ UNCHANGED session
             \/ /\ mem[r] \in Memory /\ mem[r].user \in User /\ mem[r].old = session[mem[r].user]
                /\ session' = [session EXCEPT ![mem[r].user] = None]
    <2>1. mem[r] \in Memory /\ mem[r].user \in User
        BY <1>2, <1>t DEF RemoveOldToken, HandlerInv, InFlight, Memory
    <2>2. session' = [session EXCEPT ![mem[r].user] =
                        IF session[mem[r].user] = mem[r].old THEN None ELSE session[mem[r].user]]
        BY <1>2, <1>t, <2>1 DEF RemoveOldToken, TypeOK
    <2> QED
        BY <1>t, <2>1, <2>2 DEF TypeOK
<1>3. \/ UNCHANGED session
      \/ \E r \in Request : Issue(r) \/ RemoveOldToken(r)
    BY DEF Next, vars, RegisterCheck, Insert, Login, FindOldToken, Refresh, UpdateRole, UpdateProfile,
           AssignUserToBranch, SaveUser, RemoveLoad, SoftRemove, Refused, Fail, Expire
<1>4. ASSUME NEW r \in Request, Issue(r)
      PROVE  \E q \in Request : Issue(q) /\ q \notin Created /\ Created' = Created \cup {q}
    BY <1>t, <1>4, CreatedBySteps
<1>5. CASE \E r \in Request : Issue(r)
    <2>1. PICK r \in Request : Issue(r) /\ r \notin Created /\ Created' = Created \cup {r}
        BY <1>4, <1>5
    <2> QED
        BY <1>1, <2>1
<1>6. CASE \A r \in Request : ~Issue(r)
    <2>1. Created' = Created
        BY <1>t, <1>6, CreatedBySteps
    <2> QED
        BY <1>2, <1>3, <1>6, <2>1
<1> QED
    BY <1>5, <1>6

\* A request reads the token of the account it then removes it from.
LEMMA OwnersStep == JInv /\ [Next]_vars => OwnersInv'
<1> SUFFICES ASSUME JInv, [Next]_vars PROVE OwnersInv'
    OBVIOUS
<1>t. IInv /\ TypeOK /\ SessionInv /\ WayInv /\ OwnersInv
    BY DEF JInv, IInv
<1>1. \A t \in Created : t \in Created' /\ Whose(t)' = Whose(t)
    <2> TAKE t \in Created
    <2>1. t \in Created' /\ (t \in Request => mem'[t] = mem[t])
        BY TokensKeep
    <2>2. t \in Seeded \/ t \in Request
        BY DEF Created
    <2> QED
        BY <2>1, <2>2 DEF Whose
<1>2. \A u \in User, t \in Token : session'[u] = t => Whose(t)' = u
    <2>0. ASSUME NEW u \in User, NEW t \in Token, session[u] = t PROVE Whose(t)' = u
        <3>1. t # None
            BY SessionsAssumption DEF Token
        <3> QED
            BY <1>1, <1>t, <2>0, <3>1 DEF OwnersInv, SessionInv
    <2>1. CASE UNCHANGED session
        BY <2>0, <2>1
    <2>2. ASSUME NEW r \in Request, mem[r].user \in User,
                 session' = [session EXCEPT ![mem[r].user] = None],
                 NEW u \in User, NEW t \in Token, session'[u] = t
          PROVE  Whose(t)' = u
        <3>1. session[u] = t
            BY <1>t, <2>2, SessionsAssumption DEF TypeOK, Token
        <3> QED
            BY <2>0, <3>1
    <2>3. ASSUME NEW r \in Request, mem' = mem, mem[r].user \in User,
                 session' = [session EXCEPT ![mem[r].user] = r],
                 NEW u \in User, NEW t \in Token, session'[u] = t
          PROVE  Whose(t)' = u
        <3>1. CASE u # mem[r].user
            <4>1. session[u] = t
                BY <1>t, <2>3, <3>1 DEF TypeOK
            <4> QED
                BY <2>0, <4>1
        <3>2. CASE u = mem[r].user
            <4>1. t = r
                BY <1>t, <2>3, <3>2 DEF TypeOK
            <4> QED
                BY <2>3, <3>2, <4>1, SessionsAssumption DEF Whose
        <3> QED
            BY <3>1, <3>2
    <2> QED
        BY <2>1, <2>2, <2>3, TokenSteps
<1>3. \A r \in Request :
          mem'[r] # None /\ mem'[r].old # None =>
              mem'[r].old \in Created /\ mem'[r].old # r /\ Whose(mem'[r].old) = mem'[r].user
    <2>1. ASSUME NEW r \in Request, Reading(r), mem'[r] # None, mem'[r].old # None
          PROVE  mem'[r].old \in Created /\ mem'[r].old # r /\ Whose(mem'[r].old) = mem'[r].user
        <3>1. mem'[r].user \in User /\ session[mem'[r].user] = mem'[r].old
            BY <2>1, ReadingSees DEF Seen
        <3>2. pc[r] # "done"
            BY <1>t, <2>1, ReadingKeeps
        <3>3. r \notin Created
            BY <3>2, SessionsAssumption DEF Created
        <3>4. mem'[r].old \in Created /\ mem'[r].old \in Token
            BY <1>t, <2>1, <3>1 DEF SessionInv, TypeOK
        <3> QED
            BY <1>t, <2>1, <3>1, <3>3, <3>4 DEF OwnersInv
    <2>2. ASSUME NEW r \in Request, Reading(r)
          PROVE  \A q \in Request \ {r} : mem'[q] = mem[q]
        <3>1. \E m \in Memory \cup {None} : mem' = [mem EXCEPT ![r] = m]
            BY <1>t, <2>2, ReadingKeeps
        <3> QED
            BY <1>t, <3>1 DEF TypeOK
    <2>3. (\A r \in Request : ~Reading(r)) => mem' = mem
        BY DEF Next, vars, Reading, Insert, RemoveOldToken, Issue, SaveUser, SoftRemove, Refused,
               Fail, Expire
    <2> QED
        BY <1>t, <2>1, <2>2, <2>3 DEF OwnersInv
<1> QED
    BY <1>1, <1>2, <1>3 DEF OwnersInv

\* Who empties the place of a token read that token before.
LEMMA InsertedStep == JInv /\ [Next]_vars => InsertedInv'
<1> SUFFICES ASSUME JInv, [Next]_vars PROVE InsertedInv'
    OBVIOUS
<1>t. IInv /\ TypeOK /\ SessionInv /\ OwnersInv /\ InsertedInv
    BY DEF JInv, IInv
<1>1. \A t \in Created :
          /\ t \in Created'
          /\ t \in Request => mem'[t] = mem[t]
          /\ RemovedBy(t) => \E s \in Request : mem'[s] # None /\ mem'[s].old = t
    BY TokensKeep
<1>2. ASSUME NEW q \in Request, q \in Created, session'[mem[q].user] = session[mem[q].user]
      PROVE  session'[mem'[q].user] = q \/ \E s \in Request : mem'[s] # None /\ mem'[s].old = q
    BY <1>1, <1>2, <1>t DEF InsertedInv
<1>3. ASSUME NEW q \in Request, q \in Created, session[mem[q].user] # q
      PROVE  \E s \in Request : mem'[s] # None /\ mem'[s].old = q
    BY <1>1, <1>3, <1>t DEF InsertedInv
<1>4. CASE UNCHANGED session /\ Created' = Created
    BY <1>2, <1>4 DEF InsertedInv, RemovedBy
<1>5. ASSUME NEW r \in Request, RemoveOldToken(r),
             mem[r] \in Memory, mem[r].user \in User, mem[r].old = session[mem[r].user],
             session' = [session EXCEPT ![mem[r].user] = None], Created' = Created
      PROVE  InsertedInv'
    <2>1. mem' = mem /\ mem[r] # None
        BY <1>5, NoneAssumption DEF RemoveOldToken
    <2>2. ASSUME NEW q \in Request, q \in Created, mem[q].user = mem[r].user
          PROVE  \E s \in Request : mem'[s] # None /\ mem'[s].old = q
        <3>1. CASE session[mem[q].user] = q
            BY <1>5, <2>1, <2>2, <3>1
        <3> QED
            BY <1>3, <2>2, <3>1
    <2>3. ASSUME NEW q \in Request, q \in Created, mem[q].user # mem[r].user
          PROVE  session'[mem'[q].user] = q \/ \E s \in Request : mem'[s] # None /\ mem'[s].old = q
        <3>1. session'[mem[q].user] = session[mem[q].user]
            BY <1>5, <1>t, <2>3 DEF TypeOK
        <3> QED
            BY <1>2, <2>3, <3>1
    <2> QED
        BY <1>5, <2>2, <2>3 DEF InsertedInv, RemovedBy
<1>6. ASSUME NEW r \in Request, Created' = Created \cup {r}, mem' = mem,
             mem[r].user \in User, session[mem[r].user] = None,
             session' = [session EXCEPT ![mem[r].user] = r]
      PROVE  InsertedInv'
    <2>1. session'[mem[r].user] = r
        BY <1>6, <1>t DEF TypeOK
    <2>2. ASSUME NEW q \in Request, q \in Created, mem[q].user = mem[r].user
          PROVE  \E s \in Request : mem'[s] # None /\ mem'[s].old = q
        <3>1. session[mem[q].user] # q
            BY <1>6, <2>2, SessionsAssumption
        <3> QED
            BY <1>3, <2>2, <3>1
    <2>3. ASSUME NEW q \in Request, q \in Created, mem[q].user # mem[r].user
          PROVE  session'[mem'[q].user] = q \/ \E s \in Request : mem'[s] # None /\ mem'[s].old = q
        <3>1. session'[mem[q].user] = session[mem[q].user]
            BY <1>6, <1>t, <2>3 DEF TypeOK
        <3> QED
            BY <1>2, <2>3, <3>1
    <2> QED
        BY <1>6, <2>1, <2>2, <2>3 DEF InsertedInv, RemovedBy
<1> QED
    BY <1>4, <1>5, <1>6, TokenSteps

\* Who empties an account's place is about to fill it, or found it expired.
LEMMA ExplainedStep == JInv /\ [Next]_vars => ExplainedInv'
<1> SUFFICES ASSUME JInv, [Next]_vars PROVE ExplainedInv'
    OBVIOUS
<1> USE DEF Goto
<1>t. IInv /\ TypeOK /\ HandlerInv /\ WayInv /\ ExplainedInv
    BY DEF JInv, IInv
<1>1. ASSUME NEW r \in Request, Reading(r) PROVE ExplainedInv'
    <2>1. /\ account' = account /\ session' = session /\ pc[r] \in {"new", "lookup"}
          /\ \E l \in (InFlight \cup Ended) \ {"done"} : pc' = [pc EXCEPT ![r] = l]
          /\ \E m \in Memory \cup {None} : mem' = [mem EXCEPT ![r] = m]
        BY <1>t, <1>1, ReadingKeeps
    <2>2. \A q \in Request \ {r} : pc'[q] = pc[q] /\ mem'[q] = mem[q]
        BY <1>t, <2>1 DEF TypeOK
    <2>3. ASSUME NEW u \in User, Explained(u)
          PROVE  \E q \in Request :
                    /\ mem'[q] # None /\ mem'[q].user = u /\ mem'[q].op \in Issuing
                    /\ \/ pc'[q] \in {"issue", "failed"}
                       \/ pc'[q] = "rejected" /\ mem'[q].op = "refresh"
        <3>1. PICK q \in Request :
                    /\ mem[q] # None /\ mem[q].user = u /\ mem[q].op \in Issuing
                    /\ \/ pc[q] \in {"issue", "failed"}
                       \/ pc[q] = "rejected" /\ mem[q].op = "refresh"
            BY <2>3 DEF Explained
        <3>2. q # r
            BY <2>1, <3>1
        <3> QED
            BY <2>2, <3>1, <3>2
    <2> QED
        BY <1>t, <2>1, <2>3 DEF ExplainedInv, Explained
<1>2. ASSUME NEW r \in Request, Insert(r) PROVE ExplainedInv'
    <2>1. /\ mem[r] \in Memory /\ mem[r].user = r /\ mem[r].op \in Issuing /\ pc[r] = "insert"
          /\ mem' = mem /\ session' = session
          /\ \A u \in User : u # r => account'[u] = account[u]
        BY <1>t, <1>2 DEF Insert, HandlerInv, InFlight, TypeOK
    <2>2. pc'[r] = "issue" /\ \A q \in Request : q # r => pc'[q] = pc[q]
        BY <1>t, <1>2 DEF Insert, TypeOK
    <2> QED
        BY <1>t, <2>1, <2>2, NoneAssumption DEF ExplainedInv, Explained
<1>3. ASSUME NEW r \in Request, RemoveOldToken(r) PROVE ExplainedInv'
    <2>1. /\ mem[r] \in Memory /\ mem[r].op \in Issuing /\ pc[r] \in {"drop", "discard"}
          /\ pc[r] = "discard" => mem[r].op = "refresh"
          /\ mem' = mem /\ account' = account
        BY <1>t, <1>3 DEF RemoveOldToken, HandlerInv, InFlight, WayInv
    <2>2. /\ pc'[r] = IF pc[r] = "drop" THEN "issue" ELSE "rejected"
          /\ \A q \in Request : q # r => pc'[q] = pc[q]
        BY <1>t, <1>3 DEF RemoveOldToken, TypeOK
    <2>3. \A u \in User : u # mem[r].user => session'[u] = session[u]
        BY <1>t, <1>3 DEF RemoveOldToken, TypeOK
    <2> QED
        BY <1>t, <2>1, <2>2, <2>3, NoneAssumption DEF ExplainedInv, Explained
<1>4. ASSUME NEW r \in Request, Issue(r) PROVE ExplainedInv'
    <2>1. /\ mem[r] \in Memory /\ mem[r].user \in User /\ pc[r] = "issue"
          /\ mem' = mem /\ account' = account
        BY <1>t, <1>4 DEF Issue, HandlerInv, InFlight, Memory
    <2>2. session'[mem[r].user] # None
        BY <1>t, <1>4, <2>1, SessionsAssumption DEF Issue, TypeOK
    <2>3. /\ \A q \in Request : q # r => pc'[q] = pc[q]
          /\ \A u \in User : u # mem[r].user => session'[u] = session[u]
        BY <1>t, <1>4 DEF Issue, TypeOK
    <2> QED
        BY <1>t, <2>1, <2>2, <2>3 DEF ExplainedInv, Explained
<1>5. ASSUME NEW r \in Request, SaveUser(r) \/ SoftRemove(r) PROVE ExplainedInv'
    <2>1. /\ mem[r].user \in User /\ account[mem[r].user] # None /\ pc[r] \in {"save", "softRemove"}
          /\ mem' = mem /\ session' = session
        BY <1>t, <1>5 DEF SaveUser, SoftRemove, HandlerInv, InFlight, Memory
    <2>2. \A u \in User : account[u] = None => account'[u] = None
        BY <1>t, <1>5, <2>1 DEF SaveUser, SoftRemove, TypeOK
    <2>3. \A q \in Request : q # r => pc'[q] = pc[q]
        BY <1>t, <1>5 DEF SaveUser, SoftRemove, TypeOK
    <2> QED
        BY <1>t, <2>1, <2>2, <2>3 DEF ExplainedInv, Explained
<1>6. ASSUME NEW r \in Request, Refused(r) PROVE ExplainedInv'
    <2>1. /\ mem' = mem /\ session' = session /\ account' = account
          /\ pc[r] \in {"insert", "save"} \/ session[mem[r].user] # None
          /\ pc[r] \in {"insert", "save", "issue"}
        BY <1>6 DEF Refused
    <2>2. \A q \in Request : q # r => pc'[q] = pc[q]
        BY <1>t, <1>6 DEF Refused, TypeOK
    <2> QED
        BY <1>t, <2>1, <2>2 DEF ExplainedInv, Explained
<1>7. ASSUME NEW r \in Request, Fail(r) PROVE ExplainedInv'
    <2>1. /\ mem' = mem /\ session' = session /\ account' = account
          /\ pc'[r] = "failed" /\ \A q \in Request : q # r => pc'[q] = pc[q]
          /\ pc[r] \notin {"failed", "rejected"}
        BY <1>t, <1>7 DEF Fail, TypeOK, InFlight
    <2> QED
        BY <1>t, <2>1 DEF ExplainedInv, Explained
<1>8. ASSUME NEW t \in Token, Expire(t) PROVE ExplainedInv'
    BY <1>t, <1>8 DEF Expire, ExplainedInv, Explained
<1>9. CASE UNCHANGED vars
    BY <1>t, <1>9 DEF vars, ExplainedInv, Explained
<1> QED
    BY <1>1, <1>2, <1>3, <1>4, <1>5, <1>6, <1>7, <1>8, <1>9 DEF Next, Reading

\* The invariant of the lemmas above.
LEMMA SessionsInvariance == Spec => []JInv
<1>1. JInv /\ [Next]_vars => JInv'
    BY TypeStep, HandlerStep, SessionStep, WayStep, UpToDateStep, OwnersStep, InsertedStep, ExplainedStep
       DEF JInv, IInv
<1> QED
    BY InitJInv, <1>1, PTL DEF Spec
-----------------------------------------------------------------------------
(***************************************************************************)
(* When all requests ended, an account without a session is one on which   *)
(* a login, a refresh or a registration failed half-way, or whose token    *)
(* had expired: races between removals and inserts leave none without.     *)
(***************************************************************************)
THEOREM SessionsLostByFailure == Spec => []SessionLostByFailureOnly
<1>1. JInv => SessionLostByFailureOnly
    <2> SUFFICES ASSUME JInv, Quiet, NEW u \in User, account[u] # None, session[u] = None
                 PROVE  \E r \in Request :
                            /\ mem[r] # None /\ mem[r].user = u /\ mem[r].op \in Issuing
                            /\ \/ pc[r] = "failed"
                               \/ pc[r] = "rejected" /\ mem[r].op = "refresh"
        BY DEF SessionLostByFailureOnly
    <2> QED
        BY DEF JInv, ExplainedInv, Explained, Quiet, Ended
<1> QED
    BY <1>1, SessionsInvariance, PTL

(***************************************************************************)
(* Two refreshes that both succeed with one token, each with a new one:    *)
(* then a third request removed what the first had inserted, whatever the  *)
(* number of requests.  The first's token was inserted, so it is there or  *)
(* was read by who removed it, and the second found the place empty.       *)
(***************************************************************************)
THEOREM RotationsAreOvertaken == Spec => []RotatedOnceUnlessOvertaken
<1>1. JInv => RotatedOnceUnlessOvertaken
    <2> SUFFICES ASSUME JInv, NEW q \in Request, NEW r \in Request,
                        q # r, pc[q] = "done", pc[r] = "done",
                        mem[q].op = "refresh", mem[r].op = "refresh", mem[q].old = mem[r].old
                 PROVE  \E s \in Request \ {q, r} : mem[s] # None /\ mem[s].old \in {q, r}
        BY DEF RotatedOnceUnlessOvertaken
    <2>t. HandlerInv /\ WayInv /\ OwnersInv /\ InsertedInv
        BY DEF JInv, IInv
    <2> DEFINE t == mem[q].old
    <2>1. mem[q] \in Memory /\ mem[r] \in Memory
        BY <2>t DEF HandlerInv
    <2>2. q \in Created /\ r \in Created
        BY DEF Created, Issuing
    <2>3. mem[q] # None /\ mem[r] # None /\ t # None
        BY <2>1, <2>t, NoneAssumption DEF WayInv
    <2>4. t # q /\ t # r /\ mem[q].user = Whose(t) /\ mem[r].user = Whose(t)
        BY <2>3, <2>t DEF OwnersInv
    <2>5. \E x \in {q, r} : RemovedBy(x)
        BY <2>2, <2>4, <2>t DEF InsertedInv
    <2> QED
        BY <2>4, <2>5 DEF RemovedBy
<1> QED
    BY <1>1, SessionsInvariance, PTL

(***************************************************************************)
(* A decision on an account, its role or its removal, is undone only by a  *)
(* request that read the account before the decision was saved.            *)
(***************************************************************************)
THEOREM DecisionsLast == Spec => DecisionsOnAccountsLast
<1>1. JInv /\ [Next]_vars =>
          [\A r \in Request : pc[r] \in InFlight /\ pc'[r] = "done" /\ Reverts(r) => r \in stale]_vars
    <2> SUFFICES ASSUME JInv, Next, NEW r \in Request,
                        pc[r] \in InFlight, pc'[r] = "done", Reverts(r), r \notin stale
                 PROVE  FALSE
        BY DEF vars
    <2> USE DEF Goto
    <2>t. IInv /\ TypeOK /\ HandlerInv /\ SessionInv /\ UpToDate
        BY DEF JInv, IInv
    <2>m. pc[r] # "insert" => mem[r].user \in User /\ account[mem[r].user] \in Row
        BY <2>t DEF HandlerInv, Memory, TypeOK
    <2>n. session[mem[r].user] # r \/ mem[r].user \notin User
        BY <2>t, SessionsAssumption DEF SessionInv, Created, InFlight
    <2>1. ASSUME Issue(r) PROVE FALSE
        BY <2>1, <2>t DEF Issue, UpToDate, Reverts
    <2>2. ASSUME SaveUser(r) PROVE FALSE
        <3>1. /\ account'[mem[r].user] = mem[r].row /\ pc[r] = "save"
            BY <2>2, <2>t, <2>m DEF SaveUser, TypeOK
        <3> QED
            BY <2>t, <3>1 DEF UpToDate, Reverts
    <2>3. ASSUME SoftRemove(r) PROVE FALSE
        <3>1. /\ account'[mem[r].user] = [account[mem[r].user] EXCEPT !.removed = TRUE]
              /\ account[mem[r].user] \in Row /\ mem[r].user \in User /\ session' = session
            BY <2>3, <2>t, <2>m DEF SoftRemove, TypeOK
        <3>2. account'[mem[r].user].role = account[mem[r].user].role /\ account'[mem[r].user].removed
            BY <3>1 DEF Row
        <3> QED
            BY <2>n, <3>1, <3>2 DEF Reverts
    <2>4. ASSUME NEW q \in Request, Reading(q) PROVE FALSE
        <3>1. \E l \in (InFlight \cup Ended) \ {"done"} : pc' = [pc EXCEPT ![q] = l]
            BY <2>4, <2>t, ReadingKeeps
        <3> QED
            BY <2>t, <3>1 DEF TypeOK, InFlight
    <2>5. ASSUME NEW q \in Request,
                 \/ Insert(q) \/ RemoveOldToken(q) \/ Refused(q) \/ Fail(q)
                 \/ q # r /\ (Issue(q) \/ SaveUser(q) \/ SoftRemove(q))
          PROVE  FALSE
        BY <2>5, <2>t DEF Insert, RemoveOldToken, Refused, Fail, Issue, SaveUser, SoftRemove,
                          TypeOK, InFlight
    <2>6. ASSUME pc' = pc PROVE FALSE
        BY <2>6 DEF InFlight
    <2> QED
        BY <2>1, <2>2, <2>3, <2>4, <2>5, <2>6 DEF Next, Reading, Expire, vars
<1> QED
    BY <1>1, SessionsInvariance, PTL DEF Spec, DecisionsOnAccountsLast
=============================================================================
