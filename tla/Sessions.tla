------------------------------- MODULE Sessions -------------------------------
(***************************************************************************)
(* Accounts and refresh tokens: src/module/users/users.service.ts with     *)
(* auth.service.ts, the two guards, and the assignment of users to         *)
(* branches in branches.service.ts.  Each operation is a handful of        *)
(* queries outside of any transaction: registering checks the e-mail and   *)
(* inserts later, login and refresh remove the old token and insert a new  *)
(* one, and updates save a whole entity that was read before.  The unique  *)
(* indexes on a user's e-mail and on a token's user are all that orders    *)
(* them.                                                                   *)
(***************************************************************************)
EXTENDS Naturals

CONSTANTS
    Seeded,     \* accounts there are to begin with
    Row0,       \* their rows
    Request,    \* each serves one call; its new account and token bear its name
    Email,
    Change,     \* what an update may ask for: a role, an e-mail, or None of it
    None

Role == {"admin", "manager", "cashier"}
User == Seeded \cup Request
Token == Seeded \cup Request     \* a seeded token bears its account's name
Row == [email : Email, role : Role, removed : BOOLEAN]

ASSUME SessionsAssumption ==
    /\ Seeded \cap Request = {}
    /\ Row0 \in [Seeded -> Row]
    /\ \A u, v \in Seeded : Row0[u].email = Row0[v].email => u = v
    /\ Change \subseteq [role : Role \cup {None}, email : Email \cup {None}]
    /\ None \notin Seeded \cup Request \cup Role \cup Email \cup Row

VARIABLES
    account,    \* users table
    session,    \* auth table: the refresh token of each account
    expired,    \* refresh tokens past their seven days
    badges,     \* access tokens clients hold: the account and role they state
    pc,         \* where each request is
    mem,        \* what it has in memory
    stale       \* history: requests whose account changed since they read it

vars == <<account, session, expired, badges, pc, mem, stale>>

Op == {"register", "login", "refresh", "role", "profile", "assign", "remove"}
Issuing == {"register", "login", "refresh"}
InFlight == {"insert", "lookup", "drop", "discard", "issue", "save", "softRemove"}
Ended == {"done", "rejected", "refused", "failed"}
Memory == [op : Op, user : User, row : Row, old : Token \cup {None}]

ASSUME NoneAssumption == None \notin Memory

TypeOK ==
    /\ account \in [User -> Row \cup {None}]
    /\ session \in [User -> Token \cup {None}]
    /\ expired \subseteq Token
    /\ badges \subseteq [user : User, role : Role]
    /\ pc \in [Request -> {"new"} \cup InFlight \cup Ended]
    /\ mem \in [Request -> Memory \cup {None}]
    /\ stale \subseteq Request

GenerateAccessToken(u, row) == [user |-> u, role |-> row.role]

Init ==
    /\ account = [u \in User |-> IF u \in Seeded THEN Row0[u] ELSE None]
    /\ session = [u \in User |-> IF u \in Seeded THEN u ELSE None]
    /\ expired = {}
    /\ badges = {GenerateAccessToken(u, Row0[u]) : u \in Seeded}
    /\ pc = [r \in Request |-> "new"]
    /\ mem = [r \in Request |-> None]
    /\ stale = {}

Goto(r, l) == pc' = [pc EXCEPT ![r] = l]
Keep(r, op, u, row, old) ==
    mem' = [mem EXCEPT ![r] = [op |-> op, user |-> u, row |-> row, old |-> old]]

\* What TypeORM's find answers: rows without a deletedAt.
Found(u) == account[u] # None /\ ~account[u].removed

\* The guards believe the role the access token states.
Admitted(roles) == \E b \in badges : b.role \in roles

\* Mutated form: the column has no unique index.
EmailNeverTaken(u, e) == FALSE

\* The unique index on the e-mail counts removed rows as well.
EmailTaken(u, e) == \E v \in User \ {u} : account[v] # None /\ account[v].email = e

Readers(u) == {r \in Request : pc[r] \in InFlight /\ mem[r].user = u}

\* Refresh tokens that were inserted at some time.
Created == Seeded \cup {r \in Request : pc[r] = "done" /\ mem[r].op \in Issuing}
-----------------------------------------------------------------------------
(* create *)

RegisterCheck(r) ==
    /\ pc[r] = "new" /\ Admitted({"admin", "manager"})
    /\ \E e \in Email :
        /\ Keep(r, "register", r, [email |-> e, role |-> "cashier", removed |-> FALSE], None)
        /\ Goto(r, IF \E u \in User : Found(u) /\ account[u].email = e
                   THEN "rejected" ELSE "insert")
    /\ UNCHANGED <<account, session, expired, badges, stale>>

Insert(r) ==
    /\ pc[r] = "insert" /\ ~EmailTaken(r, mem[r].row.email)
    /\ account' = [account EXCEPT ![r] = mem[r].row]
    /\ Goto(r, "issue")
    /\ UNCHANGED <<session, expired, badges, mem, stale>>
-----------------------------------------------------------------------------
(* login, refreshtoken *)

\* The user is found and the password compared.
Login(r) ==
    /\ pc[r] = "new"
    /\ \E u \in User, valid \in BOOLEAN :
        /\ account[u] # None
        /\ Keep(r, "login", u, account[u], None)
        /\ Goto(r, IF Found(u) /\ valid THEN "lookup" ELSE "rejected")
    /\ UNCHANGED <<account, session, expired, badges, stale>>

\* The token is looked for by its user, and not found when that was removed.
FindOldToken(r) ==
    LET u == mem[r].user
        old == IF Found(u) THEN session[u] ELSE None
    IN  /\ pc[r] = "lookup"
        /\ mem' = [mem EXCEPT ![r].old = old]
        /\ Goto(r, IF old = None THEN "issue" ELSE "drop")
        /\ UNCHANGED <<account, session, expired, badges, stale>>

Outcome(t, u) ==
    IF t \in expired THEN "discard" ELSE IF Found(u) THEN "drop" ELSE "failed"

\* A token nobody has is rejected; the user of a removed account is null, on
\* which the access token cannot be made.
Refresh(r) ==
    /\ pc[r] = "new"
    /\ \E t \in Created :
        \/ /\ \A u \in User : session[u] # t
           /\ Goto(r, "rejected")
           /\ UNCHANGED mem
        \/ \E u \in User :
               /\ session[u] = t
               /\ Keep(r, "refresh", u, account[u], t)
               /\ Goto(r, Outcome(t, u))
    /\ UNCHANGED <<account, session, expired, badges, stale>>

\* Mutated form: returns early whatever the token's age.
RemoveOnly(r) ==
    LET u == mem[r].user
    IN  /\ pc[r] \in {"drop", "discard"}
        /\ session' = [session EXCEPT ![u] = IF @ = mem[r].old THEN None ELSE @]
        /\ Goto(r, "rejected")
        /\ UNCHANGED <<account, expired, badges, mem, stale>>

\* The row is deleted by its id; if it is gone already nothing happens.
RemoveOldToken(r) ==
    LET u == mem[r].user
    IN  /\ pc[r] \in {"drop", "discard"}
        /\ session' = [session EXCEPT ![u] = IF @ = mem[r].old THEN None ELSE @]
        /\ Goto(r, IF pc[r] = "drop" THEN "issue" ELSE "rejected")
        /\ UNCHANGED <<account, expired, badges, mem, stale>>

\* Mutated form: the insert replaces the token of a request that was faster.
IssueOver(r) ==
    LET u == mem[r].user
    IN  /\ pc[r] = "issue"
        /\ session' = [session EXCEPT ![u] = r]
        /\ badges' = badges \cup {GenerateAccessToken(u, mem[r].row)}
        /\ Goto(r, "done")
        /\ UNCHANGED <<account, expired, mem, stale>>

\* authService.create, and the answer with both tokens.
Issue(r) ==
    LET u == mem[r].user
    IN  /\ pc[r] = "issue" /\ session[u] = None
        /\ session' = [session EXCEPT ![u] = r]
        /\ badges' = badges \cup {GenerateAccessToken(u, mem[r].row)}
        /\ Goto(r, "done")
        /\ UNCHANGED <<account, expired, mem, stale>>

Expire(t) ==
    /\ t \in Created \ expired
    /\ expired' = expired \cup {t}
    /\ UNCHANGED <<account, session, badges, pc, mem, stale>>
-----------------------------------------------------------------------------
(* updateRole, updateProfile, remove *)

\* Mutated form: what the DTO leaves out is assigned as well.
AssignedRaw(row, c) == [row EXCEPT !.role = c.role, !.email = c.email]

\* Object.assign of the DTO to the entity that was read.
Assigned(row, c) ==
    [row EXCEPT !.role = IF c.role = None THEN @ ELSE c.role,
                !.email = IF c.email = None THEN @ ELSE c.email]

UpdateRole(r) ==
    /\ pc[r] = "new" /\ Admitted({"admin"})
    /\ \E u \in User, c \in Change :
        /\ Found(u)
        /\ Keep(r, "role", u, Assigned(account[u], c), None)
        /\ Goto(r, "save")
    /\ UNCHANGED <<account, session, expired, badges, stale>>

\* Mutated form: the attempt to change the own role is logged, not refused.
UpdateProfileWithRole(r) ==
    /\ pc[r] = "new"
    /\ \E b \in badges, c \in Change :
        /\ Found(b.user)
        /\ Keep(r, "profile", b.user, Assigned(account[b.user], c), None)
        /\ Goto(r, "save")
    /\ UNCHANGED <<account, session, expired, badges, stale>>

UpdateProfile(r) ==
    /\ pc[r] = "new"
    /\ \E b \in badges, c \in Change :
        /\ Found(b.user)
        /\ Keep(r, "profile", b.user, Assigned(account[b.user], c), None)
        /\ Goto(r, IF c.role = None THEN "save" ELSE "rejected")
    /\ UNCHANGED <<account, session, expired, badges, stale>>

\* The branch is not modelled; the rest of the entity is saved as it was read.
AssignUserToBranch(r) ==
    /\ pc[r] = "new" /\ Admitted({"admin"})
    /\ \E u \in User, role \in {"manager", "cashier"} :
        /\ Found(u)
        /\ Keep(r, "assign", u, account[u], None)
        /\ Goto(r, IF account[u].role = role THEN "save" ELSE "rejected")
    /\ UNCHANGED <<account, session, expired, badges, stale>>

\* save writes every column that differs from the row back, deletedAt included.
SaveUser(r) ==
    LET u == mem[r].user
    IN  /\ pc[r] = "save" /\ ~EmailTaken(u, mem[r].row.email)
        /\ account' = [account EXCEPT ![u] = mem[r].row]
        /\ stale' = stale \cup (Readers(u) \ {r})
        /\ Goto(r, "done")
        /\ UNCHANGED <<session, expired, badges, mem>>

RemoveLoad(r) ==
    /\ pc[r] = "new" /\ Admitted({"admin"})
    /\ \E u \in User :
        /\ Found(u)
        /\ Keep(r, "remove", u, account[u], None)
        /\ Goto(r, "softRemove")
    /\ UNCHANGED <<account, session, expired, badges, stale>>

SoftRemove(r) ==
    LET u == mem[r].user
    IN  /\ pc[r] = "softRemove"
        /\ account' = [account EXCEPT ![u].removed = TRUE]
        /\ stale' = stale \cup (Readers(u) \ {r})
        /\ Goto(r, "done")
        /\ UNCHANGED <<session, expired, badges, mem>>
-----------------------------------------------------------------------------
\* A unique index refuses the row: the handler throws.
Refused(r) ==
    /\ \/ pc[r] \in {"insert", "save"} /\ EmailTaken(mem[r].user, mem[r].row.email)
       \/ pc[r] = "issue" /\ session[mem[r].user] # None
    /\ Goto(r, "refused")
    /\ UNCHANGED <<account, session, expired, badges, mem, stale>>

\* A query fails or the process dies: what was saved stays.
Fail(r) ==
    /\ pc[r] \in InFlight
    /\ Goto(r, "failed")
    /\ UNCHANGED <<account, session, expired, badges, mem, stale>>

Quiet == \A r \in Request : pc[r] \in Ended

Next ==
    \/ \E r \in Request :
          \/ RegisterCheck(r) \/ Insert(r)
          \/ Login(r) \/ FindOldToken(r)
          \/ Refresh(r) \/ RemoveOldToken(r) \/ Issue(r)
          \/ UpdateRole(r) \/ UpdateProfile(r) \/ AssignUserToBranch(r) \/ SaveUser(r)
          \/ RemoveLoad(r) \/ SoftRemove(r)
          \/ Refused(r) \/ Fail(r)
    \/ \E t \in Token : Expire(t)
    \/ Quiet /\ UNCHANGED vars

Spec == Init /\ [][Next]_vars
-----------------------------------------------------------------------------
(***************************************************************************)
(* The rows of the auth table are refresh tokens as clients expect them.   *)
(* The tokens that were inserted and are no row's any more are the spent   *)
(* ones.                                                                   *)
(***************************************************************************)
Tokens == INSTANCE RefreshTokens WITH
    current <- session,
    spent <- Created \ {session[u] : u \in User}

TokensKeepTheirPromise == Tokens!Spec

(***************************************************************************)
(* Nobody loses the session by racing against himself: a request that      *)
(* removes a token inserts another unless somebody else just did.  When    *)
(* all requests ended, only an account a request of which failed half-way, *)
(* or found its token expired, is without one.                             *)
(***************************************************************************)
SessionLostByFailureOnly ==
    Quiet =>
        \A u \in User :
            account[u] # None /\ session[u] = None =>
                \E r \in Request :
                    /\ mem[r] # None /\ mem[r].user = u /\ mem[r].op \in Issuing
                    /\ \/ pc[r] = "failed"
                       \/ pc[r] = "rejected" /\ mem[r].op = "refresh"

(***************************************************************************)
(* A refresh token is rotated once, as the comment in refreshtoken says,   *)
(* unless a third request removed what the first rotation had inserted     *)
(* before the second one inserted its own.                                 *)
(***************************************************************************)
RotatedOnceUnlessOvertaken ==
    \A q, r \in Request :
        /\ q # r /\ pc[q] = "done" /\ pc[r] = "done"
        /\ mem[q].op = "refresh" /\ mem[r].op = "refresh"
        /\ mem[q].old = mem[r].old
        => \E s \in Request \ {q, r} : mem[s] # None /\ mem[s].old \in {q, r}

(***************************************************************************)
(* An account's role changes by updateRole only, and a removed account     *)
(* stays removed and gets no session, unless the request read the account  *)
(* before somebody else changed it: save then writes the old role and the  *)
(* null deletedAt back.                                                    *)
(***************************************************************************)
Reverts(r) ==
    LET u == mem[r].user
    IN  /\ account[u] # None
        /\ \/ mem[r].op # "role" /\ account'[u].role # account[u].role
           \/ account[u].removed /\ ~account'[u].removed
           \/ account[u].removed /\ session'[u] = r

DecisionsOnAccountsLast ==
    [][\A r \in Request : pc[r] \in InFlight /\ pc'[r] = "done" /\ Reverts(r)
           => r \in stale]_vars

(***************************************************************************)
(* Two accounts never have the same e-mail, so that login finds the one,   *)
(* however registrations, changes of e-mail, removals and restores by a    *)
(* stale save interleave: they all check an e-mail before they save, if at *)
(* all.                                                                    *)
(***************************************************************************)
EmailsDiffer ==
    \A u, v \in User :
        account[u] # None /\ account[v] # None /\ account[u].email = account[v].email => u = v
=============================================================================
