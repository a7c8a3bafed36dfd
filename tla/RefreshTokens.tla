---------------------------- MODULE RefreshTokens ----------------------------
(***************************************************************************)
(* What clients may rely on about refresh tokens, whatever happens between *)
(* the queries that rotate them: an account has one token at most, a token *)
(* is issued once, to one account, and once spent is never good again.     *)
(***************************************************************************)
CONSTANTS
    User,
    Token,
    None

VARIABLES
    current,    \* the token an account can be refreshed with
    spent       \* tokens that were good once

Init ==
    /\ current \in [User -> Token \cup {None}]
    /\ \A u, v \in User : u # v => current[u] = None \/ current[u] # current[v]
    /\ spent = {}

Issue(u, t) ==
    /\ current[u] = None
    /\ t \notin spent
    /\ \A v \in User : current[v] # t
    /\ current' = [current EXCEPT ![u] = t]
    /\ UNCHANGED spent

Spend(u) ==
    /\ current[u] # None
    /\ spent' = spent \cup {current[u]}
    /\ current' = [current EXCEPT ![u] = None]

Next == \E u \in User : Spend(u) \/ \E t \in Token : Issue(u, t)

Spec == Init /\ [][Next]_<<current, spent>>
=============================================================================
