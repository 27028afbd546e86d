------------------------------ MODULE Accounts ------------------------------
(***************************************************************************)
(* What UsersService and AuthService promise about an account: a pair of    *)
(* tokens is granted only while the account is ACTIVE, and a refresh grants *)
(* one only to a session that a login has opened and that no logout and no  *)
(* deactivation has closed since.  Requests, tokens in transit and tabs are *)
(* not visible here.                                                        *)
(***************************************************************************)
EXTENDS Sequences

CONSTANT User

VARIABLES
    status,   \* "NONE" before the account exists
    open,     \* the users with an open session
    grants    \* [user, by]: who got a pair of tokens, by "login" or "refresh"

accountVars == <<status, open, grants>>

SomeAccounts == open \subseteq {u \in User : status[u] = "ACTIVE"}

-----------------------------------------------------------------------------
\* An account appears, or an administrator edits it; its session is untouched.
Edit(u) ==
    /\ \E s \in {"PENDING_APPROVAL", "ACTIVE", "INACTIVE"} :
          status' = [status EXCEPT ![u] = s]
    /\ UNCHANGED <<open, grants>>

Deactivate(u) ==
    /\ status' = [status EXCEPT ![u] = "INACTIVE"]
    /\ open' = open \ {u}
    /\ UNCHANGED grants

Grant(u, by) ==
    /\ status[u] = "ACTIVE"
    /\ by = "refresh" => u \in open
    /\ open' = open \cup {u}
    /\ grants' = Append(grants, [user |-> u, by |-> by])
    /\ UNCHANGED status

Close(u) ==
    /\ open' = open \ {u}
    /\ UNCHANGED <<status, grants>>

Serve == \E u \in User :
    Edit(u) \/ Deactivate(u) \/ Close(u) \/ (\E by \in {"login", "refresh"} : Grant(u, by))

AccountsSpec == SomeAccounts /\ [][Serve]_accountVars
=============================================================================
