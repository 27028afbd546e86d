----------------------------- MODULE MCSessions -----------------------------
(* Values for the constants of ClientSession: a user with two tabs open on   *)
(* one login, and another user who can sign in.                              *)
EXTENDS ClientSession

CONSTANTS u1, u2, t1, t2

MCUser == {u1, u2}
MCTab  == {t1, t2}
MCOpeningStatus == [u \in MCUser |-> IF u = u1 THEN "ACTIVE" ELSE "NONE"]

Asks(a, b, c) == <<a, b, c>>
Any == {"login", "logout", "api"}

\* Two calls of any kind while an account changes or something goes wrong, or
\* three of which two use the API, with one mishap or none.
MCPlans == {[asks |-> Asks(Any, Any, {}), edits |-> 1, mishaps |-> 0],
            [asks |-> Asks(Any, Any, {}), edits |-> 0, mishaps |-> 1],
            [asks |-> Asks({"api"}, {"api", "logout"}, {}), edits |-> 1, mishaps |-> 1],
            [asks |-> Asks({"api"}, {"api"}, {"api"}), edits |-> 0, mishaps |-> 1],
            [asks |-> Asks({"api"}, {"api"}, {"login", "logout"}), edits |-> 0, mishaps |-> 0]}
=============================================================================
