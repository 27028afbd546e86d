------------------------------ MODULE Sessions ------------------------------
(***************************************************************************)
(* The API's side of a session: AuthService and UsersService over the users *)
(* table, and the guards in front of them.  A login or a refresh is a read  *)
(* of the user's row and, in a later statement, the store of the new hash;  *)
(* other requests run between the two.                                      *)
(*                                                                          *)
(* A pair of tokens is its index in "issued".  Secrets, payloads and hashes *)
(* are left out: a hash is the pair whose refresh token it was made from.   *)
(***************************************************************************)
EXTENDS Naturals, Sequences

CONSTANTS
    User,
    Tab,            \* every tab has one slot for the refresh it shares
    MaxCalls,       \* how many calls the tabs make
    Plans,          \* what a run allows: [asks, edits, mishaps], the kinds each
                    \* call may have, how many times an account changes, how
                    \* many tokens expire or messages are lost
    Between,        \* what may run between the two statements of a login or
                    \* refresh of the same user: a subset of {"logout", "edit"}
    OpeningStatus

Call == 1 .. MaxCalls
Wire == Call \cup Tab

Status == {"PENDING_APPROVAL", "ACTIVE", "INACTIVE"}
Kind   == {"login", "logout", "api"}

ASSUME SessionsAssumption ==
    /\ MaxCalls \in Nat
    /\ Call \cap Tab = {}
    /\ \A p \in Plans : p.asks \in [Call -> SUBSET Kind]
                        /\ p.edits \in Nat /\ p.mishaps \in Nat
    /\ Between \subseteq {"logout", "edit"}
    /\ OpeningStatus \in [User -> Status \cup {"NONE"}]
    /\ \E u \in User : OpeningStatus[u] = "ACTIVE"

VARIABLES
    status,   \* users.status, "NONE" without a row
    stored,   \* users.hashed_refresh_token: a pair, or 0 for null
    issued,   \* [user, by, age] of every pair; age 1: its access token has
              \* expired, age 2: its refresh token too
    req,      \* what is on each wire
    plan,     \* one of Plans
    edits, mishaps

accounts == <<status, stored, edits>>
serverVars == <<accounts, issued, mishaps, req, plan>>

Granted == [user : User, by : {"login", "refresh"}, age : 0 .. 2]
Pair  == 1 .. Len(issued)
Known == Pair \cup {0}

-----------------------------------------------------------------------------
\* "pair" is the bearer token a request carries (0: none), "user" whom a login
\* names, "got" the pair of its answer; "waiting" is a call whose 401 waits for
\* the refresh of its tab.

Wired == [phase : {"idle", "sent", "checked", "answered", "waiting", "settled"},
          kind : Kind \cup {"none", "refresh"}, tab : Tab \cup {"none"},
          user : User \cup {"none"}, pair : Nat, retried : BOOLEAN,
          answer : {"none", "ok", "401", "403", "failed"}, got : Nat]

Silent == [phase |-> "idle", kind |-> "none", tab |-> "none", user |-> "none",
           pair |-> 0, retried |-> FALSE, answer |-> "none", got |-> 0]

Who(w) == IF req[w].kind = "login" THEN req[w].user ELSE issued[req[w].pair].user

Reply(w, how, n) ==
    req' = [req EXCEPT ![w] =
              [@ EXCEPT !.phase = "answered", !.answer = how, !.got = n]]

Refuse(w, how) == Reply(w, how, 0)

\* The guards check a signature and an expiry, and read no table.
AccessAccepted(n)  == n # 0 /\ issued[n].age = 0
RefreshAccepted(n) == issued[n].age < 2

\* A bug: only the latest refresh token is accepted, whoever asks for it.
MatchesLatest(n, h) == n = h

\* bcrypt reads the first 72 bytes of what it compares: of a token these are
\* the header and the start of the user id.
Matches(n, h) == issued[n].user = issued[h].user

\* What the row must hold for a refresh with the pair n.
\* A bug: the hash is compared only when there is one.
HashOrNone(u, n) == status[u] = "ACTIVE" /\ (stored[u] # 0 => Matches(n, stored[u]))
MayRefresh(u, n) == status[u] = "ACTIVE" /\ stored[u] # 0 /\ Matches(n, stored[u])

Sent(w, kind) == req[w].phase = "sent" /\ req[w].kind = kind

Pass(w) == req' = [req EXCEPT ![w].phase = "checked"]

-----------------------------------------------------------------------------
\* login: the row, the password and the status; a wrong password is a 401.
CheckLogin(w) ==
    /\ Sent(w, "login")
    /\ \/ status[Who(w)] = "ACTIVE" /\ Pass(w)
       \/ status[Who(w)] = "PENDING_APPROVAL" /\ Refuse(w, "403")
       \/ Refuse(w, "401")
    /\ UNCHANGED <<accounts, issued, mishaps, plan>>

\* refresh: the guard, then the row.
CheckRefresh(w) ==
    /\ Sent(w, "refresh")
    /\ LET n == req[w].pair IN
          IF ~RefreshAccepted(n)          THEN Refuse(w, "401")
          ELSE IF MayRefresh(Who(w), n)   THEN Pass(w)
                                          ELSE Refuse(w, "403")
    /\ UNCHANGED <<accounts, issued, mishaps, plan>>

\* Both end alike: a new pair, and its hash in the row, whatever the row holds.
StoreAndIssue(w) ==
    LET n == Len(issued) + 1 IN
    /\ req[w].phase = "checked"
    /\ issued' = Append(issued, [user |-> Who(w), by |-> req[w].kind, age |-> 0])
    /\ stored' = [stored EXCEPT ![Who(w)] = n]
    /\ Reply(w, "ok", n)
    /\ UNCHANGED <<status, edits, mishaps, plan>>

Midway(u) == \E w \in Wire : req[w].phase = "checked" /\ Who(w) = u

Logout(w) ==
    /\ Sent(w, "logout")
    /\ IF AccessAccepted(req[w].pair)
       THEN /\ "logout" \in Between \/ ~Midway(Who(w))
            /\ stored' = [stored EXCEPT ![Who(w)] = 0]
            /\ Reply(w, "ok", 0)
       ELSE Refuse(w, "401") /\ UNCHANGED stored
    /\ UNCHANGED <<status, edits, issued, mishaps, plan>>

\* Any other operation of the API: the guard is all that matters here.
UseApi(w) ==
    /\ Sent(w, "api")
    /\ IF AccessAccepted(req[w].pair) THEN Reply(w, "ok", 0) ELSE Refuse(w, "401")
    /\ UNCHANGED <<accounts, issued, mishaps, plan>>

\* A request or its answer is lost, or its handler throws.
Fail(w) ==
    /\ req[w].phase \in {"sent", "checked", "answered"} /\ req[w].answer # "failed"
    /\ mishaps < plan.mishaps /\ mishaps' = mishaps + 1
    /\ Refuse(w, "failed")
    /\ UNCHANGED <<accounts, issued, plan>>

-----------------------------------------------------------------------------
\* UsersService: each is one statement on a row that is never deleted.

Change(u, s, h) ==
    /\ edits < plan.edits
    /\ "edit" \in Between \/ ~Midway(u)
    /\ edits' = edits + 1
    /\ status' = [status EXCEPT ![u] = s]
    /\ stored' = [stored EXCEPT ![u] = h]
    /\ UNCHANGED <<issued, req, mishaps, plan>>

\* An account comes into being by an insert; an e-mail in use is refused.
Register(u) == status[u] = "NONE" /\ Change(u, "PENDING_APPROVAL", 0)

\* A bug: the schema's default for the status is lost.
CreateWithoutStatus(u) == status[u] = "NONE" /\ Change(u, "null", 0)

\* Without a status in the insert, the schema's default.
Create(u) == status[u] = "NONE" /\ Change(u, "ACTIVE", 0)

Activate(u) == status[u] # "NONE" /\ Change(u, "ACTIVE", stored[u])

\* The body of an update may name any status; the hash stays.
Update(u) ==
    /\ status[u] # "NONE"
    /\ \E s \in Status : Change(u, s, stored[u])

Deactivate(u) == status[u] # "NONE" /\ Change(u, "INACTIVE", 0)

Administer(u) == Register(u) \/ Create(u) \/ Activate(u) \/ Update(u) \/ Deactivate(u)

Answer(w) ==
    CheckLogin(w) \/ CheckRefresh(w) \/ StoreAndIssue(w) \/ Logout(w) \/ UseApi(w)
=============================================================================
