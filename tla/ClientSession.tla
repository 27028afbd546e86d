--------------------------- MODULE ClientSession ---------------------------
(***************************************************************************)
(* The browser's side of a session, composed with the API's: the token      *)
(* store, the interceptors of AXIOS_INSTANCE with the refresh that          *)
(* concurrent 401s of a tab share, and AuthProvider's hasToken.  A tab runs *)
(* one callback at a time; a resolved promise and what awaits it are one    *)
(* step, since nothing else of the tab comes between them.                  *)
(***************************************************************************)
EXTENDS Sessions

CONSTANT
    SignedIn   \* the tabs that start with the pair of an opening login

ASSUME ClientAssumption == SignedIn \subseteq Tab

VARIABLES
    tokens,   \* memory: the pair a tab holds, or 0
    saved,    \* the pair under iws.tokens in localStorage, or 0
    shown     \* hasToken of the tab's AuthProvider

client == <<tokens, saved, shown>>
vars == <<serverVars, client>>

Refreshing(t) == req[t].phase # "idle"

Waiting(t) == {c \in Call : req[c].phase = "waiting" /\ req[c].tab = t}

Settled == [Silent EXCEPT !.phase = "settled"]

\* Only what a later property asks of a call is remembered.
Outcome(c) == [Settled EXCEPT !.kind = req[c].kind]

-----------------------------------------------------------------------------
\* What a callback may do to the tokens and the view of its tab.

\* tokenStore.set, and clear with n = 0: localStorage is shared by the tabs.
SetTokens(t, n) == tokens' = [tokens EXCEPT ![t] = n] /\ saved' = n

\* A bug: the event of emitLogout reaches nobody.
ClearUnseen(t) == SetTokens(t, 0) /\ UNCHANGED shown

EmitLogout(t) == SetTokens(t, 0) /\ shown' = [shown EXCEPT ![t] = FALSE]

\* A call is sent with the access token the tab holds, a login too.  Calls are
\* alike, so they are made in the order of their numbers.
Send(c) ==
    \E t \in Tab, k \in plan.asks[c] :
    \E u \in IF k = "login" THEN User ELSE {"none"} :
        /\ req[c].phase = "idle"
        /\ \A d \in 1 .. (c - 1) : req[d].phase # "idle"
        /\ k = "logout" => shown[t]
        /\ req' = [req EXCEPT ![c] = [Silent EXCEPT !.phase = "sent", !.kind = k,
                                         !.tab = t, !.user = u, !.pair = tokens[t]]]
        /\ UNCHANGED <<accounts, issued, mishaps, plan, client>>

Arrived(c) == c \in Call /\ req[c].phase = "answered"

\* A 401 of a call that was not retried yet awaits the refresh of its tab,
\* which it starts when none is there; without tokens there is none to start.
AwaitRefresh(c) ==
    LET t == req[c].tab
        waiting == [req EXCEPT ![c] = [@ EXCEPT !.phase = "waiting", !.retried = TRUE,
                                                !.answer = "none", !.pair = 0]]
    IN  /\ Arrived(c) /\ req[c].answer = "401" /\ ~req[c].retried
        /\ \/ Refreshing(t) /\ req' = waiting /\ UNCHANGED client
           \/ /\ ~Refreshing(t) /\ tokens[t] # 0
              /\ req' = [waiting EXCEPT ![t] = [Silent EXCEPT !.phase = "sent",
                            !.kind = "refresh", !.tab = t, !.pair = tokens[t]]]
              /\ UNCHANGED client
           \/ /\ ~Refreshing(t) /\ tokens[t] = 0
              /\ req' = [req EXCEPT ![c] = Outcome(c)]
              /\ EmitLogout(t)
        /\ UNCHANGED <<accounts, issued, mishaps, plan>>

\* Any other answer settles the call, and its caller acts on it.
Settle(c) ==
    LET t == req[c].tab
        x == req[c]
    IN  /\ Arrived(c) /\ (x.answer # "401" \/ x.retried)
        /\ req' = [req EXCEPT ![c] = Outcome(c)]
        /\ \/ (x.answer = "401" \/ x.kind = "logout") /\ EmitLogout(t)
           \/ /\ x.kind = "login" /\ x.answer = "ok"
              /\ SetTokens(t, x.got)
              /\ shown' = [shown EXCEPT ![t] = TRUE]
           \/ /\ x.answer # "401" /\ x.kind # "logout"
              /\ ~(x.kind = "login" /\ x.answer = "ok")
              /\ UNCHANGED client
        /\ UNCHANGED <<accounts, issued, mishaps, plan>>

\* A bug: only the call that started the refresh is sent again.
OneWaiter(t) == IF Waiting(t) = {} THEN {}
                ELSE {CHOOSE c \in Waiting(t) : \A d \in Waiting(t) : c <= d}

\* The calls a settled refresh resumes.
Resumed(t) == Waiting(t)

\* A bug: a call is sent again as it was, with the token it had.
OldToken(t) == tokens[t]

\* The token the request interceptor finds when a call is sent again.
NewToken(t) == req[t].got

\* The refresh succeeded: the new pair is kept and the calls are sent again.
Rotate(t) ==
    /\ req[t].phase = "answered" /\ req[t].answer = "ok"
    /\ SetTokens(t, req[t].got)
    /\ req' = [w \in Wire |->
                 IF w = t THEN Silent
                 ELSE IF w \in Resumed(t)
                      THEN [req[w] EXCEPT !.phase = "sent", !.pair = NewToken(t)]
                      ELSE req[w]]
    /\ UNCHANGED <<accounts, issued, mishaps, plan, shown>>

\* It did not: the tab is signed out and the calls are rejected.
GiveUp(t) ==
    /\ req[t].phase = "answered" /\ req[t].answer # "ok"
    /\ EmitLogout(t)
    /\ req' = [w \in Wire |->
                 IF w = t THEN Silent
                 ELSE IF w \in Resumed(t) THEN Outcome(w) ELSE req[w]]
    /\ UNCHANGED <<accounts, issued, mishaps, plan>>

\* The tab is loaded anew; its calls are over by then.
Reload(t) ==
    /\ ~Refreshing(t)
    /\ \A c \in Call : req[c].tab = t => req[c].phase = "settled"
    /\ tokens' = [tokens EXCEPT ![t] = saved]
    /\ shown' = [shown EXCEPT ![t] = saved # 0]
    /\ UNCHANGED <<serverVars, saved>>

-----------------------------------------------------------------------------
\* The pairs whose age still matters.
Held == {saved} \cup {tokens[t] : t \in Tab} \cup {req[w].pair : w \in Wire}
                \cup {req[w].got : w \in Wire}

\* An access token lives longer than the round trip that first uses it.
OnFirstTrip(n) ==
    \/ \E c \in Call : req[c].phase = "sent" /\ req[c].retried /\ req[c].pair = n
    \/ \E t \in Tab : req[t].got = n

Expire(n) ==
    /\ n \in Held /\ issued[n].age < 2
    /\ ~OnFirstTrip(n)
    /\ mishaps < plan.mishaps /\ mishaps' = mishaps + 1
    /\ issued' = [issued EXCEPT ![n].age = @ + 1]
    /\ UNCHANGED <<accounts, plan, req, client>>

Deliver(w) ==
    \/ AwaitRefresh(w) \/ Settle(w)
    \/ w \in Tab /\ (Rotate(w) \/ GiveUp(w))

\* Every call is over; tabs may still be loaded anew.
Quiet == (\A c \in Call : req[c].phase \in {"idle", "settled"}) /\ UNCHANGED vars

Init ==
    LET n == IF SignedIn = {} THEN 0 ELSE 1
        u == CHOOSE v \in User : OpeningStatus[v] = "ACTIVE"
    IN  /\ status = OpeningStatus
        /\ \E a \in 0 .. 1 :
              issued = IF n = 0 THEN <<>> ELSE <<[user |-> u, by |-> "login", age |-> a]>>
        /\ stored = [v \in User |-> IF v = u THEN n ELSE 0]
        /\ tokens = [t \in Tab |-> IF t \in SignedIn THEN 1 ELSE 0]
        /\ saved = n
        /\ shown = [t \in Tab |-> t \in SignedIn]
        /\ req = [w \in Wire |-> Silent]
        /\ edits = 0 /\ mishaps = 0 /\ plan \in Plans

Next ==
    \/ \E c \in Call : Send(c)
    \/ \E w \in Wire : (Answer(w) \/ Fail(w)) /\ UNCHANGED client
    \/ \E w \in Wire : Deliver(w)
    \/ \E u \in User : Administer(u) /\ UNCHANGED client
    \/ \E t \in Tab : Reload(t)
    \/ \E n \in Pair : Expire(n)
    \/ Quiet

\* The API answers what reaches it and a tab runs the callbacks it is due.
Spec ==
    /\ Init /\ [][Next]_vars
    /\ \A w \in Wire : WF_vars(Answer(w) /\ UNCHANGED client) /\ WF_vars(Deliver(w))

-----------------------------------------------------------------------------
\* The users table, the tokens and the requests keep their types.
TypeOK ==
    /\ status \in [User -> Status \cup {"NONE"}]
    /\ stored \in [User -> Known]
    /\ issued \in Seq(Granted)
    /\ plan \in Plans /\ edits \in 0 .. plan.edits /\ mishaps \in 0 .. plan.mishaps
    /\ tokens \in [Tab -> Known] /\ saved \in Known
    /\ shown \in [Tab -> BOOLEAN]
    /\ req \in [Wire -> Wired]
    /\ \A w \in Wire : req[w].pair \in Known /\ req[w].got \in Known

(***************************************************************************)
(* A call that waited for a refresh is sent with the rotated token, however *)
(* many 401s shared the refresh and whatever else the tab did meanwhile     *)
(* (axios.ts:62-112): it is not answered 401 again.                         *)
(***************************************************************************)
RetryCarriesFreshToken ==
    \A c \in Call : req[c].phase = "answered" /\ req[c].retried /\ req[c].kind # "login"
                        => req[c].answer # "401"

(***************************************************************************)
(* AuthProvider never shows a session whose tokens are gone: every place    *)
(* that clears the store, in whichever callback, also reaches hasToken      *)
(* (axios.ts:57-60, auth-context.tsx:52-76).                                *)
(***************************************************************************)
ShownHasTokens == \A t \in Tab : shown[t] => tokens[t] # 0

(***************************************************************************)
(* Tabs that refresh the same pair at the same time do not sign each other  *)
(* out (auth.service.ts:71): a tab loses its session to a refused refresh   *)
(* only if the refresh token ran out, an answer was lost, or somebody       *)
(* logged out or changed an account.                                        *)
(***************************************************************************)
NoEviction ==
    \A t \in Tab : req[t].phase = "answered" /\ req[t].answer = "403" =>
        edits > 0 \/ \E c \in Call : req[c].kind = "logout"

(***************************************************************************)
(* Every call is settled: none waits for ever for a refresh that settled,   *)
(* and a call that is answered 401 again and again is not sent for ever.    *)
(***************************************************************************)
EveryCallSettles == <>[](\A c \in Call : req[c].phase \in {"idle", "settled"})

(***************************************************************************)
(* While no logout and no change of the account runs between the two        *)
(* statements of its logins and refreshes, the API implements Accounts: a   *)
(* refresh never opens a session again that was closed.                     *)
(***************************************************************************)
Promise == INSTANCE Accounts WITH
    open   <- {u \in User : stored[u] # 0},
    grants <- [n \in Pair |-> [user |-> issued[n].user, by |-> issued[n].by]]

ImplementsAccounts == Promise!AccountsSpec
=============================================================================
