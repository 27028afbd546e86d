--------------------------- MODULE SessionProofs ---------------------------
(***************************************************************************)
(* Proofs about the composed sessions of API and tabs, for any users, tabs  *)
(* and number of calls.                                                     *)
(***************************************************************************)
EXTENDS ClientSession, SequenceTheorems, TLAPS

\* What every wire, the slot of every tab and every call is like.
WiresOK ==
    /\ \A w \in Wire :
          /\ req[w].phase \in {"sent", "checked", "answered", "waiting"} /\ req[w].kind = "login"
                => req[w].user \in User
          /\ req[w].phase = "checked" => req[w].kind \in {"login", "refresh"}
          /\ req[w].phase = "answered" /\ req[w].answer = "ok"
                /\ req[w].kind \in {"login", "refresh"} => req[w].got # 0
    /\ \A t \in Tab :
          /\ req[t].phase \in {"idle", "sent", "checked", "answered"}
          /\ req[t].phase # "idle" => req[t].kind = "refresh" /\ req[t].pair # 0
    /\ \A c \in Call : req[c].kind # "refresh"
    /\ \A c \in Call : req[c].phase \notin {"idle", "settled"} => req[c].tab \in Tab
    /\ \A c \in Call : req[c].phase = "idle" => req[c].kind = "none"

\* The rotated token of a refresh, and of a call sent again, is a fresh one.
RotatedFresh ==
    /\ \A t \in Tab : req[t].got # 0 => issued[req[t].got].age = 0
    /\ \A c \in Call : req[c].phase = "sent" /\ req[c].retried =>
          req[c].pair # 0 /\ issued[req[c].pair].age = 0

Undisturbed == edits = 0 /\ \A c \in Call : req[c].kind # "logout"

\* A stored hash is of a pair of its user, who exists; and until somebody
\* disturbs them, the users that were ever given a pair stay signed in.
AccountsOK ==
    /\ \A u \in User : stored[u] # 0 => issued[stored[u]].user = u /\ status[u] # "NONE"
    /\ \A w \in Wire : req[w].phase = "checked" =>
          status[Who(w)] # "NONE" /\ (edits = 0 => status[Who(w)] = "ACTIVE")
    /\ Undisturbed => \A n \in Pair :
          status[issued[n].user] = "ACTIVE" /\ stored[issued[n].user] # 0

IInv == /\ TypeOK /\ WiresOK /\ RotatedFresh /\ AccountsOK
        /\ RetryCarriesFreshToken /\ ShownHasTokens /\ NoEviction

-----------------------------------------------------------------------------

\* A pair has a user and an age.
LEMMA PairType ==
  ASSUME TypeOK, NEW n \in Pair
  PROVE  issued[n] \in Granted /\ issued[n].user \in User
  <1>1. issued[n] \in Granted
    BY ElementOfSeq DEF TypeOK, Pair
  <1> QED BY <1>1 DEF Granted

\* What a wire holds.
LEMMA WireType ==
  ASSUME TypeOK, NEW w \in Wire
  PROVE  req[w] \in Wired /\ req[w].pair \in Known /\ req[w].got \in Known
  BY DEF TypeOK

\* A wire that was checked is of a user.
LEMMA WhoIsUser ==
  ASSUME TypeOK, WiresOK, NEW w \in Wire, req[w].phase = "checked"
  PROVE  Who(w) \in User
  <1>1. CASE req[w].kind = "login"
    BY <1>1 DEF WiresOK, Who
  <1>2. CASE req[w].kind = "refresh"
    <2>1. w \in Tab
      BY <1>2 DEF WiresOK, Wire
    <2>2. req[w].pair \in Pair
      BY <2>1, WireType DEF WiresOK, Known
    <2> QED BY <1>2, <2>2, PairType DEF Who
  <1> QED BY <1>1, <1>2 DEF WiresOK

\* A wire keeps its user as long as the pairs keep theirs.
LEMMA WhoKept ==
  ASSUME TypeOK, WiresOK, NEW w \in Wire, req'[w].phase = "checked", req'[w] = req[w],
         \A i \in Pair : issued'[i].user = issued[i].user
  PROVE  Who(w)' = Who(w) /\ Who(w) \in User
  <1>1. Who(w) \in User
    BY WhoIsUser
  <1>2. CASE req[w].kind = "login"
    BY <1>1, <1>2 DEF Who
  <1>3. CASE req[w].kind = "refresh"
    <2>1. w \in Tab
      BY <1>3 DEF WiresOK, Wire
    <2>2. req[w].pair \in Pair
      BY <2>1, WireType DEF WiresOK, Known
    <2> QED BY <1>1, <1>3, <2>2 DEF Who
  <1> QED BY <1>2, <1>3 DEF WiresOK

-----------------------------------------------------------------------------
\* What a step does to the wires.

\* The wires other than w are left alone.
Elsewhere(w) == \A v \in Wire : v # w => req'[v] = req[v]

\* Nothing of what w was sent with changes.
SameQuestion(w) ==
    /\ req'[w].kind = req[w].kind /\ req'[w].tab = req[w].tab
    /\ req'[w].user = req[w].user /\ req'[w].pair = req[w].pair
    /\ req'[w].retried = req[w].retried

\* An answer touches one wire and keeps its question.
LEMMA ReplyFacts ==
  ASSUME TypeOK, NEW w \in Wire, NEW how \in {"ok", "401", "403", "failed"},
         NEW n \in Nat, Reply(w, how, n)
  PROVE  /\ req' \in [Wire -> Wired]
         /\ Elsewhere(w) /\ SameQuestion(w)
         /\ req'[w].phase = "answered" /\ req'[w].answer = how /\ req'[w].got = n
  <1>1. req \in [Wire -> Wired]
    BY DEF TypeOK
  <1> DEFINE x == [req[w] EXCEPT !.phase = "answered", !.answer = how, !.got = n]
  <1>2. req[w] \in Wired
    BY <1>1
  <1>3. /\ x \in Wired
        /\ x.phase = "answered" /\ x.answer = how /\ x.got = n
        /\ x.kind = req[w].kind /\ x.tab = req[w].tab /\ x.user = req[w].user
        /\ x.pair = req[w].pair /\ x.retried = req[w].retried
    BY <1>2 DEF Wired
  <1>4. req' = [req EXCEPT ![w] = x]
    BY DEF Reply
  <1> HIDE DEF x
  <1> QED BY <1>1, <1>3, <1>4 DEF Elsewhere, SameQuestion

\* So does what only passes its check.
LEMMA PassFacts ==
  ASSUME TypeOK, NEW w \in Wire, Pass(w)
  PROVE  /\ req' \in [Wire -> Wired]
         /\ Elsewhere(w) /\ SameQuestion(w)
         /\ req'[w].phase = "checked" /\ req'[w].answer = req[w].answer
         /\ req'[w].got = req[w].got
  <1>1. req \in [Wire -> Wired]
    BY DEF TypeOK
  <1> QED BY <1>1 DEF Pass, Elsewhere, SameQuestion, Wired

\* Every pair was granted to a user, and 0 is the only other index in use.
LEMMA KnownPairs ==
  ASSUME TypeOK
  PROVE  /\ Len(issued) \in Nat /\ Known \subseteq Nat /\ Pair = Known \ {0}
         /\ \A n \in Pair : issued[n] \in Granted /\ issued[n].user \in User
  <1>1. Len(issued) \in Nat
    BY LenProperties DEF TypeOK
  <1> QED BY <1>1, PairType DEF Known, Pair

\* A login is read against its row (auth.service.ts:29-50).
LEMMA CheckLoginKeeps ==
  ASSUME IInv, NEW w \in Wire, CheckLogin(w), UNCHANGED client
  PROVE  IInv'
  <1> USE DEF IInv
  <1>1. /\ UNCHANGED <<status, stored, edits, issued, plan, mishaps, tokens, saved, shown>>
        /\ req[w].phase = "sent" /\ req[w].kind = "login"
        /\ \/ status[Who(w)] = "ACTIVE" /\ Pass(w)
           \/ \E how \in {"401", "403"} : Reply(w, how, 0)
    BY DEF CheckLogin, Sent, accounts, client, Refuse
  <1>2. /\ req' \in [Wire -> Wired]
        /\ Elsewhere(w) /\ SameQuestion(w)
        /\ req'[w].got \in {0, req[w].got}
        /\ \/ status[Who(w)] = "ACTIVE" /\ req'[w].phase = "checked"
           \/ req'[w].phase = "answered" /\ req'[w].answer \in {"401", "403"}
    BY <1>1, PassFacts, ReplyFacts
  <1>3. w \in Call
    BY <1>1 DEF WiresOK, Wire
  <1>4. TypeOK'
    <2>1. Known' = Known /\ Granted' = Granted /\ 0 \in Known
      BY <1>1 DEF Known, Pair, Granted
    <2>2. \A v \in Wire : req'[v].pair \in Known' /\ req'[v].got \in Known'
      BY <1>2, <2>1, WireType DEF Elsewhere, SameQuestion
    <2> QED BY <1>1, <1>2, <2>1, <2>2 DEF TypeOK
  <1>5. WiresOK'
    BY <1>1, <1>2, <1>3, SessionsAssumption DEF WiresOK, Elsewhere, SameQuestion, Wire
  <1>6. RotatedFresh'
    BY <1>1, <1>2, <1>3, SessionsAssumption DEF RotatedFresh, Elsewhere, SameQuestion, Wire
  <1>7. AccountsOK'
    BY <1>1, <1>2, <1>3 DEF AccountsOK, Elsewhere, SameQuestion, Who, Wire, Undisturbed, Pair
  <1>8. RetryCarriesFreshToken'
    BY <1>1, <1>2, <1>3 DEF RetryCarriesFreshToken, Elsewhere, SameQuestion, Wire
  <1>9. ShownHasTokens'
    BY <1>1 DEF ShownHasTokens
  <1>10. NoEviction'
    BY <1>1, <1>2, <1>3, SessionsAssumption DEF NoEviction, Elsewhere, SameQuestion, Wire
  <1> QED BY <1>4, <1>5, <1>6, <1>7, <1>8, <1>9, <1>10

\* A refresh is refused with 403 only after an edit or a logout: otherwise the
\* row still holds a hash of its user (auth.service.ts:60-75).
LEMMA CheckRefreshKeeps ==
  ASSUME IInv, NEW w \in Wire, CheckRefresh(w), UNCHANGED client
  PROVE  IInv'
  <1> USE DEF IInv
  <1> DEFINE n == req[w].pair
  <1>1. /\ UNCHANGED <<status, stored, edits, issued, plan, mishaps, tokens, saved, shown>>
        /\ req[w].phase = "sent" /\ req[w].kind = "refresh"
        /\ \/ MayRefresh(Who(w), n) /\ Pass(w)
           \/ ~MayRefresh(Who(w), n) /\ Reply(w, "403", 0)
           \/ Reply(w, "401", 0)
    BY DEF CheckRefresh, Sent, accounts, client, Refuse
  <1>2. /\ req' \in [Wire -> Wired]
        /\ Elsewhere(w) /\ SameQuestion(w)
        /\ req'[w].got \in {0, req[w].got}
        /\ \/ MayRefresh(Who(w), n) /\ req'[w].phase = "checked"
           \/ /\ req'[w].phase = "answered" /\ req'[w].answer \in {"401", "403"}
              /\ req'[w].answer = "403" => ~MayRefresh(Who(w), n)
    BY <1>1, PassFacts, ReplyFacts
  <1>3. w \in Tab /\ w \notin Call
    BY <1>1, SessionsAssumption DEF WiresOK, Wire
  <1>4. n \in Pair /\ Who(w) = issued[n].user /\ Who(w) \in User
    <2>1. n \in Pair
      BY <1>1, <1>3, WireType DEF WiresOK, Known
    <2> QED BY <2>1, <1>1, PairType DEF Who
  <1>5. TypeOK'
    <2>1. Known' = Known /\ Granted' = Granted /\ 0 \in Known
      BY <1>1 DEF Known, Pair, Granted
    <2>2. \A v \in Wire : req'[v].pair \in Known' /\ req'[v].got \in Known'
      BY <1>2, <2>1, WireType DEF Elsewhere, SameQuestion
    <2> QED BY <1>1, <1>2, <2>1, <2>2 DEF TypeOK
  <1>6. WiresOK'
    BY <1>1, <1>2, <1>3, SessionsAssumption DEF WiresOK, Elsewhere, SameQuestion, Wire
  <1>7. RotatedFresh'
    BY <1>1, <1>2, <1>3 DEF RotatedFresh, Elsewhere, SameQuestion, Wire
  <1>8. AccountsOK'
    <2>1. Undisturbed' = Undisturbed
      BY <1>1, <1>2, <1>3 DEF Undisturbed, Elsewhere, Wire
    <2>2. Pair' = Pair /\ \A v \in Wire : Who(v)' = Who(v)
      BY <1>1, <1>2 DEF Who, Elsewhere, SameQuestion, Pair
    <2>3. MayRefresh(Who(w), n) => status[Who(w)] = "ACTIVE"
      BY DEF MayRefresh
    <2> QED BY <1>1, <1>2, <2>1, <2>2, <2>3 DEF AccountsOK, Elsewhere
  <1>9. RetryCarriesFreshToken'
    BY <1>1, <1>2, <1>3 DEF RetryCarriesFreshToken, Elsewhere, SameQuestion, Wire
  <1>10. ShownHasTokens'
    BY <1>1 DEF ShownHasTokens
  <1>11. NoEviction'
    <2>1. ~MayRefresh(Who(w), n) => ~Undisturbed
      <3>1. stored[Who(w)] # 0 => Matches(n, stored[Who(w)])
        BY <1>4 DEF AccountsOK, Matches
      <3> QED BY <1>4, <3>1 DEF AccountsOK, MayRefresh
    <2>2. ~Undisturbed => edits > 0 \/ \E c \in Call : req[c].kind = "logout"
      BY SessionsAssumption DEF Undisturbed, TypeOK
    <2> QED BY <1>1, <1>2, <1>3, <2>1, <2>2
            DEF NoEviction, Elsewhere, SameQuestion, Wire
  <1> QED BY <1>5, <1>6, <1>7, <1>8, <1>9, <1>10, <1>11

\* A new pair is of its user and is fresh (auth.service.ts:77-113).
LEMMA StoreAndIssueKeeps ==
  ASSUME IInv, NEW w \in Wire, StoreAndIssue(w), UNCHANGED client
  PROVE  IInv'
  <1> USE DEF IInv
  <1> DEFINE n == Len(issued) + 1
             g == [user |-> Who(w), by |-> req[w].kind, age |-> 0]
  <1>1. /\ UNCHANGED <<status, edits, plan, mishaps, tokens, saved, shown>>
        /\ req[w].phase = "checked"
        /\ issued' = Append(issued, g)
        /\ stored' = [stored EXCEPT ![Who(w)] = n]
        /\ Reply(w, "ok", n)
    BY DEF StoreAndIssue, client
  <1>2. Who(w) \in User /\ req[w].kind \in {"login", "refresh"}
    BY <1>1, WhoIsUser DEF WiresOK
  <1>3. g \in Granted /\ g.user = Who(w) /\ g.age = 0
    BY <1>2 DEF Granted
  <1> HIDE DEF g
  <1>4. /\ issued' \in Seq(Granted) /\ Len(issued') = n /\ n \in Nat /\ n # 0
        /\ Pair' = Pair \cup {n} /\ n \notin Pair /\ Known' = Known \cup {n}
        /\ \A i \in Pair : issued'[i] = issued[i]
        /\ issued'[n] = g
    <2>1. issued \in Seq(Granted) /\ Len(issued) \in Nat
      BY KnownPairs DEF TypeOK
    <2>2. /\ issued' \in Seq(Granted) /\ Len(issued') = n
          /\ \A i \in 1 .. Len(issued) : issued'[i] = issued[i]
          /\ issued'[n] = g
      BY <1>1, <1>3, <2>1, AppendProperties
    <2> HIDE DEF n
    <2>3. Pair' = Pair \cup {n} /\ n \notin Pair /\ n \in Nat /\ n # 0
      BY <2>1, <2>2 DEF Pair, n
    <2> QED BY <2>2, <2>3 DEF Known, Pair
  <1>5. /\ req' \in [Wire -> Wired]
        /\ Elsewhere(w) /\ SameQuestion(w)
        /\ req'[w].phase = "answered" /\ req'[w].answer = "ok" /\ req'[w].got = n
    BY <1>1, <1>4, ReplyFacts
  <1> HIDE DEF n
  <1>6. TypeOK'
    <2>1. \A v \in Wire : req'[v].pair \in Known' /\ req'[v].got \in Known'
      BY <1>4, <1>5, WireType DEF Elsewhere, SameQuestion
    <2>2. Granted' = Granted
      BY DEF Granted
    <2> QED BY <1>1, <1>2, <1>4, <1>5, <2>1, <2>2 DEF TypeOK
  <1>7. WiresOK'
    <2>1. n # 0
      BY <1>4
    <2> QED BY <1>1, <1>2, <1>5, <2>1 DEF WiresOK, Elsewhere, SameQuestion, Wire
  <1>8. RotatedFresh'
    <2>1. \A i \in Known : i # 0 => issued'[i] = issued[i]
      BY <1>4, KnownPairs
    <2>2. ASSUME NEW t \in Tab, req'[t].got # 0
         PROVE  issued'[req'[t].got].age = 0
      <3>1. CASE t = w
        BY <3>1, <1>3, <1>4, <1>5
      <3>2. CASE t # w
        <4>1. t \in Wire /\ req'[t] = req[t]
          BY <3>2, <1>5 DEF Elsewhere, Wire
        <4> QED BY <4>1, <2>1, <2>2, WireType DEF RotatedFresh
      <3> QED BY <3>1, <3>2
    <2>3. ASSUME NEW c \in Call, req'[c].phase = "sent", req'[c].retried
         PROVE  req'[c].pair # 0 /\ issued'[req'[c].pair].age = 0
      <3>1. c \in Wire /\ req'[c] = req[c]
        BY <2>3, <1>5 DEF Elsewhere, Wire
      <3> QED BY <3>1, <2>1, <2>3, WireType DEF RotatedFresh
    <2> QED BY <2>2, <2>3 DEF RotatedFresh
  <1>9. AccountsOK'
    <2>1. Undisturbed' = Undisturbed
      BY <1>1, <1>5 DEF Undisturbed, Elsewhere, SameQuestion, Wire
    <2>2. \A v \in Wire : req'[v].phase = "checked" => v # w /\ req'[v] = req[v]
      BY <1>5 DEF Elsewhere
    <2>3. \A v \in Wire : req'[v].phase = "checked" => Who(v)' = Who(v)
      BY <1>4, <2>2, WhoKept
    <2>4. \A u \in User : stored'[u] # 0 =>
             issued'[stored'[u]].user = u /\ status'[u] # "NONE"
      <3>1. \A u \in User : stored'[u] = IF u = Who(w) THEN n ELSE stored[u]
        BY <1>1 DEF TypeOK
      <3>2. \A u \in User : stored[u] # 0 => stored[u] \in Pair
        BY DEF TypeOK, Known
      <3> TAKE u \in User
      <3> HAVE stored'[u] # 0
      <3>3. CASE u = Who(w)
        <4>1. status[u] # "NONE"
          BY <1>1, <3>3 DEF AccountsOK
        <4> QED BY <1>1, <1>3, <1>4, <3>1, <3>3, <4>1
      <3>4. CASE u # Who(w)
        <4>1. stored'[u] = stored[u] /\ stored[u] \in Pair
          BY <3>1, <3>2, <3>4
        <4>2. issued'[stored[u]] = issued[stored[u]]
          BY <1>4, <4>1
        <4> QED BY <1>1, <4>1, <4>2 DEF AccountsOK
      <3> QED BY <3>3, <3>4
    <2>5. \A v \in Wire : req'[v].phase = "checked" =>
             status'[Who(v)'] # "NONE" /\ (edits' = 0 => status'[Who(v)'] = "ACTIVE")
      BY <1>1, <2>2, <2>3 DEF AccountsOK
    <2>6. Undisturbed' => \A i \in Pair' :
             status'[issued'[i].user] = "ACTIVE" /\ stored'[issued'[i].user] # 0
      <3> HAVE Undisturbed'
      <3>1. \A i \in Pair : issued[i].user \in User
        BY KnownPairs
      <3>2. \A u \in User : stored'[u] = IF u = Who(w) THEN n ELSE stored[u]
        BY <1>1 DEF TypeOK
      <3>3. edits = 0
        BY <2>1 DEF Undisturbed
      <3>4. n # 0 /\ status[Who(w)] = "ACTIVE"
        BY <1>1, <1>4, <3>3 DEF AccountsOK
      <3> TAKE i \in Pair'
      <3>5. CASE i = n
        BY <1>1, <1>2, <1>3, <1>4, <3>2, <3>4, <3>5
      <3>6. CASE i \in Pair
        <4>1. issued'[i] = issued[i]
          BY <1>4, <3>6
        <4>2. status[issued[i].user] = "ACTIVE" /\ stored[issued[i].user] # 0
          BY <2>1, <3>6 DEF AccountsOK
        <4> QED BY <1>1, <3>1, <3>2, <3>4, <3>6, <4>1, <4>2
      <3> QED BY <1>4, <3>5, <3>6
    <2> QED BY <2>4, <2>5, <2>6 DEF AccountsOK
  <1>10. RetryCarriesFreshToken'
    BY <1>1, <1>5 DEF RetryCarriesFreshToken, Elsewhere, SameQuestion, Wire
  <1>11. ShownHasTokens'
    BY <1>1 DEF ShownHasTokens
  <1>12. NoEviction'
    BY <1>1, <1>5 DEF NoEviction, Elsewhere, SameQuestion, Wire
  <1> QED BY <1>6, <1>7, <1>8, <1>9, <1>10, <1>11, <1>12

\* A logout clears one row, and is remembered by its call.
LEMMA LogoutKeeps ==
  ASSUME IInv, NEW w \in Wire, Logout(w), UNCHANGED client
  PROVE  IInv'
  <1> USE DEF IInv
  <1> DEFINE u == Who(w)
  <1>1. /\ UNCHANGED <<status, edits, issued, plan, mishaps, tokens, saved, shown>>
        /\ req[w].phase = "sent" /\ req[w].kind = "logout"
        /\ \/ /\ AccessAccepted(req[w].pair)
              /\ stored' = [stored EXCEPT ![u] = 0] /\ Reply(w, "ok", 0)
           \/ /\ ~AccessAccepted(req[w].pair)
              /\ stored' = stored /\ Reply(w, "401", 0)
    BY DEF Logout, Sent, Refuse, client
  <1>2. w \in Call
    BY <1>1 DEF WiresOK, Wire
  <1>3. /\ req' \in [Wire -> Wired]
        /\ Elsewhere(w) /\ SameQuestion(w)
        /\ req'[w].phase = "answered" /\ req'[w].got = 0
        /\ req'[w].answer = IF AccessAccepted(req[w].pair) THEN "ok" ELSE "401"
    BY <1>1, ReplyFacts
  <1>4. \A v \in User : stored'[v] \in {stored[v], 0}
    BY <1>1 DEF TypeOK
  <1>5. TypeOK'
    <2>1. Known' = Known /\ Granted' = Granted /\ 0 \in Known
      BY <1>1 DEF Known, Pair, Granted
    <2>2. \A v \in Wire : req'[v].pair \in Known' /\ req'[v].got \in Known'
      BY <1>3, <2>1, WireType DEF Elsewhere, SameQuestion
    <2>3. stored' \in [User -> Known]
      BY <1>1, <2>1 DEF TypeOK
    <2> QED BY <1>1, <1>3, <2>1, <2>2, <2>3 DEF TypeOK
  <1>6. WiresOK'
    BY <1>1, <1>2, <1>3, SessionsAssumption DEF WiresOK, Elsewhere, SameQuestion, Wire
  <1>7. RotatedFresh'
    BY <1>1, <1>2, <1>3, SessionsAssumption DEF RotatedFresh, Elsewhere, SameQuestion, Wire
  <1>8. AccountsOK'
    <2>1. ~Undisturbed'
      BY <1>1, <1>2, <1>3 DEF Undisturbed, SameQuestion
    <2>2. \A v \in Wire : req'[v].phase = "checked" =>
             req[v].phase = "checked" /\ Who(v)' = Who(v)
      BY <1>1, <1>3 DEF Who, Elsewhere
    <2> QED BY <1>1, <1>4, <2>1, <2>2 DEF AccountsOK
  <1>9. RetryCarriesFreshToken'
    <2>1. req[w].retried => AccessAccepted(req[w].pair)
      BY <1>1, <1>2 DEF RotatedFresh, AccessAccepted
    <2> QED BY <1>1, <1>2, <1>3, <2>1
            DEF RetryCarriesFreshToken, Elsewhere, SameQuestion, Wire
  <1>10. ShownHasTokens'
    BY <1>1 DEF ShownHasTokens
  <1>11. NoEviction'
    BY <1>1, <1>2, <1>3, SessionsAssumption DEF NoEviction, Elsewhere, SameQuestion, Wire
  <1> QED BY <1>5, <1>6, <1>7, <1>8, <1>9, <1>10, <1>11

\* A retried call passes the guard of its operation.
LEMMA UseApiKeeps ==
  ASSUME IInv, NEW w \in Wire, UseApi(w), UNCHANGED client
  PROVE  IInv'
  <1> USE DEF IInv
  <1>1. /\ UNCHANGED <<status, stored, edits, issued, plan, mishaps, tokens, saved, shown>>
        /\ req[w].phase = "sent" /\ req[w].kind = "api"
        /\ \/ AccessAccepted(req[w].pair) /\ Reply(w, "ok", 0)
           \/ ~AccessAccepted(req[w].pair) /\ Reply(w, "401", 0)
    BY DEF UseApi, Sent, Refuse, accounts, client
  <1>2. w \in Call
    BY <1>1 DEF WiresOK, Wire
  <1>3. /\ req' \in [Wire -> Wired]
        /\ Elsewhere(w) /\ SameQuestion(w)
        /\ req'[w].phase = "answered" /\ req'[w].got = 0
        /\ req'[w].answer = IF AccessAccepted(req[w].pair) THEN "ok" ELSE "401"
    BY <1>1, ReplyFacts
  <1>4. TypeOK'
    <2>1. Known' = Known /\ Granted' = Granted /\ 0 \in Known
      BY <1>1 DEF Known, Pair, Granted
    <2>2. \A v \in Wire : req'[v].pair \in Known' /\ req'[v].got \in Known'
      BY <1>3, <2>1, WireType DEF Elsewhere, SameQuestion
    <2> QED BY <1>1, <1>3, <2>1, <2>2 DEF TypeOK
  <1>5. WiresOK'
    BY <1>1, <1>2, <1>3, SessionsAssumption DEF WiresOK, Elsewhere, SameQuestion, Wire
  <1>6. RotatedFresh'
    BY <1>1, <1>2, <1>3, SessionsAssumption DEF RotatedFresh, Elsewhere, SameQuestion, Wire
  <1>7. AccountsOK'
    <2>1. Undisturbed' = Undisturbed
      BY <1>1, <1>2, <1>3 DEF Undisturbed, Elsewhere, SameQuestion, Wire
    <2>2. \A v \in Wire : req'[v].phase = "checked" =>
             req[v].phase = "checked" /\ Who(v)' = Who(v)
      BY <1>1, <1>3 DEF Who, Elsewhere
    <2>3. Pair' = Pair
      BY <1>1 DEF Pair
    <2> QED BY <1>1, <2>1, <2>2, <2>3 DEF AccountsOK
  <1>8. RetryCarriesFreshToken'
    <2>1. req[w].retried => AccessAccepted(req[w].pair)
      BY <1>1, <1>2 DEF RotatedFresh, AccessAccepted
    <2> QED BY <1>1, <1>2, <1>3, <2>1
            DEF RetryCarriesFreshToken, Elsewhere, SameQuestion, Wire
  <1>9. ShownHasTokens'
    BY <1>1 DEF ShownHasTokens
  <1>10. NoEviction'
    BY <1>1, <1>2, <1>3, SessionsAssumption DEF NoEviction, Elsewhere, SameQuestion, Wire
  <1> QED BY <1>4, <1>5, <1>6, <1>7, <1>8, <1>9, <1>10

\* A lost message leaves no pair behind on its wire.
LEMMA FailKeeps ==
  ASSUME IInv, NEW w \in Wire, Fail(w), UNCHANGED client
  PROVE  IInv'
  <1> USE DEF IInv
  <1>1. /\ UNCHANGED <<status, stored, edits, issued, plan, tokens, saved, shown>>
        /\ req[w].phase \in {"sent", "checked", "answered"}
        /\ mishaps < plan.mishaps /\ mishaps' = mishaps + 1
        /\ Reply(w, "failed", 0)
    BY DEF Fail, Refuse, accounts, client
  <1>2. /\ req' \in [Wire -> Wired]
        /\ Elsewhere(w) /\ SameQuestion(w)
        /\ req'[w].phase = "answered" /\ req'[w].got = 0 /\ req'[w].answer = "failed"
    BY <1>1, ReplyFacts
  <1>3. TypeOK'
    <2>1. Known' = Known /\ Granted' = Granted /\ 0 \in Known
      BY <1>1 DEF Known, Pair, Granted
    <2>2. \A v \in Wire : req'[v].pair \in Known' /\ req'[v].got \in Known'
      BY <1>2, <2>1, WireType DEF Elsewhere, SameQuestion
    <2>3. mishaps' \in 0 .. plan.mishaps
      BY <1>1, SessionsAssumption DEF TypeOK
    <2> QED BY <1>1, <1>2, <2>1, <2>2, <2>3 DEF TypeOK
  <1>4. WiresOK'
    BY <1>1, <1>2 DEF WiresOK, Elsewhere, SameQuestion, Wire
  <1>5. RotatedFresh'
    BY <1>1, <1>2 DEF RotatedFresh, Elsewhere, SameQuestion, Wire
  <1>6. AccountsOK'
    <2>1. Undisturbed' = Undisturbed
      BY <1>1, <1>2 DEF Undisturbed, Elsewhere, SameQuestion, Wire
    <2>2. \A v \in Wire : req'[v].phase = "checked" =>
             req[v].phase = "checked" /\ Who(v)' = Who(v)
      BY <1>1, <1>2 DEF Who, Elsewhere
    <2>3. Pair' = Pair
      BY <1>1 DEF Pair
    <2> QED BY <1>1, <2>1, <2>2, <2>3 DEF AccountsOK
  <1>7. RetryCarriesFreshToken'
    BY <1>1, <1>2 DEF RetryCarriesFreshToken, Elsewhere, SameQuestion, Wire
  <1>8. ShownHasTokens'
    BY <1>1 DEF ShownHasTokens
  <1>9. NoEviction'
    BY <1>1, <1>2 DEF NoEviction, Elsewhere, SameQuestion, Wire
  <1> QED BY <1>3, <1>4, <1>5, <1>6, <1>7, <1>8, <1>9

\* UsersService never takes a row away.
LEMMA AdministerKeeps ==
  ASSUME IInv, NEW u \in User, Administer(u), UNCHANGED client
  PROVE  IInv'
  <1> USE DEF IInv
  <1>1. PICK s \in Status, h \in {0, stored[u]} : Change(u, s, h)
    BY DEF Administer, Register, Create, Activate, Update, Deactivate, Status
  <1>2. /\ UNCHANGED <<issued, req, mishaps, plan, tokens, saved, shown>>
        /\ edits < plan.edits /\ edits' = edits + 1
        /\ status' = [status EXCEPT ![u] = s]
        /\ stored' = [stored EXCEPT ![u] = h]
    BY <1>1 DEF Change, client
  <1>3. edits \in Nat /\ plan.edits \in Nat /\ edits' # 0 /\ edits' \in 0 .. plan.edits
    BY <1>2, SessionsAssumption DEF TypeOK
  <1>4. /\ Known' = Known /\ Pair' = Pair /\ Granted' = Granted /\ 0 \in Known
        /\ \A w \in Wire : Who(w)' = Who(w)
    BY <1>2 DEF Known, Pair, Granted, Who
  <1>5. TypeOK'
    BY <1>2, <1>3, <1>4 DEF TypeOK
  <1>6. WiresOK' /\ RotatedFresh' /\ RetryCarriesFreshToken' /\ ShownHasTokens'
    BY <1>2 DEF WiresOK, RotatedFresh, RetryCarriesFreshToken, ShownHasTokens
  <1>7. AccountsOK'
    <2>1. ~Undisturbed'
      BY <1>3 DEF Undisturbed
    <2>2. \A v \in User : /\ status'[v] = IF v = u THEN s ELSE status[v]
                          /\ stored'[v] \in {0, stored[v]}
      BY <1>2 DEF TypeOK
    <2>3. \A w \in Wire : req[w].phase = "checked" => Who(w) \in User
      BY WhoIsUser
    <2> QED BY <1>2, <1>3, <1>4, <2>1, <2>2, <2>3 DEF AccountsOK, Status
  <1>8. NoEviction'
    BY <1>2, <1>3 DEF NoEviction
  <1> QED BY <1>5, <1>6, <1>7, <1>8

-----------------------------------------------------------------------------
\* The steps of the tabs.

\* The two resting contents of a wire.
LEMMA SilentType ==
  /\ Silent \in Wired /\ Settled \in Wired
  /\ Silent.phase = "idle" /\ Silent.pair = 0 /\ Silent.got = 0
  /\ Silent.kind = "none" /\ Silent.retried = FALSE
  /\ Settled.phase = "settled" /\ Settled.pair = 0 /\ Settled.got = 0
  /\ Settled.kind = "none" /\ Settled.retried = FALSE
  BY DEF Silent, Settled, Wired

\* What is left of a call that is over.
LEMMA OutcomeType ==
  ASSUME TypeOK, NEW c \in Call
  PROVE  /\ Outcome(c) \in Wired
         /\ Outcome(c).phase = "settled" /\ Outcome(c).pair = 0 /\ Outcome(c).got = 0
         /\ Outcome(c).kind = req[c].kind
  <1>1. req[c] \in Wired
    BY WireType DEF Wire
  <1> QED BY <1>1, SilentType DEF Outcome, Wired

\* A new call carries what its tab holds.
LEMMA SendKeeps ==
  ASSUME IInv, NEW c \in Call, Send(c)
  PROVE  IInv'
  <1> USE DEF IInv
  <1>1. PICK t \in Tab, k \in plan.asks[c] :
          \E u \in IF k = "login" THEN User ELSE {"none"} :
            /\ req[c].phase = "idle"
            /\ req' = [req EXCEPT ![c] = [Silent EXCEPT !.phase = "sent", !.kind = k,
                                             !.tab = t, !.user = u, !.pair = tokens[t]]]
    BY DEF Send
  <1>2. PICK u \in IF k = "login" THEN User ELSE {"none"} :
          /\ req[c].phase = "idle"
          /\ req' = [req EXCEPT ![c] = [Silent EXCEPT !.phase = "sent", !.kind = k,
                                           !.tab = t, !.user = u, !.pair = tokens[t]]]
    BY <1>1
  <1>3. UNCHANGED <<status, stored, edits, issued, mishaps, plan, tokens, saved, shown>>
    BY DEF Send, accounts, client
  <1> DEFINE x == [Silent EXCEPT !.phase = "sent", !.kind = k, !.tab = t, !.user = u,
                                 !.pair = tokens[t]]
  <1>4. k \in Kind /\ (k = "login" => u \in User) /\ (k # "login" => u = "none")
    BY <1>2, SessionsAssumption DEF TypeOK
  <1>5. tokens[t] \in Known /\ tokens[t] \in Nat
    BY KnownPairs DEF TypeOK
  <1>6. /\ x \in Wired
        /\ x.phase = "sent" /\ x.kind = k /\ x.tab = t /\ x.user = u /\ x.pair = tokens[t]
        /\ x.got = 0 /\ x.retried = FALSE
    BY <1>4, <1>5 DEF Silent, Wired
  <1>7. req' = [req EXCEPT ![c] = x]
    BY <1>2
  <1> HIDE DEF x
  <1>8. /\ req' \in [Wire -> Wired] /\ Elsewhere(c) /\ req'[c] = x
        /\ c \notin Tab /\ c \in Wire
    BY <1>6, <1>7, SessionsAssumption DEF TypeOK, Elsewhere, Wire
  <1>9. /\ Known' = Known /\ Pair' = Pair /\ Granted' = Granted /\ 0 \in Known
        /\ \A w \in Wire : req'[w].phase = "checked" =>
              req[w].phase = "checked" /\ Who(w)' = Who(w)
    BY <1>3, <1>6, <1>8 DEF Known, Pair, Granted, Who, Elsewhere
  <1>10. TypeOK'
    <2>1. \A v \in Wire : req'[v].pair \in Known' /\ req'[v].got \in Known'
      BY <1>5, <1>6, <1>8, <1>9, WireType DEF Elsewhere
    <2> QED BY <1>3, <1>8, <1>9, <2>1 DEF TypeOK
  <1>11. WiresOK'
    BY <1>4, <1>6, <1>8 DEF WiresOK, Elsewhere, Wire, Kind
  <1>12. RotatedFresh'
    BY <1>3, <1>6, <1>8 DEF RotatedFresh, Elsewhere, Wire
  <1>13. AccountsOK'
    <2>1. Undisturbed' => Undisturbed
      <3>1. \A d \in Call : d # c => req'[d] = req[d]
        BY <1>8 DEF Elsewhere, Wire
      <3>2. req[c].phase = "idle" => req[c].kind # "logout"
        BY DEF WiresOK
      <3> QED BY <1>2, <1>3, <3>1, <3>2 DEF Undisturbed
    <2> QED BY <1>3, <1>9, <2>1 DEF AccountsOK
  <1>14. RetryCarriesFreshToken' /\ ShownHasTokens'
    BY <1>3, <1>6, <1>8 DEF RetryCarriesFreshToken, ShownHasTokens, Elsewhere, Wire
  <1>15. NoEviction'
    BY <1>2, <1>3, <1>6, <1>8 DEF NoEviction, WiresOK, Elsewhere, Wire
  <1> QED BY <1>10, <1>11, <1>12, <1>13, <1>14, <1>15

\* What a sign-out and a new pair leave in the tabs.
LEMMA EmitLogoutKeeps ==
  ASSUME TypeOK, ShownHasTokens, UNCHANGED issued, NEW t \in Tab, EmitLogout(t)
  PROVE  /\ tokens' \in [Tab -> Known'] /\ saved' \in Known'
         /\ shown' \in [Tab -> BOOLEAN] /\ ShownHasTokens'
  <1>1. Known' = Known /\ 0 \in Known
    BY DEF Known, Pair
  <1> QED BY <1>1 DEF TypeOK, ShownHasTokens, EmitLogout, SetTokens

\* A new pair leaves as much.
LEMMA SetTokensKeeps ==
  ASSUME TypeOK, ShownHasTokens, UNCHANGED issued, NEW t \in Tab, NEW n \in Known, n # 0,
         SetTokens(t, n), shown' = shown \/ shown' = [shown EXCEPT ![t] = TRUE]
  PROVE  /\ tokens' \in [Tab -> Known'] /\ saved' \in Known'
         /\ shown' \in [Tab -> BOOLEAN] /\ ShownHasTokens'
  <1>1. Known' = Known
    BY DEF Known, Pair
  <1>2. /\ tokens' \in [Tab -> Known] /\ saved' \in Known
        /\ shown' \in [Tab -> BOOLEAN]
    BY DEF TypeOK, SetTokens
  <1>3. ASSUME NEW v \in Tab, shown'[v]
        PROVE  tokens'[v] # 0
    BY <1>3 DEF TypeOK, ShownHasTokens, SetTokens
  <1> QED BY <1>1, <1>2, <1>3 DEF ShownHasTokens

\* A step of a tab leaves the accounts and the pairs alone: AccountsOK then only
\* asks that no wire comes to be checked and that no call forgets its kind.
LEMMA TabKeepsAccounts ==
  ASSUME IInv, UNCHANGED <<status, stored, edits, issued>>,
         \A w \in Wire : req'[w].phase = "checked" => req'[w] = req[w],
         \A c \in Call : req'[c].kind = req[c].kind
  PROVE  AccountsOK'
  <1>1. Pair' = Pair /\ \A w \in Wire : req'[w] = req[w] => Who(w)' = Who(w)
    BY DEF Pair, Who
  <1>2. Undisturbed' = Undisturbed
    BY DEF Undisturbed
  <1> QED BY <1>1, <1>2 DEF AccountsOK, IInv

\* A 401 starts the refresh of its tab or joins it, or signs the tab out.
LEMMA AwaitRefreshKeeps ==
  ASSUME IInv, NEW c \in Wire, AwaitRefresh(c)
  PROVE  IInv'
  <1> USE DEF IInv
  <1> DEFINE t == req[c].tab
             x == [req[c] EXCEPT !.phase = "waiting", !.retried = TRUE,
                                 !.answer = "none", !.pair = 0]
             y == [Silent EXCEPT !.phase = "sent", !.kind = "refresh", !.tab = t,
                                 !.pair = tokens[t]]
  <1>1. /\ UNCHANGED <<status, stored, edits, issued, mishaps, plan>>
        /\ c \in Call /\ req[c].phase = "answered"
    BY DEF AwaitRefresh, Arrived, accounts
  <1>2. /\ t \in Tab /\ t \in Wire /\ t # c /\ t \notin Call /\ c \notin Tab
        /\ req[c] \in Wired
    BY <1>1, SessionsAssumption, WireType DEF WiresOK, Wire
  <1>3. /\ x \in Wired
        /\ x.phase = "waiting" /\ x.kind = req[c].kind /\ x.tab = t
        /\ x.user = req[c].user /\ x.pair = 0 /\ x.got = req[c].got /\ x.answer = "none"
    BY <1>2 DEF Wired
  <1>4. tokens[t] \in Known /\ tokens[t] \in Nat
    BY <1>2, KnownPairs DEF TypeOK
  <1>5. /\ y \in Wired
        /\ y.phase = "sent" /\ y.kind = "refresh" /\ y.pair = tokens[t] /\ y.got = 0
    BY <1>2, <1>4 DEF Silent, Wired
  <1>6. /\ req \in [Wire -> Wired] /\ Known' = Known /\ 0 \in Known
        /\ Granted' = Granted /\ Known \subseteq Nat
    BY <1>1, KnownPairs DEF TypeOK, Known, Pair, Granted
  <1>7. CASE req' = [req EXCEPT ![c] = x] /\ UNCHANGED client
    <2> HIDE DEF x, t
    <2>1. /\ req' \in [Wire -> Wired] /\ Elsewhere(c) /\ req'[c] = x
          /\ UNCHANGED <<tokens, saved, shown>>
      BY <1>3, <1>6, <1>7 DEF Elsewhere, client
    <2>2. TypeOK'
      <3>1. \A v \in Wire : req'[v].pair \in Known' /\ req'[v].got \in Known'
        BY <1>3, <1>6, <2>1, WireType DEF Elsewhere
      <3> QED BY <1>1, <1>6, <2>1, <3>1 DEF TypeOK
    <2>3. WiresOK'
      BY <1>1, <1>2, <1>3, <2>1 DEF WiresOK, Elsewhere, Wire
    <2>4. RotatedFresh'
      BY <1>1, <1>2, <1>3, <2>1 DEF RotatedFresh, Elsewhere, Wire
    <2>5. AccountsOK'
      BY <1>1, <1>3, <2>1, TabKeepsAccounts DEF Elsewhere, Wire
    <2>6. RetryCarriesFreshToken' /\ ShownHasTokens'
      BY <1>2, <1>3, <2>1 DEF RetryCarriesFreshToken, ShownHasTokens, Elsewhere, Wire
    <2>7. NoEviction'
      BY <1>1, <1>2, <1>3, <2>1 DEF NoEviction, Elsewhere, Wire
    <2> QED BY <2>2, <2>3, <2>4, <2>5, <2>6, <2>7
  <1>8. CASE /\ ~Refreshing(t) /\ tokens[t] # 0
             /\ req' = [req EXCEPT ![c] = x, ![t] = y] /\ UNCHANGED client
    <2> HIDE DEF x, y, t
    <2>1. /\ req' \in [Wire -> Wired] /\ req'[c] = x /\ req'[t] = y
          /\ \A v \in Wire : v # c /\ v # t => req'[v] = req[v]
          /\ UNCHANGED <<tokens, saved, shown>>
      BY <1>2, <1>3, <1>5, <1>6, <1>8 DEF client
    <2>2. TypeOK'
      <3>1. \A v \in Wire : req'[v].pair \in Known' /\ req'[v].got \in Known'
        BY <1>3, <1>4, <1>5, <1>6, <2>1, WireType
      <3> QED BY <1>1, <1>6, <2>1, <3>1 DEF TypeOK
    <2>3. WiresOK'
      BY <1>1, <1>2, <1>3, <1>5, <1>8, <2>1 DEF WiresOK, Wire
    <2>4. RotatedFresh'
      BY <1>1, <1>2, <1>3, <1>5, <2>1 DEF RotatedFresh, Wire
    <2>5. AccountsOK'
      BY <1>1, <1>2, <1>3, <1>5, <2>1, TabKeepsAccounts DEF Wire
    <2>6. RetryCarriesFreshToken' /\ ShownHasTokens'
      BY <1>2, <1>3, <2>1 DEF RetryCarriesFreshToken, ShownHasTokens, Wire
    <2>7. NoEviction'
      BY <1>1, <1>2, <1>3, <1>5, <2>1 DEF NoEviction, Wire
    <2> QED BY <2>2, <2>3, <2>4, <2>5, <2>6, <2>7
  <1>9. CASE req' = [req EXCEPT ![c] = Outcome(c)] /\ EmitLogout(t)
    <2> HIDE DEF t
    <2>1. /\ req' \in [Wire -> Wired] /\ Elsewhere(c) /\ req'[c] = Outcome(c)
      BY <1>1, <1>6, <1>9, OutcomeType DEF Elsewhere
    <2>2. /\ Outcome(c).phase = "settled" /\ Outcome(c).pair = 0 /\ Outcome(c).got = 0
          /\ Outcome(c).kind = req[c].kind
      BY <1>1, OutcomeType
    <2>3. /\ tokens' \in [Tab -> Known'] /\ saved' \in Known'
          /\ shown' \in [Tab -> BOOLEAN] /\ ShownHasTokens'
      BY <1>1, <1>2, <1>9, EmitLogoutKeeps
    <2>4. TypeOK'
      <3>1. \A v \in Wire : req'[v].pair \in Known' /\ req'[v].got \in Known'
        BY <1>6, <2>1, <2>2, WireType DEF Elsewhere
      <3> QED BY <1>1, <1>6, <2>1, <2>3, <3>1 DEF TypeOK
    <2>5. WiresOK'
      BY <1>1, <1>2, <2>1, <2>2 DEF WiresOK, Elsewhere, Wire
    <2>6. RotatedFresh'
      BY <1>1, <1>2, <2>1, <2>2 DEF RotatedFresh, Elsewhere, Wire
    <2>7. AccountsOK'
      BY <1>1, <2>1, <2>2, TabKeepsAccounts DEF Elsewhere, Wire
    <2>8. RetryCarriesFreshToken'
      BY <1>2, <2>1, <2>2 DEF RetryCarriesFreshToken, Elsewhere, Wire
    <2>9. NoEviction'
      BY <1>1, <1>2, <2>1, <2>2 DEF NoEviction, Elsewhere, Wire
    <2> QED BY <2>3, <2>4, <2>5, <2>6, <2>7, <2>8, <2>9
  <1> QED BY <1>7, <1>8, <1>9 DEF AwaitRefresh

\* A call is over; its caller may sign the tab in or out.
LEMMA SettleKeeps ==
  ASSUME IInv, NEW c \in Wire, Settle(c)
  PROVE  IInv'
  <1> USE DEF IInv
  <1> DEFINE t == req[c].tab
  <1>1. /\ UNCHANGED <<status, stored, edits, issued, mishaps, plan>>
        /\ c \in Call /\ req[c].phase = "answered"
        /\ req' = [req EXCEPT ![c] = Outcome(c)]
    BY DEF Settle, Arrived, accounts
  <1>2. t \in Tab /\ c \notin Tab /\ req \in [Wire -> Wired]
    BY <1>1, SessionsAssumption DEF WiresOK, Wire, TypeOK
  <1>3. /\ Outcome(c).phase = "settled" /\ Outcome(c).pair = 0 /\ Outcome(c).got = 0
        /\ Outcome(c).kind = req[c].kind
    BY <1>1, OutcomeType
  <1>4. /\ req' \in [Wire -> Wired] /\ Elsewhere(c) /\ req'[c] = Outcome(c)
    BY <1>1, <1>2, OutcomeType DEF Elsewhere
  <1>5. Known' = Known /\ Granted' = Granted /\ 0 \in Known
    BY <1>1 DEF Known, Pair, Granted
  <1>6. /\ tokens' \in [Tab -> Known'] /\ saved' \in Known'
        /\ shown' \in [Tab -> BOOLEAN] /\ ShownHasTokens'
    <2>1. CASE EmitLogout(t)
      BY <1>1, <1>2, <2>1, EmitLogoutKeeps
    <2>2. CASE /\ req[c].kind = "login" /\ req[c].answer = "ok"
               /\ SetTokens(t, req[c].got) /\ shown' = [shown EXCEPT ![t] = TRUE]
      <3>1. req[c].got \in Known /\ req[c].got # 0
        BY <1>1, <2>2, WireType DEF WiresOK
      <3> QED BY <1>1, <1>2, <2>2, <3>1, SetTokensKeeps
    <2>3. CASE UNCHANGED client
      BY <1>5, <2>3 DEF TypeOK, ShownHasTokens, client
    <2> QED BY <2>1, <2>2, <2>3 DEF Settle
  <1> HIDE DEF t
  <1>7. TypeOK'
    <2>1. \A v \in Wire : req'[v].pair \in Known' /\ req'[v].got \in Known'
      BY <1>3, <1>4, <1>5, WireType DEF Elsewhere
    <2> QED BY <1>1, <1>4, <1>5, <1>6, <2>1 DEF TypeOK
  <1>8. WiresOK'
    BY <1>1, <1>2, <1>3, <1>4 DEF WiresOK, Elsewhere, Wire
  <1>9. RotatedFresh'
    BY <1>1, <1>2, <1>3, <1>4 DEF RotatedFresh, Elsewhere, Wire
  <1>10. AccountsOK'
    BY <1>1, <1>3, <1>4, TabKeepsAccounts DEF Elsewhere, Wire
  <1>11. RetryCarriesFreshToken'
    BY <1>2, <1>3, <1>4 DEF RetryCarriesFreshToken, Elsewhere, Wire
  <1>12. NoEviction'
    BY <1>1, <1>2, <1>3, <1>4 DEF NoEviction, Elsewhere, Wire
  <1> QED BY <1>6, <1>7, <1>8, <1>9, <1>10, <1>11, <1>12

\* Every call that waited is sent with the fresh pair (axios.ts:79-104).
LEMMA RotateKeeps ==
  ASSUME IInv, NEW t \in Tab, Rotate(t)
  PROVE  IInv'
  <1> USE DEF IInv
  <1> DEFINE n == req[t].got
             y(w) == [req[w] EXCEPT !.phase = "sent", !.pair = n]
  <1>1. /\ UNCHANGED <<status, stored, edits, issued, mishaps, plan, shown>>
        /\ req[t].phase = "answered" /\ req[t].answer = "ok"
        /\ SetTokens(t, n)
        /\ req' = [w \in Wire |-> IF w = t THEN Silent
                                  ELSE IF w \in Waiting(t) THEN y(w) ELSE req[w]]
    BY DEF Rotate, Resumed, NewToken, accounts
  <1>2. t \in Wire /\ t \notin Call /\ req \in [Wire -> Wired]
    BY SessionsAssumption DEF Wire, TypeOK
  <1>3. n \in Known /\ n \in Nat /\ n # 0 /\ issued[n].age = 0
    BY <1>1, <1>2, WireType, KnownPairs DEF WiresOK, RotatedFresh
  <1>4. /\ tokens' \in [Tab -> Known'] /\ saved' \in Known'
        /\ shown' \in [Tab -> BOOLEAN] /\ ShownHasTokens'
    BY <1>1, <1>3, SetTokensKeeps
  <1>5. \A w \in Wire : /\ y(w) \in Wired
                        /\ y(w).phase = "sent" /\ y(w).kind = req[w].kind
                        /\ y(w).tab = req[w].tab /\ y(w).user = req[w].user
                        /\ y(w).pair = n /\ y(w).got = req[w].got
    <2> HIDE DEF n
    <2> TAKE w \in Wire
    <2>1. req[w] \in Wired
      BY <1>2
    <2> QED BY <1>3, <2>1 DEF Wired
  <1>6. req'[t] = Silent
    BY <1>1, <1>2
  <1> HIDE DEF n, y
  <1>7. \A w \in Waiting(t) : w \in Call /\ w \in Wire /\ w # t /\ req[w].phase = "waiting"
    BY <1>2 DEF Waiting, Wire
  <1>8. \A w \in Waiting(t) : req'[w] = y(w)
    BY <1>1, <1>7
  <1>9. \A w \in Wire : w # t /\ w \notin Waiting(t) => req'[w] = req[w]
    BY <1>1
  <1>10. req' \in [Wire -> Wired]
    BY <1>1, <1>2, <1>5, SilentType
  <1>11. Known' = Known /\ Granted' = Granted /\ 0 \in Known
    BY <1>1 DEF Known, Pair, Granted
  <1>12. TypeOK'
    <2>1. ASSUME NEW w \in Wire
          PROVE  req'[w].pair \in Known /\ req'[w].got \in Known
      <3>1. CASE w = t
        BY <3>1, <1>6, <1>11, SilentType
      <3>2. CASE w \in Waiting(t)
        BY <3>2, <1>3, <1>5, <1>8, WireType
      <3>3. CASE w # t /\ w \notin Waiting(t)
        BY <3>3, <1>9, WireType
      <3> QED BY <3>1, <3>2, <3>3
    <2> QED BY <1>1, <1>4, <1>10, <1>11, <2>1 DEF TypeOK
  <1>13. \A c \in Call : /\ req'[c].kind = req[c].kind /\ req'[c].tab = req[c].tab
                         /\ req'[c].user = req[c].user
                         /\ \/ req'[c] = req[c]
                            \/ /\ req[c].phase = "waiting" /\ req'[c].phase = "sent"
                               /\ req'[c].pair = n
    BY <1>2, <1>5, <1>7, <1>8, <1>9 DEF Wire
  <1>14. \A v \in Tab : v # t => req'[v] = req[v]
    BY <1>9, SessionsAssumption DEF Waiting, Wire
  <1>15. WiresOK'
    <2>1. \A c \in Call : \/ req'[c] = req[c]
                          \/ req[c].phase = "waiting" /\ req'[c].phase = "sent"
      BY <1>13
    <2> QED BY <1>6, <1>13, <1>14, <2>1, SilentType DEF WiresOK, Wire
  <1>16. RotatedFresh'
    BY <1>1, <1>3, <1>6, <1>13, <1>14, SilentType DEF RotatedFresh
  <1>17. AccountsOK'
    <2>1. \A w \in Wire : req'[w].phase = "checked" => req'[w] = req[w]
      BY <1>6, <1>13, <1>14, SilentType DEF Wire
    <2> QED BY <1>1, <1>13, <2>1, TabKeepsAccounts
  <1>18. RetryCarriesFreshToken'
    BY <1>13 DEF RetryCarriesFreshToken
  <1>19. NoEviction'
    <2>1. \A c \in Call : req'[c].kind = req[c].kind
      BY <1>13
    <2> QED BY ZenonT(60), <1>1, <1>6, <1>14, <2>1, SilentType DEF NoEviction
  <1> QED BY <1>4, <1>12, <1>15, <1>16, <1>17, <1>18, <1>19

\* Every call that waited is over and the tab shows no session.
LEMMA GiveUpKeeps ==
  ASSUME IInv, NEW t \in Tab, GiveUp(t)
  PROVE  IInv'
  <1> USE DEF IInv
  <1>1. /\ UNCHANGED <<status, stored, edits, issued, mishaps, plan>>
        /\ EmitLogout(t)
        /\ req' = [w \in Wire |-> IF w = t THEN Silent
                                  ELSE IF w \in Waiting(t) THEN Outcome(w) ELSE req[w]]
    BY DEF GiveUp, Resumed, accounts
  <1>2. t \in Wire /\ t \notin Call /\ req \in [Wire -> Wired]
    BY SessionsAssumption DEF Wire, TypeOK
  <1>3. /\ tokens' \in [Tab -> Known'] /\ saved' \in Known'
        /\ shown' \in [Tab -> BOOLEAN] /\ ShownHasTokens'
    BY <1>1, EmitLogoutKeeps
  <1>4. \A w \in Waiting(t) : /\ w \in Call /\ w \in Wire /\ w # t
                              /\ req'[w] = Outcome(w) /\ Outcome(w) \in Wired
    BY <1>1, <1>2, OutcomeType DEF Waiting, Wire
  <1>5. req'[t] = Silent
    BY <1>1, <1>2
  <1>6. \A w \in Wire : w # t /\ w \notin Waiting(t) => req'[w] = req[w]
    BY <1>1
  <1>7. req' \in [Wire -> Wired]
    BY <1>1, <1>2, <1>4, SilentType
  <1>8. Known' = Known /\ Granted' = Granted /\ 0 \in Known
    BY <1>1 DEF Known, Pair, Granted
  <1>9. \A c \in Call : /\ req'[c].kind = req[c].kind
                        /\ \/ req'[c] = req[c]
                           \/ /\ req'[c].phase = "settled"
                              /\ req'[c].pair = 0 /\ req'[c].got = 0
    BY <1>2, <1>4, <1>6, OutcomeType DEF Wire
  <1>10. \A v \in Tab : v # t => req'[v] = req[v]
    BY <1>6, SessionsAssumption DEF Waiting, Wire
  <1>11. TypeOK'
    <2>1. \A w \in Wire : req'[w].pair \in Known /\ req'[w].got \in Known
      BY <1>5, <1>8, <1>9, <1>10, SilentType, WireType DEF Wire
    <2> QED BY <1>1, <1>3, <1>7, <1>8, <2>1 DEF TypeOK
  <1>12. WiresOK'
    BY <1>5, <1>9, <1>10, SilentType DEF WiresOK, Wire
  <1>13. RotatedFresh'
    BY <1>1, <1>5, <1>9, <1>10, SilentType DEF RotatedFresh
  <1>14. AccountsOK'
    <2>1. \A w \in Wire : req'[w].phase = "checked" => req'[w] = req[w]
      BY <1>5, <1>9, <1>10, SilentType DEF Wire
    <2> QED BY <1>1, <1>9, <2>1, TabKeepsAccounts
  <1>15. RetryCarriesFreshToken'
    BY <1>9 DEF RetryCarriesFreshToken
  <1>16. NoEviction'
    BY ZenonT(60), <1>1, <1>5, <1>9, <1>10, SilentType DEF NoEviction
  <1> QED BY <1>3, <1>11, <1>12, <1>13, <1>14, <1>15, <1>16

\* A tab that is loaded anew shows what localStorage holds.
LEMMA ReloadKeeps ==
  ASSUME IInv, NEW t \in Tab, Reload(t)
  PROVE  IInv'
  <1> USE DEF IInv
  <1>1. /\ UNCHANGED <<status, stored, edits, issued, mishaps, req, plan, saved>>
        /\ tokens' = [tokens EXCEPT ![t] = saved]
        /\ shown' = [shown EXCEPT ![t] = saved # 0]
    BY DEF Reload, serverVars, accounts
  <1>2. Known' = Known /\ Granted' = Granted /\ Pair' = Pair
    BY <1>1 DEF Known, Pair, Granted
  <1>3. tokens' \in [Tab -> Known] /\ shown' \in [Tab -> BOOLEAN]
    BY <1>1 DEF TypeOK
  <1>4. TypeOK'
    BY <1>1, <1>2, <1>3 DEF TypeOK
  <1>5. WiresOK' /\ RotatedFresh' /\ RetryCarriesFreshToken' /\ NoEviction'
    BY <1>1 DEF WiresOK, RotatedFresh, RetryCarriesFreshToken, NoEviction
  <1>6. AccountsOK'
    BY <1>1, TabKeepsAccounts
  <1>7. ShownHasTokens'
    <2>1. ASSUME NEW v \in Tab, shown'[v]
          PROVE  tokens'[v] # 0
      BY <1>1, <2>1 DEF ShownHasTokens, TypeOK
    <2> QED BY <2>1 DEF ShownHasTokens
  <1> QED BY <1>4, <1>5, <1>6, <1>7

\* No token expires on its first trip.
LEMMA ExpireKeeps ==
  ASSUME IInv, NEW n \in Pair, Expire(n)
  PROVE  IInv'
  <1> USE DEF IInv
  <1> DEFINE g == [issued[n] EXCEPT !.age = @ + 1]
  <1>1. /\ UNCHANGED <<status, stored, edits, plan, req, tokens, saved, shown>>
        /\ issued[n].age < 2 /\ ~OnFirstTrip(n)
        /\ mishaps < plan.mishaps /\ mishaps' = mishaps + 1
        /\ issued' = [issued EXCEPT ![n] = g]
    BY DEF Expire, accounts, client
  <1>2. g \in Granted /\ g.user = issued[n].user
    BY <1>1, KnownPairs DEF Granted
  <1> HIDE DEF g
  <1>3. /\ issued' \in Seq(Granted) /\ Len(issued') = Len(issued)
        /\ \A i \in Pair : issued'[i] = IF i = n THEN g ELSE issued[i]
    BY <1>1, <1>2, ExceptSeq DEF TypeOK, Pair
  <1>4. /\ Pair' = Pair /\ Known' = Known /\ Granted' = Granted
        /\ \A i \in Pair : issued'[i].user = issued[i].user
    BY <1>2, <1>3 DEF Pair, Known, Granted
  <1>5. TypeOK'
    <2>1. mishaps' \in 0 .. plan.mishaps
      BY <1>1, SessionsAssumption DEF TypeOK
    <2> QED BY <1>1, <1>3, <1>4, <2>1 DEF TypeOK
  <1>6. WiresOK' /\ RetryCarriesFreshToken' /\ ShownHasTokens' /\ NoEviction'
    BY <1>1 DEF WiresOK, RetryCarriesFreshToken, ShownHasTokens, NoEviction
  <1>7. RotatedFresh'
    <2>1. ASSUME NEW t \in Tab, req[t].got # 0
          PROVE  issued'[req[t].got].age = 0
      <3>1. req[t].got \in Pair /\ req[t].got # n
        BY <1>1, <2>1, WireType DEF Wire, Known, OnFirstTrip
      <3> QED BY <1>3, <2>1, <3>1 DEF RotatedFresh
    <2>2. ASSUME NEW c \in Call, req[c].phase = "sent", req[c].retried
          PROVE  req[c].pair # 0 /\ issued'[req[c].pair].age = 0
      <3>1. req[c].pair # 0 /\ issued[req[c].pair].age = 0
        BY <2>2 DEF RotatedFresh
      <3>2. req[c].pair \in Pair /\ req[c].pair # n
        BY <1>1, <2>2, <3>1, WireType DEF Wire, Known, OnFirstTrip
      <3> QED BY <1>3, <3>1, <3>2
    <2> QED BY <1>1, <2>1, <2>2 DEF RotatedFresh
  <1>8. AccountsOK'
    <2>1. Undisturbed' = Undisturbed
      BY <1>1 DEF Undisturbed
    <2>2. \A w \in Wire : req[w].phase = "checked" => Who(w)' = Who(w)
      BY <1>1, <1>4, WhoKept
    <2>3. \A u \in User : stored[u] # 0 => stored[u] \in Pair
      BY DEF TypeOK, Known
    <2> QED BY <1>1, <1>4, <2>1, <2>2, <2>3 DEF AccountsOK
  <1> QED BY <1>5, <1>6, <1>7, <1>8

-----------------------------------------------------------------------------

\* The tabs start on one login, or signed out.
LEMMA InitOK == Init => IInv
  <1> SUFFICES ASSUME Init PROVE IInv
    OBVIOUS
  <1> DEFINE n == IF SignedIn = {} THEN 0 ELSE 1
             u == CHOOSE v \in User : OpeningStatus[v] = "ACTIVE"
  <1>1. u \in User /\ OpeningStatus[u] = "ACTIVE"
    BY SessionsAssumption
  <1>2. PICK a \in 0 .. 1 :
          issued = IF n = 0 THEN <<>> ELSE <<[user |-> u, by |-> "login", age |-> a]>>
    BY DEF Init
  <1>3. /\ status = OpeningStatus
        /\ stored = [v \in User |-> IF v = u THEN n ELSE 0]
        /\ tokens = [t \in Tab |-> IF t \in SignedIn THEN 1 ELSE 0]
        /\ saved = n /\ shown = [t \in Tab |-> t \in SignedIn]
        /\ req = [w \in Wire |-> Silent]
        /\ edits = 0 /\ mishaps = 0 /\ plan \in Plans
    BY DEF Init
  <1> HIDE DEF u
  <1>4. /\ issued \in Seq(Granted) /\ Len(issued) = n
        /\ n = 1 => issued[1].user = u
    <2>1. CASE n = 0
      BY <1>2, <2>1, EmptySeq
    <2>2. CASE n # 0
      <3> DEFINE g == [user |-> u, by |-> "login", age |-> a]
      <3>1. n = 1 /\ issued = <<g>> /\ g.user = u /\ g \in Granted
        BY <1>1, <1>2, <2>2 DEF Granted
      <3> HIDE DEF g
      <3> QED BY <3>1
    <2> QED BY <2>1, <2>2
  <1>5. Pair = 1 .. n /\ n \in {0, 1} /\ (SignedIn # {} => n = 1) /\ Known = 0 .. n
    BY <1>4 DEF Pair, Known
  <1> HIDE DEF n
  <1>6. \A w \in Wire : req[w] = Silent
    BY <1>3
  <1>7. TypeOK
    <2>1. req \in [Wire -> Wired]
      BY <1>3, SilentType
    <2>2. tokens \in [Tab -> Known] /\ stored \in [User -> Known] /\ saved \in Known
      BY <1>3, <1>5
    <2>3. edits \in 0 .. plan.edits /\ mishaps \in 0 .. plan.mishaps
      BY <1>3, SessionsAssumption
    <2>4. status \in [User -> Status \cup {"NONE"}]
      BY <1>3, SessionsAssumption
    <2>5. \A w \in Wire : req[w].pair \in Known /\ req[w].got \in Known
      BY <1>5, <1>6, SilentType
    <2> QED BY <1>3, <1>4, <2>1, <2>2, <2>3, <2>4, <2>5 DEF TypeOK
  <1>8. /\ \A t \in Tab : req[t] = Silent
        /\ \A c \in Call : req[c] = Silent
    BY <1>6 DEF Wire
  <1>9. WiresOK
    BY <1>6, <1>8, SilentType DEF WiresOK
  <1>10. RotatedFresh /\ RetryCarriesFreshToken /\ NoEviction
    BY <1>8, SilentType DEF RotatedFresh, RetryCarriesFreshToken, NoEviction
  <1>11. AccountsOK
    <2>1. \A v \in User : stored[v] = IF v = u THEN n ELSE 0
      BY <1>3
    <2>2. \A v \in User : stored[v] # 0 =>
             issued[stored[v]].user = v /\ status[v] # "NONE"
      BY <1>1, <1>3, <1>4, <1>5, <2>1
    <2>3. \A i \in Pair : status[issued[i].user] = "ACTIVE" /\ stored[issued[i].user] # 0
      BY <1>1, <1>3, <1>4, <1>5, <2>1
    <2> QED BY <1>6, <2>2, <2>3, SilentType DEF AccountsOK
  <1>12. ShownHasTokens
    <2>1. \A t \in Tab : shown[t] <=> t \in SignedIn
      BY <1>3, Zenon
    <2>2. \A t \in SignedIn : tokens[t] # 0
      BY <1>3, ClientAssumption
    <2> QED BY <2>1, <2>2 DEF ShownHasTokens
  <1> QED BY <1>7, <1>9, <1>10, <1>11, <1>12 DEF IInv

\* Every step keeps the invariant.
LEMMA NextOK == IInv /\ [Next]_vars => IInv'
  <1> SUFFICES ASSUME IInv, [Next]_vars PROVE IInv'
    OBVIOUS
  <1>1. ASSUME NEW c \in Call, Send(c) PROVE IInv'
    BY <1>1, SendKeeps
  <1>2. ASSUME NEW w \in Wire, Answer(w), UNCHANGED client PROVE IInv'
    BY <1>2, CheckLoginKeeps, CheckRefreshKeeps, StoreAndIssueKeeps, LogoutKeeps, UseApiKeeps
       DEF Answer
  <1>3. ASSUME NEW w \in Wire, Fail(w), UNCHANGED client PROVE IInv'
    BY <1>3, FailKeeps
  <1>4. ASSUME NEW w \in Wire, Deliver(w) PROVE IInv'
    BY <1>4, AwaitRefreshKeeps, SettleKeeps, RotateKeeps, GiveUpKeeps DEF Deliver
  <1>5. ASSUME NEW u \in User, Administer(u), UNCHANGED client PROVE IInv'
    BY <1>5, AdministerKeeps
  <1>6. ASSUME NEW t \in Tab, Reload(t) PROVE IInv'
    BY <1>6, ReloadKeeps
  <1>7. ASSUME NEW n \in Pair, Expire(n) PROVE IInv'
    BY <1>7, ExpireKeeps
  <1>8. CASE UNCHANGED vars
    <2>1. UNCHANGED <<status, stored, edits, issued, mishaps, req, plan, tokens, saved, shown>>
      BY <1>8 DEF vars, serverVars, accounts, client
    <2>2. TypeOK' /\ WiresOK' /\ RotatedFresh'
      BY <2>1 DEF IInv, TypeOK, WiresOK, RotatedFresh, Known, Pair, Granted
    <2>3. RetryCarriesFreshToken' /\ ShownHasTokens' /\ NoEviction'
      BY <2>1 DEF IInv, RetryCarriesFreshToken, ShownHasTokens, NoEviction
    <2>4. AccountsOK'
      BY <2>1, TabKeepsAccounts
    <2> QED BY <2>2, <2>3, <2>4 DEF IInv
  <1> QED BY <1>1, <1>2, <1>3, <1>4, <1>5, <1>6, <1>7, <1>8 DEF Next, Quiet

(***************************************************************************)
(* The invariant holds in every state of API and tabs: the guards and the   *)
(* two statements of login and refresh on one side, the shared refresh of   *)
(* axios.ts:62-112 on the other.                                            *)
(***************************************************************************)
THEOREM SessionsInductive == Spec => []IInv
  <1>1. Init => IInv
    BY InitOK
  <1>2. IInv /\ [Next]_vars => IInv'
    BY NextOK
  <1> QED BY <1>1, <1>2, PTL DEF Spec

\* The users table, the tokens and the requests keep their types, whatever the
\* number of users, tabs and calls.
THEOREM SessionsTyped == Spec => []TypeOK
  <1>1. IInv => TypeOK
    BY DEF IInv
  <1> QED BY <1>1, SessionsInductive, PTL

\* A call that waited for the refresh of its tab is not answered 401 again
\* (axios.ts:62-112), however many shared the refresh.
THEOREM RetriesSucceed == Spec => []RetryCarriesFreshToken
  <1>1. IInv => RetryCarriesFreshToken
    BY DEF IInv
  <1> QED BY <1>1, SessionsInductive, PTL

\* AuthProvider shows no session whose tokens are gone (auth-context.tsx:52-76).
THEOREM ViewFollowsTokens == Spec => []ShownHasTokens
  <1>1. IInv => ShownHasTokens
    BY DEF IInv
  <1> QED BY <1>1, SessionsInductive, PTL

\* Tabs that refresh one pair at once do not sign each other out
\* (auth.service.ts:71): the comparison of hashes tells only users apart.
THEOREM TabsDoNotEvict == Spec => []NoEviction
  <1>1. IInv => NoEviction
    BY DEF IInv
  <1> QED BY <1>1, SessionsInductive, PTL

-----------------------------------------------------------------------------
\* The API implements Accounts when nothing runs between the two statements.

\* What was read still holds when the pair is stored.
CheckedFits ==
    \A w \in Wire : req[w].phase = "checked" =>
        /\ status[Who(w)] = "ACTIVE"
        /\ req[w].kind = "refresh" => stored[Who(w)] # 0

\* The wires a step leaves checked were so before.
NoneChecked == \A w \in Wire : req'[w].phase = "checked" => req'[w] = req[w]

\* No step of a tab has the API read anything.
LEMMA TabStepChecksNone ==
  ASSUME IInv,
         \/ \E c \in Call : Send(c)
         \/ \E w \in Wire : Deliver(w)
         \/ \E t \in Tab : Reload(t)
  PROVE  NoneChecked /\ UNCHANGED <<status, stored, issued>>
  <1> USE DEF IInv
  <1>1. req \in [Wire -> Wired]
    BY DEF TypeOK
  <1>2. ASSUME NEW c \in Call, Send(c) PROVE NoneChecked /\ UNCHANGED <<status, stored, issued>>
    <2>1. PICK x : x.phase = "sent" /\ req' = [req EXCEPT ![c] = x]
      <3>1. PICK t \in Tab, k \in plan.asks[c] :
              \E u \in IF k = "login" THEN User ELSE {"none"} :
                req' = [req EXCEPT ![c] = [Silent EXCEPT !.phase = "sent", !.kind = k,
                                                 !.tab = t, !.user = u, !.pair = tokens[t]]]
        BY <1>2 DEF Send
      <3>2. PICK u : req' = [req EXCEPT ![c] = [Silent EXCEPT !.phase = "sent", !.kind = k,
                                                 !.tab = t, !.user = u, !.pair = tokens[t]]]
        BY <3>1
      <3> QED BY <3>2 DEF Silent
    <2> QED BY <1>1, <1>2, <2>1 DEF Send, accounts, NoneChecked
  <1>3. ASSUME NEW c \in Wire, AwaitRefresh(c)
        PROVE  NoneChecked /\ UNCHANGED <<status, stored, issued>>
    <2> DEFINE t == req[c].tab
               x == [req[c] EXCEPT !.phase = "waiting", !.retried = TRUE,
                                   !.answer = "none", !.pair = 0]
               y == [Silent EXCEPT !.phase = "sent", !.kind = "refresh", !.tab = t,
                                   !.pair = tokens[t]]
    <2>1. c \in Call /\ Outcome(c).phase = "settled"
      BY <1>3, OutcomeType DEF AwaitRefresh, Arrived
    <2>2. x.phase = "waiting" /\ y.phase = "sent"
      BY <1>1 DEF Wired, Silent
    <2>3. /\ UNCHANGED <<status, stored, issued>>
          /\ \/ req' = [req EXCEPT ![c] = x]
             \/ req' = [req EXCEPT ![c] = x, ![t] = y]
             \/ req' = [req EXCEPT ![c] = Outcome(c)]
      BY <1>3 DEF AwaitRefresh, accounts
    <2> HIDE DEF x, y, t
    <2> QED BY <1>1, <2>1, <2>2, <2>3 DEF NoneChecked
  <1>4. ASSUME NEW c \in Wire, Settle(c)
        PROVE  NoneChecked /\ UNCHANGED <<status, stored, issued>>
    <2>1. c \in Call /\ Outcome(c).phase = "settled"
      BY <1>4, OutcomeType DEF Settle, Arrived
    <2> QED BY <1>1, <1>4, <2>1 DEF Settle, accounts, NoneChecked
  <1>5. ASSUME NEW t \in Tab, Rotate(t)
        PROVE  NoneChecked /\ UNCHANGED <<status, stored, issued>>
    <2>1. \A w \in Wire : [req[w] EXCEPT !.phase = "sent", !.pair = req[t].got].phase = "sent"
      BY <1>1 DEF Wired
    <2> QED BY <1>5, <2>1, SilentType DEF Rotate, NewToken, accounts, NoneChecked
  <1>6. ASSUME NEW t \in Tab, GiveUp(t)
        PROVE  NoneChecked /\ UNCHANGED <<status, stored, issued>>
    <2>1. \A w \in Waiting(t) : Outcome(w).phase = "settled"
      BY OutcomeType DEF Waiting
    <2> QED BY <1>6, <2>1, SilentType DEF GiveUp, Resumed, accounts, NoneChecked
  <1>7. ASSUME NEW t \in Tab, Reload(t)
        PROVE  NoneChecked /\ UNCHANGED <<status, stored, issued>>
    BY <1>7 DEF Reload, serverVars, accounts, NoneChecked
  <1> QED BY <1>2, <1>3, <1>4, <1>5, <1>6, <1>7 DEF Deliver

\* What Accounts sees of a state.
Open   == {u \in User : stored[u] # 0}
Grants == [n \in Pair |-> [user |-> issued[n].user, by |-> issued[n].by]]

\* A step of the tabs, or a failure, is not seen.
LEMMA QuietStep ==
  ASSUME IInv, CheckedFits, NoneChecked, UNCHANGED <<status, stored, issued>>
  PROVE  CheckedFits' /\ UNCHANGED <<status, Open, Grants>>
  <1>1. \A w \in Wire : req'[w].phase = "checked" => Who(w)' = Who(w)
    BY WhoKept DEF IInv, NoneChecked
  <1> QED BY <1>1 DEF CheckedFits, NoneChecked, Open, Grants, Pair

\* Reading the row, answering and failing are not seen.
LEMMA CheckStep ==
  ASSUME IInv, CheckedFits, UNCHANGED client, NEW w \in Wire,
         CheckLogin(w) \/ CheckRefresh(w) \/ UseApi(w) \/ Fail(w)
  PROVE  CheckedFits' /\ UNCHANGED <<status, Open, Grants>>
  <1> USE DEF IInv
  <1>1. UNCHANGED <<status, stored, issued>> /\ TypeOK
    BY DEF CheckLogin, CheckRefresh, UseApi, Fail, accounts
  <1>2. CASE Pass(w) /\ status[Who(w)] = "ACTIVE" /\ (req[w].kind = "refresh" => stored[Who(w)] # 0)
    <2>1. Elsewhere(w) /\ SameQuestion(w) /\ Who(w)' = Who(w)
      BY <1>1, <1>2, PassFacts DEF SameQuestion, Who
    <2>2. \A v \in Wire : v # w /\ req'[v].phase = "checked" => Who(v)' = Who(v)
      BY <1>1, <2>1, WhoKept DEF Elsewhere
    <2>3. CheckedFits'
      BY <1>1, <1>2, <2>1, <2>2 DEF CheckedFits, Elsewhere, SameQuestion
    <2> QED BY <1>1, <2>3 DEF Open, Grants, Pair
  <1>3. CASE \E how \in {"ok", "401", "403", "failed"} : Reply(w, how, 0)
    <2>1. NoneChecked
      BY <1>1, <1>3, ReplyFacts DEF Elsewhere, NoneChecked
    <2> QED BY <1>1, <2>1, QuietStep
  <1> QED BY <1>2, <1>3 DEF CheckLogin, CheckRefresh, UseApi, Fail, Refuse, Sent, MayRefresh

\* Storing the hash grants a pair: what was read before still holds.
LEMMA StoreAndIssueStep ==
  ASSUME IInv, CheckedFits, NEW w \in Wire, StoreAndIssue(w)
  PROVE  CheckedFits' /\ \E u \in User, by \in {"login", "refresh"} : Promise!Grant(u, by)
  <1> USE DEF IInv
  <1> DEFINE n == Len(issued) + 1
             g == [user |-> Who(w), by |-> req[w].kind, age |-> 0]
             S == [user : User, by : {"login", "refresh"}]
             e == [user |-> Who(w), by |-> req[w].kind]
  <1>1. /\ req[w].phase = "checked" /\ status' = status
        /\ issued' = Append(issued, g)
        /\ stored' = [stored EXCEPT ![Who(w)] = n]
        /\ Reply(w, "ok", n)
    BY DEF StoreAndIssue
  <1>2. Who(w) \in User /\ req[w].kind \in {"login", "refresh"}
    BY <1>1, WhoIsUser DEF WiresOK
  <1>3. /\ issued \in Seq(Granted) /\ Len(issued) \in Nat
        /\ g \in Granted /\ e \in S /\ g.user = e.user /\ g.by = e.by
    BY <1>2, KnownPairs DEF TypeOK, Granted
  <1> HIDE DEF g
  <1>4. /\ Len(issued') = n /\ issued'[n] = g
        /\ \A i \in Pair : issued'[i] = issued[i]
    BY <1>1, <1>3, AppendProperties DEF Pair
  <1>5. /\ n \in Nat /\ n # 0
        /\ \A u \in User : stored'[u] = IF u = Who(w) THEN n ELSE stored[u]
    BY <1>1, <1>3 DEF TypeOK
  <1>6. NoneChecked
    BY <1>1, <1>5, ReplyFacts DEF Elsewhere, NoneChecked
  <1>7. CheckedFits'
    <2>1. \A v \in Wire : req'[v].phase = "checked" => Who(v)' = Who(v) /\ Who(v) \in User
      BY <1>4, <1>6, WhoKept DEF NoneChecked
    <2> QED BY <1>1, <1>5, <1>6, <2>1 DEF CheckedFits, NoneChecked
  <1>8. Open' = Open \cup {Who(w)}
    BY <1>2, <1>5 DEF Open
  <1>9. Grants' = Append(Grants, e)
    <2>1. \A i \in Pair : [user |-> issued[i].user, by |-> issued[i].by] \in S
      BY KnownPairs DEF Granted
    <2>2. Grants \in Seq(S) /\ Len(Grants) = Len(issued)
      BY <1>3, <2>1 DEF Grants, Pair
    <2>3. /\ Append(Grants, e) \in Seq(S) /\ Len(Append(Grants, e)) = n
          /\ \A i \in Pair : Append(Grants, e)[i] = Grants[i]
          /\ Append(Grants, e)[n] = e
      BY <1>3, <2>2, AppendProperties DEF Pair
    <2>4. Pair' = Pair \cup {n} /\ Pair' = 1 .. n
      BY <1>3, <1>4 DEF Pair
    <2>5. Grants' = [i \in 1 .. n |-> [user |-> issued'[i].user, by |-> issued'[i].by]]
      BY <2>4 DEF Grants
    <2>6. \A i \in 1 .. n : Grants'[i] \in S /\ Grants'[i] = Append(Grants, e)[i]
      <3> TAKE i \in 1 .. n
      <3>1. CASE i \in Pair
        BY <1>4, <2>1, <2>3, <2>5, <3>1 DEF Grants
      <3>2. CASE i = n
        BY <1>3, <1>4, <2>3, <2>5, <3>2
      <3> QED BY <2>4, <3>1, <3>2
    <2>7. Grants' \in Seq(S) /\ Len(Grants') = n
      BY <1>5, <2>5, <2>6
    <2> HIDE DEF n, e, S
    <2> QED BY <2>3, <2>6, <2>7, SeqEqual
  <1>10. status[Who(w)] = "ACTIVE" /\ (req[w].kind = "refresh" => Who(w) \in Open)
    BY <1>1, <1>2 DEF CheckedFits, Open
  <1>11. PICK u \in User, by \in {"login", "refresh"} : u = Who(w) /\ by = req[w].kind
    BY <1>2
  <1>12. Promise!Grant(u, by)
    BY <1>1, <1>8, <1>9, <1>10, <1>11 DEF Promise!Grant, Open, Grants
  <1> QED BY <1>7, <1>12

\* A logout closes the session, or is refused.
LEMMA LogoutStep ==
  ASSUME IInv, CheckedFits, Between = {}, NEW w \in Wire, Logout(w)
  PROVE  /\ CheckedFits'
         /\ \/ \E u \in User : Promise!Close(u)
            \/ UNCHANGED <<status, Open, Grants>>
  <1> USE DEF IInv
  <1> DEFINE u == Who(w)
  <1>1. /\ status' = status /\ issued' = issued
        /\ req[w].phase = "sent" /\ req[w].kind = "logout"
    BY DEF Logout, Sent
  <1>2. \E how \in {"ok", "401"} : Reply(w, how, 0)
    BY DEF Logout, Refuse
  <1>3. NoneChecked
    BY <1>2, ReplyFacts DEF Elsewhere, NoneChecked
  <1>4. CASE stored' = stored
    BY <1>1, <1>3, <1>4, QuietStep
  <1>5. CASE /\ AccessAccepted(req[w].pair) /\ ~Midway(u)
             /\ stored' = [stored EXCEPT ![u] = 0]
    <2>1. u \in User
      <3>1. req[w].pair \in Pair
        BY <1>5, WireType DEF AccessAccepted, Known
      <3> QED BY <1>1, <3>1, KnownPairs DEF Who
    <2> HIDE DEF u
    <2>2. \A v \in User : stored'[v] = IF v = u THEN 0 ELSE stored[v]
      BY <1>5 DEF TypeOK
    <2>3. \A v \in Wire : req'[v].phase = "checked" =>
             Who(v)' = Who(v) /\ Who(v) \in User /\ Who(v) # u
      BY <1>1, <1>3, <1>5, WhoKept DEF NoneChecked, Midway
    <2>4. CheckedFits'
      BY <1>1, <1>3, <2>2, <2>3 DEF CheckedFits, NoneChecked
    <2>5. Open' = Open \ {u} /\ Grants' = Grants
      BY <1>1, <2>2 DEF Open, Grants, Pair
    <2> QED BY <1>1, <2>1, <2>4, <2>5 DEF Promise!Close, Open, Grants
  <1> QED BY <1>4, <1>5 DEF Logout

\* UsersService edits an account or deactivates it.
LEMMA AdministerStep ==
  ASSUME IInv, CheckedFits, Between = {}, NEW u \in User, Administer(u)
  PROVE  CheckedFits' /\ (Promise!Edit(u) \/ Promise!Deactivate(u))
  <1> USE DEF IInv
  <1>1. PICK s \in Status, h \in {0, stored[u]} :
          /\ Change(u, s, h)
          /\ \/ h = stored[u]
             \/ h = 0 /\ s = "INACTIVE"
    <2>1. status[u] = "NONE" => stored[u] = 0
      BY DEF AccountsOK
    <2> QED BY <2>1 DEF Administer, Register, Create, Activate, Update, Deactivate, Status
  <1>2. /\ UNCHANGED <<issued, req>> /\ ~Midway(u)
        /\ status' = [status EXCEPT ![u] = s]
        /\ stored' = [stored EXCEPT ![u] = h]
    BY <1>1 DEF Change
  <1>3. \A v \in User : /\ status'[v] = IF v = u THEN s ELSE status[v]
                        /\ stored'[v] = IF v = u THEN h ELSE stored[v]
    BY <1>2 DEF TypeOK
  <1>4. \A w \in Wire : req[w].phase = "checked" =>
           Who(w)' = Who(w) /\ Who(w) \in User /\ Who(w) # u
    BY <1>2, WhoKept DEF Midway
  <1>5. CheckedFits'
    BY <1>2, <1>3, <1>4 DEF CheckedFits
  <1>6. Grants' = Grants
    BY <1>2 DEF Grants, Pair
  <1>7. CASE h = stored[u]
    <2>1. Open' = Open
      BY <1>3, <1>7 DEF Open
    <2> QED BY <1>2, <1>5, <1>6, <2>1 DEF Promise!Edit, Open, Grants, Status
  <1>8. CASE h = 0 /\ s = "INACTIVE"
    <2>1. Open' = Open \ {u}
      BY <1>3, <1>8 DEF Open
    <2> QED BY <1>2, <1>5, <1>6, <1>8, <2>1 DEF Promise!Deactivate, Open, Grants
  <1> QED BY <1>1, <1>7, <1>8

\* Age is not seen.
LEMMA ExpireStep ==
  ASSUME IInv, CheckedFits, NEW n \in Pair, Expire(n)
  PROVE  CheckedFits' /\ UNCHANGED <<status, Open, Grants>>
  <1> USE DEF IInv
  <1> DEFINE g == [issued[n] EXCEPT !.age = @ + 1]
  <1>1. UNCHANGED <<status, stored, req>> /\ issued' = [issued EXCEPT ![n] = g]
        /\ issued[n].age < 2
    BY DEF Expire, accounts
  <1>2. g \in Granted /\ g.user = issued[n].user /\ g.by = issued[n].by
    BY <1>1, KnownPairs DEF Granted
  <1> HIDE DEF g
  <1>3. /\ Len(issued') = Len(issued)
        /\ \A i \in Pair : issued'[i] = IF i = n THEN g ELSE issued[i]
    BY <1>1, <1>2, ExceptSeq DEF TypeOK, Pair
  <1>4. Pair' = Pair /\ \A i \in Pair : /\ issued'[i].user = issued[i].user
                                       /\ issued'[i].by = issued[i].by
    BY <1>2, <1>3 DEF Pair
  <1>5. \A w \in Wire : req[w].phase = "checked" => Who(w)' = Who(w)
    BY <1>1, <1>4, WhoKept
  <1> QED BY <1>1, <1>4, <1>5 DEF CheckedFits, Open, Grants

\* Every step is one of Accounts or a stutter.
LEMMA StepImplements ==
  ASSUME Between = {}, IInv, CheckedFits, [Next]_vars
  PROVE  CheckedFits' /\ [Promise!Serve]_(Promise!accountVars)
  <1> DEFINE OK == CheckedFits' /\ [Promise!Serve]_(Promise!accountVars)
  <1>1. UNCHANGED <<status, Open, Grants>> => UNCHANGED Promise!accountVars
    BY DEF Promise!accountVars, Open, Grants
  <1>2. ASSUME \/ \E c \in Call : Send(c)
               \/ \E w \in Wire : Deliver(w)
               \/ \E t \in Tab : Reload(t)
        PROVE  OK
    BY <1>1, <1>2, TabStepChecksNone, QuietStep
  <1>3. ASSUME NEW w \in Wire, Answer(w) \/ Fail(w), UNCHANGED client
        PROVE  OK
    <2>1. CASE CheckLogin(w) \/ CheckRefresh(w) \/ UseApi(w) \/ Fail(w)
      BY <1>1, <1>3, <2>1, CheckStep
    <2>2. CASE StoreAndIssue(w)
      BY <2>2, StoreAndIssueStep DEF Promise!Serve
    <2>3. CASE Logout(w)
      BY <1>1, <2>3, LogoutStep DEF Promise!Serve
    <2> QED BY <1>3, <2>1, <2>2, <2>3 DEF Answer
  <1>4. ASSUME NEW u \in User, Administer(u)
        PROVE  OK
    BY <1>4, AdministerStep DEF Promise!Serve
  <1>5. ASSUME NEW n \in Pair, Expire(n)
        PROVE  OK
    BY <1>1, <1>5, ExpireStep
  <1>6. CASE UNCHANGED vars
    <2>1. UNCHANGED <<status, stored, issued, req>> /\ NoneChecked
      BY <1>6 DEF vars, serverVars, accounts, NoneChecked
    <2> QED BY <1>1, <2>1, QuietStep
  <1> QED BY <1>2, <1>3, <1>4, <1>5, <1>6 DEF Next, Quiet

(***************************************************************************)
(* When no logout and no change of an account runs between the two          *)
(* statements of its logins and refreshes (auth.service.ts:29-113), a pair  *)
(* is granted only to an ACTIVE account and a refresh opens no session that *)
(* was closed.                                                              *)
(***************************************************************************)
THEOREM SessionsImplementAccounts ==
  ASSUME Between = {}
  PROVE  Spec => ImplementsAccounts
  <1>1. Init => CheckedFits /\ Promise!SomeAccounts
    <2> SUFFICES ASSUME Init PROVE CheckedFits /\ Promise!SomeAccounts
      OBVIOUS
    <2> DEFINE n == IF SignedIn = {} THEN 0 ELSE 1
               u == CHOOSE v \in User : OpeningStatus[v] = "ACTIVE"
    <2>1. \A w \in Wire : req[w].phase = "idle"
      BY SilentType DEF Init
    <2>2. u \in User /\ OpeningStatus[u] = "ACTIVE"
      BY SessionsAssumption
    <2>3. status = OpeningStatus /\ stored = [v \in User |-> IF v = u THEN n ELSE 0]
      BY DEF Init
    <2> HIDE DEF n, u
    <2> QED BY <2>1, <2>2, <2>3 DEF CheckedFits, Promise!SomeAccounts
  <1>2. IInv /\ CheckedFits /\ [Next]_vars => CheckedFits' /\ [Promise!Serve]_(Promise!accountVars)
    BY StepImplements
  <1> QED BY <1>1, <1>2, SessionsInductive, PTL DEF Spec, ImplementsAccounts, Promise!AccountsSpec
=============================================================================
