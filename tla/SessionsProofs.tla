---------------------------- MODULE SessionsProofs ----------------------------
(* Sign-in sessions of any number of browsers: what rotation, sign-out and the *)
(* theft alarm do to the sessions of the account, whatever the answers and     *)
(* calls are that come between.                                                *)
EXTENDS Sessions, TLAPS

Ats == {"idle", "refresh", "verify", "logout", "link", "api", "write", "rotate", "reuse",
        "denied", "issue", "answer", "bye", "use", "sweep"}
TokenType == [state : {"live", "revoked"}, family : Nat, verified : Nat, overtaken : Nat]
CallType == [kind : Kinds, at : Ats, cookie : Nat, good : BOOLEAN, retried : BOOLEAN,
             verified : Nat, checked : Nat, issued : Nat]

\* A call with all fields but the access token's.
Fields(r, kind, at, cookie, verified, checked, issued) ==
  /\ r \in CallType
  /\ r.kind = kind /\ r.at = at /\ r.cookie = cookie
  /\ r.verified = verified /\ r.checked = checked /\ r.issued = issued

LEMMA Booleans == TRUE \in BOOLEAN /\ FALSE \in BOOLEAN /\ \A a, b : (a = b) \in BOOLEAN
  BY Zenon

LEMMA IdleFields == Fields(Idle, "none", "idle", 0, 0, 0, 0)
  BY Booleans DEF Fields, Idle, CallType, Kinds, Ats

LEMMA BegunFields ==
  \A k \in Kinds, l \in Ats, n \in Nat, g \in BOOLEAN :
    Fields([Idle EXCEPT !.kind = k, !.at = l, !.cookie = n, !.good = g], k, l, n, 0, 0, 0)
<1> SUFFICES ASSUME NEW k \in Kinds, NEW l \in Ats, NEW n \in Nat, NEW g \in BOOLEAN,
                    NEW q, q = [Idle EXCEPT !.kind = k, !.at = l, !.cookie = n, !.good = g]
             PROVE  Fields(q, k, l, n, 0, 0, 0)
  OBVIOUS
<1>1. Idle \in CallType
  BY IdleFields DEF Fields
<1>2. q \in CallType
  BY <1>1 DEF CallType
<1>3. q.kind = k /\ q.at = l /\ q.cookie = n
  BY <1>1 DEF CallType
<1>4. q.verified = 0 /\ q.checked = 0 /\ q.issued = 0
  BY <1>1, IdleFields DEF CallType, Fields
<1> QED BY <1>2, <1>3, <1>4 DEF Fields

LEMMA LoadedFields ==
  \A k \in Kinds, l \in Ats, g \in BOOLEAN :
    Fields([Idle EXCEPT !.kind = k, !.at = l, !.good = g], k, l, 0, 0, 0, 0)
  BY IdleFields, ZenonT(30) DEF Fields, CallType

LEMMA GoesFields ==
  \A r \in CallType, l \in Ats :
    Fields([r EXCEPT !.at = l], r.kind, l, r.cookie, r.verified, r.checked, r.issued)
  BY DEF Fields, CallType

LEMMA DeniedFields ==
  \A r \in CallType, l \in Ats, n \in Nat :
    Fields([r EXCEPT !.at = l, !.cookie = n], r.kind, l, n, r.verified, r.checked, r.issued)
  BY ZenonT(30) DEF Fields, CallType

LEMMA CheckedFields ==
  \A r \in CallType, l \in Ats, n \in Nat :
    Fields([r EXCEPT !.checked = n, !.at = l], r.kind, l, r.cookie, r.verified, n, r.issued)
  BY ZenonT(30) DEF Fields, CallType

LEMMA VerifiedFields ==
  \A r \in CallType, l \in Ats, v, n \in Nat :
    Fields([r EXCEPT !.at = l, !.verified = v, !.checked = n], r.kind, l, r.cookie, v, n, r.issued)
<1> SUFFICES ASSUME NEW r \in CallType, NEW l \in Ats, NEW v \in Nat, NEW n \in Nat,
                    NEW q, q = [r EXCEPT !.at = l, !.verified = v, !.checked = n]
             PROVE  Fields(q, r.kind, l, r.cookie, v, n, r.issued)
  OBVIOUS
<1>1. q \in CallType
  BY DEF CallType
<1>2. q.kind = r.kind /\ q.at = l /\ q.cookie = r.cookie
  BY DEF CallType
<1>3. q.verified = v /\ q.checked = n /\ q.issued = r.issued
  BY DEF CallType
<1> QED BY <1>1, <1>2, <1>3 DEF Fields

LEMMA IssuedFields ==
  \A r \in CallType, l \in Ats, n \in Nat :
    Fields([r EXCEPT !.at = l, !.issued = n], r.kind, l, r.cookie, r.verified, r.checked, n)
  BY ZenonT(30) DEF Fields, CallType

LEMMA AnsweredFields ==
  \A r \in CallType, l \in Ats, k \in Kinds, g, t \in BOOLEAN, i, n \in Nat :
    Fields([r EXCEPT !.at = l, !.good = g, !.kind = k, !.retried = t, !.issued = i, !.cookie = n],
           k, l, n, r.verified, r.checked, i)
<1> TAKE r \in CallType, l \in Ats, k \in Kinds, g, t \in BOOLEAN, i, n \in Nat
<1> DEFINE q == [r EXCEPT !.at = l, !.good = g, !.kind = k, !.retried = t, !.issued = i,
                          !.cookie = n]
<1>1. q \in CallType
  BY DEF CallType
<1>2. q.kind = k /\ q.at = l /\ q.cookie = n /\ q.issued = i
  BY DEF CallType
<1>3. q.verified = r.verified /\ q.checked = r.checked
  BY DEF CallType
<1> QED BY <1>1, <1>2, <1>3 DEF Fields

\* What is known of a call, wherever it is.
CallOk(c) ==
  /\ call[c].cookie <= Len(token) /\ call[c].issued <= Len(token)
  /\ call[c].verified <= password
  /\ At(c, "rotate") \/ (At(c, "issue") /\ Kind(c) # "login") => call[c].cookie > 0
  /\ At(c, "answer") => call[c].issued > 0
  /\ At(c, "use") \/ At(c, "sweep") => password > 0
  /\ At(c, "verify") => Kind(c) = "login"
  /\ Kind(c) = "login" => call[c].at \in {"verify", "issue", "answer"}

Typed ==
  /\ token \in Seq(TokenType)
  /\ \A i \in DOMAIN token : token[i].family \in 1..i /\ token[i].verified <= password
  /\ jar \in [Browsers -> 0..Len(token)]
  /\ access \in [Tabs -> {"none", "fresh", "expired"}]
  /\ call \in [Calls -> CallType]
  /\ password \in Nat /\ lost \in 0..MaxLost + 1
  /\ sweeps \in [count : Nat, last : Nat, kept : Nat, by : SUBSET (Browsers \union {"reset"}),
                 alarm : BOOLEAN]

TypeInv == Typed /\ \A c \in Calls : CallOk(c)

-----------------------------------------------------------------------------
\* One call moves on, and what it has then.
Turns(c, kind, at, cookie, verified, checked, issued) ==
  /\ call' \in [Calls -> CallType]
  /\ Fields(call'[c], kind, at, cookie, verified, checked, issued)
  /\ \A d \in Calls \ {c} : call'[d] = call[d]
Passes(c, l) == Turns(c, call[c].kind, l, call[c].cookie, call[c].verified, call[c].checked,
                      call[c].issued)
Rests(c) == Turns(c, "none", "idle", 0, 0, 0, 0)

LEMMA Turned ==
  ASSUME Typed, NEW c \in Calls, NEW k, NEW l, NEW n, NEW v, NEW m, NEW i,
         NEW w, Fields(w, k, l, n, v, m, i), call' = [call EXCEPT ![c] = w]
  PROVE  Turns(c, k, l, n, v, m, i)
  BY DEF Typed, Turns, Fields

LEMMA GoesPasses ==
  ASSUME Typed, NEW c \in Calls, NEW l \in Ats, Goes(c, l) PROVE Passes(c, l)
<1> DEFINE w == [call[c] EXCEPT !.at = l]
<1>1. call[c] \in CallType
  BY DEF Typed
<1>2. call' = [call EXCEPT ![c] = w]
  BY DEF Goes
<1> HIDE DEF w
<1> QED BY <1>1, <1>2, GoesFields, Turned DEF Passes, w

LEMMA IdleRests ==
  ASSUME Typed, NEW c \in Calls, call' = [call EXCEPT ![c] = Idle] PROVE Rests(c)
  BY IdleFields, Turned DEF Rests

\* The moves of the calls, action by action.
LEMMA BeginTurns ==
  ASSUME Typed, NEW c \in Calls, NEW kind \in Kinds, Begin(c, kind)
  PROVE  \E l \in {"refresh", "verify", "logout", "link", "api"} :
           /\ Turns(c, kind, l, jar[Browser(c)], 0, 0, 0)
           /\ kind = "boot" => l = "refresh"
           /\ l = "verify" <=> kind = "login"
<1> DEFINE l == FirstStop(kind)
           g == access[TabOf[c]] = "fresh"
           w == [Idle EXCEPT !.kind = kind, !.at = l, !.cookie = jar[Browser(c)], !.good = g]
<1>1. jar[Browser(c)] \in Nat
  BY SessionAssumption DEF Typed, Browser
<1>2. l \in {"refresh", "verify", "logout", "link", "api"} /\ (kind = "boot" => l = "refresh")
      /\ (l = "verify" <=> kind = "login")
  BY DEF FirstStop
<1>3. g \in BOOLEAN
  BY Booleans
<1>4. call' = [call EXCEPT ![c] = w]
  BY DEF Begin
<1> HIDE DEF l, g
<1>5. l \in Ats
  BY <1>2 DEF Ats
<1>6. Fields(w, kind, l, jar[Browser(c)], 0, 0, 0)
  BY <1>1, <1>3, <1>5, BegunFields
<1> HIDE DEF w
<1>7. Turns(c, kind, l, jar[Browser(c)], 0, 0, 0)
  BY <1>4, <1>6, Turned
<1> QED BY <1>2, <1>7

LEMMA DeniedTurns ==
  ASSUME Typed, NEW c \in Calls, Denied(c)
  PROVE  \/ Rests(c)
         \/ Turns(c, call[c].kind, "refresh", jar[Browser(c)], call[c].verified, call[c].checked,
                  call[c].issued)
<1> DEFINE w == [call[c] EXCEPT !.at = "refresh", !.cookie = jar[Browser(c)]]
<1>1. jar[Browser(c)] \in Nat /\ "refresh" \in Ats /\ call[c] \in CallType
  BY SessionAssumption DEF Typed, Browser, Ats
<1>2. call' = [call EXCEPT ![c] = Idle] \/ call' = [call EXCEPT ![c] = w]
  BY DEF Denied
<1>3. Fields(w, call[c].kind, "refresh", jar[Browser(c)], call[c].verified, call[c].checked,
             call[c].issued)
  BY <1>1, DeniedFields
<1> HIDE DEF w
<1> QED BY <1>2, <1>3, IdleRests, Turned

LEMMA FindTurns ==
  ASSUME Typed, NEW c \in Calls, FindToken(c)
  PROVE  \E l \in {"denied", "rotate", "reuse"} :
           /\ Turns(c, call[c].kind, l, call[c].cookie, call[c].verified, sweeps.count,
                    call[c].issued)
           /\ l = "rotate" => Live(call[c].cookie)
           /\ l = "reuse" => call[c].cookie # 0 /\ ~Live(call[c].cookie)
<1> DEFINE l == IF call[c].cookie = 0 THEN "denied"
                ELSE IF Live(call[c].cookie) THEN "rotate" ELSE "reuse"
           w == [call[c] EXCEPT !.checked = sweeps.count, !.at = l]
<1>1. sweeps.count \in Nat /\ l \in Ats /\ call[c] \in CallType
  BY DEF Typed, Ats
<1>2. call' = [call EXCEPT ![c] = w]
  BY DEF FindToken
<1>3. Fields(w, call[c].kind, l, call[c].cookie, call[c].verified, sweeps.count, call[c].issued)
  BY <1>1, CheckedFields
<1> HIDE DEF w
<1>4. Turns(c, call[c].kind, l, call[c].cookie, call[c].verified, sweeps.count, call[c].issued)
  BY <1>2, <1>3, Turned
<1> QED BY <1>4

LEMMA VerifyTurns ==
  ASSUME Typed, NEW c \in Calls, VerifyPassword(c)
  PROVE  Turns(c, call[c].kind, "issue", call[c].cookie, password, sweeps.count, call[c].issued)
<1> DEFINE w == [call[c] EXCEPT !.at = "issue", !.verified = password, !.checked = sweeps.count]
<1>1. sweeps.count \in Nat /\ password \in Nat /\ "issue" \in Ats /\ call[c] \in CallType
  BY DEF Typed, Ats
<1>2. call' = [call EXCEPT ![c] = w]
  BY DEF VerifyPassword
<1>3. Fields(w, call[c].kind, "issue", call[c].cookie, password, sweeps.count, call[c].issued)
  BY <1>1, VerifiedFields
<1> HIDE DEF w
<1> QED BY <1>2, <1>3, Turned

LEMMA IssueTurns ==
  ASSUME Typed, NEW c \in Calls, IssueTokens(c)
  PROVE  Turns(c, call[c].kind, "answer", call[c].cookie, call[c].verified, call[c].checked,
               Len(token) + 1)
<1> DEFINE w == [call[c] EXCEPT !.at = "answer", !.issued = Len(token) + 1]
<1>1. Len(token) + 1 \in Nat /\ "answer" \in Ats /\ call[c] \in CallType
  BY DEF Typed, Ats
<1>2. call' = [call EXCEPT ![c] = w]
  BY DEF IssueTokens
<1>3. Fields(w, call[c].kind, "answer", call[c].cookie, call[c].verified, call[c].checked,
             Len(token) + 1)
  BY <1>1, IssuedFields
<1> HIDE DEF w
<1> QED BY <1>2, <1>3, Turned

LEMMA AnsweredTurns ==
  ASSUME Typed, NEW c \in Calls, Answered(c)
  PROVE  \/ Rests(c)
         \/ \E k \in Kinds \ {"login"} :
              Turns(c, k, "api", call[c].issued, call[c].verified, call[c].checked, 0)
<1> DEFINE k == IF Kind(c) = "boot" THEN "request" ELSE Kind(c)
           t == Kind(c) # "boot"
           w == [call[c] EXCEPT !.at = "api", !.good = TRUE, !.kind = k, !.retried = t,
                                !.issued = 0, !.cookie = call[c].issued]
<1>1. call[c].issued \in Nat /\ 0 \in Nat /\ "api" \in Ats /\ call[c] \in CallType /\ k \in Kinds
  BY DEF Typed, CallType, Ats, Kinds, Kind
<1>2. t \in BOOLEAN /\ TRUE \in BOOLEAN
  BY Zenon
<1>3. call' = [call EXCEPT ![c] = Idle] \/ (call' = [call EXCEPT ![c] = w] /\ k # "login")
  BY DEF Answered
<1> HIDE DEF k, t
<1>4. Fields(w, k, "api", call[c].issued, call[c].verified, call[c].checked, 0)
  BY <1>1, <1>2, AnsweredFields
<1> HIDE DEF w
<1> QED BY <1>1, <1>3, <1>4, IdleRests, Turned

LEMMA FailureTurns ==
  ASSUME Typed, NEW c \in Calls, AfterFailure(c)
  PROVE  Rests(c) \/ Turns(c, "request", "api", 0, 0, 0, 0)
<1> DEFINE g == access[TabOf[c]] = "fresh"
           w == [Idle EXCEPT !.kind = "request", !.at = "api", !.good = g]
<1>1. "request" \in Kinds /\ "api" \in Ats
  BY DEF Ats, Kinds
<1>2. g \in BOOLEAN
  BY Booleans
<1>3. call' = [call EXCEPT ![c] = Idle] \/ call' = [call EXCEPT ![c] = w]
  BY DEF AfterFailure
<1> HIDE DEF g
<1>4. Fields(w, "request", "api", 0, 0, 0, 0)
  BY <1>1, <1>2, LoadedFields
<1> HIDE DEF w
<1> QED BY <1>3, <1>4, IdleRests, Turned

-----------------------------------------------------------------------------
\* Tokens only end: those of S are revoked.
Ends(S) ==
  /\ token' \in Seq(TokenType) /\ Len(token') = Len(token) /\ DOMAIN token' = DOMAIN token
  /\ \A i \in DOMAIN token :
       /\ token'[i].family = token[i].family /\ token'[i].verified = token[i].verified
       /\ token'[i].overtaken = token[i].overtaken
       /\ token'[i].state = IF i \in S THEN "revoked" ELSE token[i].state

LEMMA RevokedFields ==
  \A r \in TokenType : LET w == [r EXCEPT !.state = "revoked"] IN
    /\ w \in TokenType /\ w.family = r.family /\ w.verified = r.verified
    /\ w.overtaken = r.overtaken /\ w.state = "revoked"
  BY DEF TokenType

LEMMA NoneEnds ==
  ASSUME Typed, UNCHANGED token PROVE Ends({})
  BY DEF Typed, Ends

LEMMA OneEnds ==
  ASSUME Typed, NEW n \in DOMAIN token, token' = [token EXCEPT ![n].state = "revoked"]
  PROVE  Ends({n})
<1>1. token \in Seq(TokenType)
  BY DEF Typed
<1> DEFINE w == [token[n] EXCEPT !.state = "revoked"]
<1>2. token[n] \in TokenType
  BY <1>1
<1>3. /\ w \in TokenType /\ w.family = token[n].family /\ w.verified = token[n].verified
      /\ w.overtaken = token[n].overtaken /\ w.state = "revoked"
  BY <1>2, RevokedFields
<1>4. token' = [token EXCEPT ![n] = w]
  OBVIOUS
<1> HIDE DEF w
<1> QED BY <1>1, <1>3, <1>4 DEF Ends

LEMMA AllEnd ==
  ASSUME Typed, NEW S, token' = RevokeAll(S)
  PROVE  Ends(DOMAIN token \ S)
<1>1. token \in Seq(TokenType) /\ DOMAIN token = 1..Len(token)
  BY DEF Typed
<1> DEFINE w(i) == [token[i] EXCEPT !.state = "revoked"]
           v(i) == IF i \in S THEN token[i] ELSE w(i)
<1>2. \A i \in 1..Len(token) :
        /\ w(i) \in TokenType /\ w(i).family = token[i].family
        /\ w(i).verified = token[i].verified /\ w(i).overtaken = token[i].overtaken
        /\ w(i).state = "revoked" /\ token[i] \in TokenType
  BY <1>1, RevokedFields
<1>3. token' = [i \in 1..Len(token) |-> v(i)]
  BY <1>1 DEF RevokeAll
<1> HIDE DEF w
<1>4. \A i \in 1..Len(token) : v(i) \in TokenType
  BY <1>2
<1>5. token' \in Seq(TokenType) /\ Len(token') = Len(token)
  <2> HIDE DEF v
  <2>1. Len(token) \in Nat
    BY <1>1
  <2>2. token' \in [1..Len(token) -> TokenType]
    BY <1>3, <1>4
  <2> QED BY <1>3, <2>1, <2>2
<1> QED BY <1>1, <1>2, <1>3, <1>5 DEF Ends

\* A new token is the last one.
LEMMA Issued ==
  ASSUME TypeInv, NEW c \in Calls, IssueTokens(c)
  PROVE  /\ token' \in Seq(TokenType) /\ Len(token') = Len(token) + 1
         /\ \A i \in DOMAIN token : i \in DOMAIN token' /\ token'[i] = token[i]
         /\ \A i \in DOMAIN token' : i \in DOMAIN token \/ i = Len(token) + 1
         /\ Len(token) + 1 \in DOMAIN token' /\ token'[Len(token) + 1].state = "live"
         /\ Kind(c) = "login" =>
              /\ token'[Len(token) + 1].family = Len(token) + 1
              /\ token'[Len(token) + 1].verified = call[c].verified
              /\ call[c].checked >= sweeps.count => token'[Len(token) + 1].overtaken = 0
         /\ Kind(c) # "login" =>
              /\ call[c].cookie \in DOMAIN token
              /\ token'[Len(token) + 1].family = token[call[c].cookie].family
              /\ token'[Len(token) + 1].verified = token[call[c].cookie].verified
              /\ call[c].checked >= sweeps.count =>
                   token'[Len(token) + 1].overtaken = token[call[c].cookie].overtaken
         /\ call[c].checked < sweeps.count => token'[Len(token) + 1].overtaken = sweeps.count
<1> DEFINE new == Len(token) + 1
           old == IF Kind(c) = "login"
                  THEN [family |-> new, verified |-> call[c].verified, overtaken |-> 0]
                  ELSE token[call[c].cookie]
           o == IF call[c].checked < sweeps.count THEN sweeps.count ELSE old.overtaken
           w == [state |-> "live", family |-> old.family, verified |-> old.verified,
                 overtaken |-> o]
<1>1. token \in Seq(TokenType) /\ call[c] \in CallType /\ sweeps.count \in Nat
  BY DEF TypeInv, Typed
<1>2. Kind(c) # "login" => call[c].cookie \in DOMAIN token
  BY <1>1 DEF TypeInv, CallOk, IssueTokens, CallType
<1>3. old.family \in Nat /\ old.verified \in Nat /\ old.overtaken \in Nat
  <2>1. Kind(c) # "login" => token[call[c].cookie] \in TokenType
    BY <1>1, <1>2
  <2>2. Len(token) + 1 \in Nat /\ call[c].verified \in Nat
    BY <1>1 DEF CallType
  <2>3. CASE Kind(c) = "login"
    BY <2>2, <2>3
  <2>4. CASE Kind(c) # "login"
    BY <2>1, <2>4 DEF TokenType
  <2> QED BY <2>3, <2>4
<1>4. /\ Kind(c) = "login" =>
           old.family = new /\ old.verified = call[c].verified /\ old.overtaken = 0
      /\ Kind(c) # "login" => old = token[call[c].cookie]
  OBVIOUS
<1>5. token' = Append(token, w)
  BY DEF IssueTokens
<1> HIDE DEF old
<1>6. w \in TokenType
  BY <1>1, <1>3 DEF TokenType
<1>7. /\ w.state = "live" /\ w.family = old.family /\ w.verified = old.verified
      /\ call[c].checked < sweeps.count => w.overtaken = sweeps.count
      /\ call[c].checked >= sweeps.count => w.overtaken = old.overtaken
  BY <1>1 DEF CallType
<1> HIDE DEF w
<1>8. /\ token' \in Seq(TokenType) /\ Len(token') = new
      /\ \A i \in DOMAIN token : i \in DOMAIN token' /\ token'[i] = token[i]
      /\ \A i \in DOMAIN token' : i \in DOMAIN token \/ i = new
      /\ new \in DOMAIN token' /\ token'[new] = w
  BY <1>1, <1>5, <1>6
<1> QED BY <1>2, <1>4, <1>7, <1>8

-----------------------------------------------------------------------------
\* What an action leaves in order: the tokens, and every call but its own.
TokensTyped ==
  /\ token \in Seq(TokenType)
  /\ \A i \in DOMAIN token : token[i].family \in 1..i /\ token[i].verified <= password

LEMMA EndsTyped ==
  ASSUME TypeInv, NEW S, Ends(S), password' \in Nat, password' >= password
  PROVE  TokensTyped' /\ Len(token') = Len(token)
<1>1. \A i \in DOMAIN token : token[i].verified \in Nat /\ token[i].family \in 1..i
  <2>1. \A i \in DOMAIN token : token[i] \in TokenType /\ token[i].family \in 1..i
    BY DEF TypeInv, Typed
  <2> QED BY <2>1 DEF TokenType
<1> QED BY <1>1, SMTT(30) DEF TypeInv, Typed, Ends, TokensTyped

LEMMA IssuedTyped ==
  ASSUME TypeInv, NEW c \in Calls, IssueTokens(c)
  PROVE  TokensTyped' /\ Len(token') = Len(token) + 1
<1>1. /\ token \in Seq(TokenType) /\ DOMAIN token = 1..Len(token) /\ password' = password
      /\ \A i \in DOMAIN token : token[i].family \in 1..i /\ token[i].verified <= password
      /\ call[c].verified <= password
  BY DEF TypeInv, Typed, CallOk, IssueTokens
<1> DEFINE new == Len(token) + 1
<1>2. token'[new].family \in 1..new /\ token'[new].verified <= password
  <2>1. CASE Kind(c) = "login"
    BY <1>1, <2>1, Issued
  <2>2. CASE Kind(c) # "login"
    <3>1. /\ call[c].cookie \in 1..Len(token)
          /\ token'[new].family = token[call[c].cookie].family
          /\ token'[new].verified = token[call[c].cookie].verified
      BY <1>1, <2>2, Issued
    <3> QED BY <1>1, <3>1
  <2> QED BY <2>1, <2>2
<1>3. \A i \in DOMAIN token' : token'[i].family \in 1..i /\ token'[i].verified <= password
  <2> TAKE i \in DOMAIN token'
  <2>1. (i \in DOMAIN token /\ token'[i] = token[i]) \/ i = new
    BY Issued
  <2> QED BY <1>1, <1>2, <2>1
<1> QED BY <1>1, <1>3, Issued DEF TokensTyped

LEMMA CallsOk ==
  ASSUME TypeInv, NEW c \in Calls, NEW k, NEW l, NEW n, NEW v, NEW m, NEW i,
         Turns(c, k, l, n, v, m, i),
         token' \in Seq(TokenType), Len(token') >= Len(token),
         password' \in Nat, password' >= password,
         n <= Len(token'), i <= Len(token'), v <= password',
         l = "rotate" \/ (l = "issue" /\ k # "login") => n > 0,
         l = "answer" => i > 0, l = "use" \/ l = "sweep" => password' > 0,
         l = "verify" => k = "login",
         k = "login" => l \in {"verify", "issue", "answer"}
  PROVE  \A d \in Calls : CallOk(d)'
<1> TAKE d \in Calls
<1>1. CASE d = c
  BY <1>1 DEF CallOk, Turns, Fields, At, Kind
<1>2. CASE d # c
  <2>1. call'[d] = call[d] /\ call[d] \in CallType /\ CallOk(d) /\ password \in Nat
        /\ Len(token) \in Nat /\ Len(token') \in Nat
    BY <1>2 DEF Turns, TypeInv, Typed
  <2>2. /\ call[d].cookie \in Nat /\ call[d].issued \in Nat /\ call[d].verified \in Nat
    BY <2>1 DEF CallType
  <2> QED BY <2>1, <2>2 DEF CallOk, At, Kind
<1> QED BY <1>1, <1>2

\* The counters of a call, as numbers.
LEMMA CallNumbers ==
  ASSUME TypeInv, NEW c \in Calls
  PROVE  /\ call[c] \in CallType /\ CallOk(c)
         /\ call[c].cookie \in 0..Len(token) /\ call[c].issued \in 0..Len(token)
         /\ call[c].verified \in 0..password /\ call[c].checked \in Nat
         /\ jar[Browser(c)] \in 0..Len(token) /\ Browser(c) \in Browsers /\ TabOf[c] \in Tabs
  BY SessionAssumption DEF TypeInv, Typed, CallOk, CallType, Browser

\* The calls after each action, when only calls, answers and tabs change.
Answers ==
  /\ access' \in [Tabs -> {"none", "fresh", "expired"}] /\ lost' \in 0..MaxLost + 1
  /\ jar' \in [Browsers -> 0..Len(token')]

LEMMA QuietAnswers ==
  ASSUME TypeInv, UNCHANGED <<jar, access, lost>>, Len(token') \in Nat, Len(token') >= Len(token)
  PROVE  Answers
  BY DEF TypeInv, Typed, Answers

\* An action that changes only calls, answers and tabs.
LEMMA QuietTyped ==
  ASSUME TypeInv, NEW c \in Calls, UNCHANGED <<token, password, sweeps>>, Answers,
         NEW k, NEW l, NEW n, NEW v, NEW m, NEW i, Turns(c, k, l, n, v, m, i),
         n <= Len(token), i <= Len(token), v <= password,
         l = "rotate" \/ (l = "issue" /\ k # "login") => n > 0,
         l = "answer" => i > 0, l # "use", l # "sweep",
         l = "verify" => k = "login",
         k = "login" => l \in {"verify", "issue", "answer"}
  PROVE  TypeInv'
<1>1. \A d \in Calls : CallOk(d)'
  BY CallsOk DEF TypeInv, Typed
<1>2. Typed'
  BY DEF TypeInv, Typed, Turns, Answers
<1> QED BY <1>1, <1>2 DEF TypeInv

\* An action after which the call may be anywhere but where its fields matter.
LEMMA PassTyped ==
  ASSUME TypeInv, NEW c \in Calls, TokensTyped', Len(token') = Len(token), Answers,
         password' \in Nat, password' >= password,
         sweeps' \in [count : Nat, last : Nat, kept : Nat,
                      by : SUBSET (Browsers \union {"reset"}), alarm : BOOLEAN],
         Rests(c) \/ \E l \in Ats \ {"rotate", "answer", "verify"} :
                       /\ Passes(c, l)
                       /\ l = "issue" /\ Kind(c) # "login" => call[c].cookie > 0
                       /\ l = "use" \/ l = "sweep" => password' > 0
                       /\ Kind(c) = "login" => l = "issue"
  PROVE  TypeInv'
<1>1. \A d \in Calls : CallOk(d)'
  <2>1. /\ password \in Nat /\ Len(token) \in Nat /\ token' \in Seq(TokenType)
        /\ call[c].cookie \in 0..Len(token) /\ call[c].issued \in 0..Len(token)
        /\ call[c].verified \in 0..password
    BY CallNumbers DEF TypeInv, Typed, TokensTyped
  <2>2. CASE Rests(c)
    BY <2>1, <2>2, CallsOk, SMTT(30) DEF Rests
  <2>3. CASE \E l \in Ats \ {"rotate", "answer", "verify"} :
               /\ Passes(c, l)
               /\ l = "issue" /\ Kind(c) # "login" => call[c].cookie > 0
               /\ l = "use" \/ l = "sweep" => password' > 0
               /\ Kind(c) = "login" => l = "issue"
    <3> PICK l \in Ats \ {"rotate", "answer", "verify"} :
               /\ Passes(c, l)
               /\ l = "issue" /\ Kind(c) # "login" => call[c].cookie > 0
               /\ l = "use" \/ l = "sweep" => password' > 0
               /\ Kind(c) = "login" => l = "issue"
      BY <2>3
    <3>1. Turns(c, call[c].kind, l, call[c].cookie, call[c].verified, call[c].checked,
                call[c].issued)
      BY DEF Passes
    <3> QED BY <2>1, <3>1, CallsOk DEF Kind
  <2> QED BY <2>2, <2>3
<1>2. call' \in [Calls -> CallType]
  BY DEF Rests, Passes, Turns
<1>3. Typed'
  BY <1>2 DEF Typed, Answers, TokensTyped
<1> QED BY <1>1, <1>3 DEF TypeInv

LEMMA BeginTyped ==
  ASSUME TypeInv, NEW c \in Calls, NEW kind \in Kinds, Begin(c, kind) PROVE TypeInv'
<1>1. UNCHANGED <<token, password, sweeps, jar, access, lost>>
  BY DEF Begin, ServerKept, BrowserKept
<1>2. Answers
  BY <1>1, QuietAnswers DEF TypeInv, Typed
<1>3. PICK l \in {"refresh", "verify", "logout", "link", "api"} :
        Turns(c, kind, l, jar[Browser(c)], 0, 0, 0) /\ (l = "verify" <=> kind = "login")
  BY BeginTurns DEF TypeInv
<1>4. jar[Browser(c)] <= Len(token) /\ 0 <= Len(token) /\ 0 <= password
  BY CallNumbers DEF TypeInv, Typed
<1> QED BY <1>1, <1>2, <1>3, <1>4, QuietTyped

LEMMA AuthorizedTyped ==
  ASSUME TypeInv, NEW c \in Calls, Authorized(c) PROVE TypeInv'
<1>1. UNCHANGED <<token, password, sweeps, jar, access, lost>>
  BY DEF Authorized, ServerKept, BrowserKept
<1>2. Answers
  BY <1>1, QuietAnswers DEF TypeInv, Typed
<1>3. Rests(c) \/ Passes(c, "write")
  BY GoesPasses, IdleRests DEF Authorized, TypeInv, Ats
<1>4. TokensTyped' /\ password' \in Nat /\ password' >= password
  BY <1>1 DEF TokensTyped, TypeInv, Typed
<1>5. sweeps' \in [count : Nat, last : Nat, kept : Nat,
                   by : SUBSET (Browsers \union {"reset"}), alarm : BOOLEAN]
  BY <1>1 DEF TypeInv, Typed
<1>6. Kind(c) # "login"
  BY CallNumbers DEF CallOk, Authorized, At
<1> QED BY <1>1, <1>2, <1>3, <1>4, <1>5, <1>6, PassTyped DEF Ats

LEMMA DeniedTyped ==
  ASSUME TypeInv, NEW c \in Calls, Denied(c) PROVE TypeInv'
<1>1. UNCHANGED <<token, password, sweeps, jar, access, lost>>
  BY DEF Denied, ServerKept, BrowserKept
<1>2. Answers
  BY <1>1, QuietAnswers DEF TypeInv, Typed
<1>3. jar[Browser(c)] <= Len(token) /\ 0 <= Len(token) /\ 0 <= password
      /\ call[c].issued <= Len(token) /\ call[c].verified <= password
  BY CallNumbers DEF TypeInv, Typed
<1>6. call[c].kind # "login"
  BY CallNumbers DEF Denied, CallOk, At, Kind
<1>4. CASE Rests(c)
  BY <1>1, <1>2, <1>3, <1>4, QuietTyped DEF Rests
<1>5. CASE Turns(c, call[c].kind, "refresh", jar[Browser(c)], call[c].verified, call[c].checked,
                 call[c].issued)
  BY <1>1, <1>2, <1>3, <1>5, <1>6, QuietTyped
<1> QED BY <1>4, <1>5, DeniedTurns DEF TypeInv

LEMMA FindTokenTyped ==
  ASSUME TypeInv, NEW c \in Calls, FindToken(c) PROVE TypeInv'
<1>1. UNCHANGED <<token, password, sweeps, jar, access, lost>>
  BY DEF FindToken, ServerKept, BrowserKept
<1>2. Answers
  BY <1>1, QuietAnswers DEF TypeInv, Typed
<1>3. PICK l \in {"denied", "rotate", "reuse"} :
        /\ Turns(c, call[c].kind, l, call[c].cookie, call[c].verified, sweeps.count,
                 call[c].issued)
        /\ l = "rotate" => Live(call[c].cookie)
  BY FindTurns DEF TypeInv
<1>4. call[c].cookie <= Len(token) /\ call[c].issued <= Len(token)
      /\ call[c].verified <= password /\ (l = "rotate" => call[c].cookie > 0)
      /\ call[c].kind # "login"
  BY <1>3, CallNumbers DEF Live, FindToken, CallOk, At, Kind
<1> QED BY <1>1, <1>2, <1>3, <1>4, QuietTyped

LEMMA VerifyPasswordTyped ==
  ASSUME TypeInv, NEW c \in Calls, VerifyPassword(c) PROVE TypeInv'
<1>1. UNCHANGED <<token, password, sweeps, jar, access, lost>>
  BY DEF VerifyPassword, ServerKept, BrowserKept
<1>2. Answers
  BY <1>1, QuietAnswers DEF TypeInv, Typed
<1>3. Turns(c, call[c].kind, "issue", call[c].cookie, password, sweeps.count, call[c].issued)
  BY VerifyTurns DEF TypeInv
<1>4. call[c].cookie <= Len(token) /\ call[c].issued <= Len(token) /\ password <= password
      /\ call[c].kind = "login"
  BY CallNumbers DEF TypeInv, Typed, VerifyPassword, CallOk, At, Kind
<1> QED BY <1>1, <1>2, <1>3, <1>4, QuietTyped DEF Kind

LEMMA IssueTokensTyped ==
  ASSUME TypeInv, NEW c \in Calls, IssueTokens(c) PROVE TypeInv'
<1>1. UNCHANGED <<password, sweeps, jar, access, lost>>
  BY DEF IssueTokens, BrowserKept
<1>2. TokensTyped' /\ Len(token') = Len(token) + 1 /\ Len(token) \in Nat
  BY IssuedTyped DEF TypeInv, Typed
<1>3. Answers
  BY <1>1, <1>2, QuietAnswers
<1>4. Turns(c, call[c].kind, "answer", call[c].cookie, call[c].verified, call[c].checked,
            Len(token) + 1)
  BY IssueTurns DEF TypeInv
<1>5. \A d \in Calls : CallOk(d)'
  <2>1. /\ password \in Nat /\ token' \in Seq(TokenType) /\ call[c].cookie <= Len(token')
        /\ call[c].verified <= password' /\ Len(token') >= Len(token)
        /\ Len(token) + 1 <= Len(token') /\ Len(token) + 1 > 0
        /\ password' \in Nat /\ password' >= password
    BY <1>1, <1>2, CallNumbers DEF TypeInv, Typed, TokensTyped
  <2> QED BY <1>4, <2>1, CallsOk
<1>6. call' \in [Calls -> CallType]
  BY <1>4 DEF Turns
<1>7. Typed'
  BY <1>1, <1>2, <1>3, <1>6 DEF TypeInv, Typed, Answers, TokensTyped
<1> QED BY <1>5, <1>7 DEF TypeInv

LEMMA AnsweredTyped ==
  ASSUME TypeInv, NEW c \in Calls, Answered(c) PROVE TypeInv'
<1>1. UNCHANGED <<token, password, sweeps, lost>>
  BY DEF Answered, ServerKept
<1>2. Answers
  BY <1>1, CallNumbers DEF Answered, Answers, TypeInv, Typed
<1>3. 0 <= Len(token) /\ 0 <= password
      /\ call[c].issued <= Len(token) /\ call[c].verified <= password
  BY CallNumbers DEF TypeInv, Typed
<1>4. CASE Rests(c)
  BY <1>1, <1>2, <1>3, <1>4, QuietTyped DEF Rests
<1>5. ASSUME NEW k \in Kinds \ {"login"},
             Turns(c, k, "api", call[c].issued, call[c].verified, call[c].checked, 0)
      PROVE  TypeInv'
  BY <1>1, <1>2, <1>3, <1>5, QuietTyped
<1> QED BY <1>4, <1>5, AnsweredTurns DEF TypeInv

LEMMA FailureTyped ==
  ASSUME TypeInv, NEW c \in Calls, AfterFailure(c), ServerKept, lost' \in 0..MaxLost + 1
  PROVE  TypeInv'
<1>1. UNCHANGED <<token, password, sweeps, jar>>
  BY DEF AfterFailure, ServerKept
<1>2. Answers
  BY <1>1, CallNumbers DEF AfterFailure, Answers, TypeInv, Typed
<1>3. 0 <= Len(token) /\ 0 <= password
  BY DEF TypeInv, Typed
<1>4. CASE Rests(c)
  BY <1>1, <1>2, <1>3, <1>4, QuietTyped DEF Rests
<1>5. CASE Turns(c, "request", "api", 0, 0, 0, 0)
  BY <1>1, <1>2, <1>3, <1>5, QuietTyped
<1> QED BY <1>4, <1>5, FailureTurns DEF TypeInv

LEMMA ReuseDetectedTyped ==
  ASSUME TypeInv, NEW c \in Calls, ReuseDetected(c) PROVE TypeInv'
<1>1. UNCHANGED <<jar, access, lost, password>>
  BY DEF ReuseDetected, ServerKept, BrowserKept
<1>2. /\ Len(token) \in Nat /\ password \in Nat /\ password + 1 > 0 /\ call[c].kind # "login"
      /\ call[c].cookie \in 0..Len(token)
  <2>1. /\ Len(token) \in Nat /\ password \in Nat /\ call[c].cookie \in 0..Len(token)
    BY CallNumbers DEF TypeInv, Typed
  <2>2. call[c].kind # "login"
    BY CallNumbers DEF CallOk, ReuseDetected, At, Kind
  <2> QED BY <2>1, <2>2
<1>3. TokensTyped' /\ Len(token') = Len(token) /\ password' \in Nat /\ password' >= password
  <2>1. Ends(DOMAIN token \ {})
    BY AllEnd DEF ReuseDetected, TypeInv
  <2> QED BY <1>1, <1>2, <2>1, EndsTyped
<1>4. Answers
  BY <1>1, <1>2, <1>3, QuietAnswers
<1>5. Passes(c, "denied")
  BY GoesPasses DEF ReuseDetected, TypeInv, Ats
<1>6. sweeps' \in [count : Nat, last : Nat, kept : Nat,
                   by : SUBSET (Browsers \union {"reset"}), alarm : BOOLEAN]
  BY Booleans DEF ReuseDetected, TypeInv, Typed
<1> QED BY <1>2, <1>3, <1>4, <1>5, <1>6, PassTyped DEF Ats, Kind

LEMMA RotateTyped ==
  ASSUME TypeInv, NEW c \in Calls, Rotate(c) PROVE TypeInv'
<1>1. UNCHANGED <<jar, access, lost, password, sweeps>>
  BY DEF Rotate, ServerKept, BrowserKept
<1>2. /\ Len(token) \in Nat /\ password \in Nat /\ password + 1 > 0 /\ call[c].kind # "login"
      /\ call[c].cookie \in 0..Len(token)
  <2>1. /\ Len(token) \in Nat /\ password \in Nat /\ call[c].cookie \in 0..Len(token)
    BY CallNumbers DEF TypeInv, Typed
  <2>2. call[c].kind # "login"
    BY CallNumbers DEF CallOk, Rotate, At, Kind
  <2> QED BY <2>1, <2>2
<1>3. TokensTyped' /\ Len(token') = Len(token) /\ password' \in Nat /\ password' >= password
  <2>1. call[c].cookie \in DOMAIN token
    BY <1>2, CallNumbers DEF Rotate, TypeInv, Typed, CallOk
  <2>2. Ends({call[c].cookie})
    BY <2>1, OneEnds DEF Rotate, TypeInv
  <2> QED BY <1>1, <1>2, <2>2, EndsTyped
<1>4. Answers
  BY <1>1, <1>2, <1>3, QuietAnswers
<1>5. Passes(c, "issue") /\ call[c].cookie > 0
  BY GoesPasses, CallNumbers DEF Rotate, TypeInv, Ats, CallOk
<1>6. sweeps' \in [count : Nat, last : Nat, kept : Nat,
                   by : SUBSET (Browsers \union {"reset"}), alarm : BOOLEAN]
  BY <1>1 DEF TypeInv, Typed
<1> QED BY <1>2, <1>3, <1>4, <1>5, <1>6, PassTyped DEF Ats, Kind

LEMMA LogoutTyped ==
  ASSUME TypeInv, NEW c \in Calls, Logout(c) PROVE TypeInv'
<1>1. UNCHANGED <<jar, access, lost, password, sweeps>>
  BY DEF Logout, ServerKept, BrowserKept
<1>2. /\ Len(token) \in Nat /\ password \in Nat /\ password + 1 > 0 /\ call[c].kind # "login"
      /\ call[c].cookie \in 0..Len(token)
  <2>1. /\ Len(token) \in Nat /\ password \in Nat /\ call[c].cookie \in 0..Len(token)
    BY CallNumbers DEF TypeInv, Typed
  <2>2. call[c].kind # "login"
    BY CallNumbers DEF CallOk, Logout, At, Kind
  <2> QED BY <2>1, <2>2
<1>3. TokensTyped' /\ Len(token') = Len(token) /\ password' \in Nat /\ password' >= password
  <2>1. CASE call[c].cookie = 0
    BY <1>1, <1>2, <2>1, NoneEnds, EndsTyped DEF Logout, TypeInv
  <2>2. CASE call[c].cookie # 0
    <3>1. call[c].cookie \in DOMAIN token
      BY <1>2, <2>2 DEF TypeInv, Typed
    <3>2. Ends({call[c].cookie})
      BY <2>2, <3>1, OneEnds DEF Logout, TypeInv
    <3> QED BY <1>1, <1>2, <3>2, EndsTyped
  <2> QED BY <2>1, <2>2
<1>4. Answers
  BY <1>1, <1>2, <1>3, QuietAnswers
<1>5. Passes(c, "bye")
  BY GoesPasses DEF Logout, TypeInv, Ats
<1>6. sweeps' \in [count : Nat, last : Nat, kept : Nat,
                   by : SUBSET (Browsers \union {"reset"}), alarm : BOOLEAN]
  BY <1>1 DEF TypeInv, Typed
<1> QED BY <1>2, <1>3, <1>4, <1>5, <1>6, PassTyped DEF Ats, Kind

LEMMA OpenLinkTyped ==
  ASSUME TypeInv, NEW c \in Calls, OpenLink(c) PROVE TypeInv'
<1>1. UNCHANGED <<token, password, sweeps, jar, access, lost>>
  BY DEF OpenLink, ServerKept, BrowserKept
<1>2. /\ Len(token) \in Nat /\ password \in Nat /\ password + 1 > 0 /\ call[c].kind # "login"
      /\ call[c].cookie \in 0..Len(token)
  <2>1. /\ Len(token) \in Nat /\ password \in Nat /\ call[c].cookie \in 0..Len(token)
    BY CallNumbers DEF TypeInv, Typed
  <2>2. call[c].kind # "login"
    BY CallNumbers DEF CallOk, OpenLink, At, Kind
  <2> QED BY <2>1, <2>2
<1>3. TokensTyped' /\ Len(token') = Len(token) /\ password' \in Nat /\ password' >= password
  BY <1>1, <1>2, NoneEnds, EndsTyped DEF OpenLink, TypeInv
<1>4. Answers
  BY <1>1, <1>2, <1>3, QuietAnswers
<1>5. Rests(c) \/ Passes(c, "write")
  <2>1. (call' = [call EXCEPT ![c] = Idle]) \/ Goes(c, "write")
    BY DEF OpenLink, Goes
  <2> QED BY <2>1, GoesPasses, IdleRests DEF TypeInv, Ats
<1>6. sweeps' \in [count : Nat, last : Nat, kept : Nat,
                   by : SUBSET (Browsers \union {"reset"}), alarm : BOOLEAN]
  BY <1>1 DEF TypeInv, Typed
<1> QED BY <1>2, <1>3, <1>4, <1>5, <1>6, PassTyped DEF Ats, Kind

LEMMA WritePasswordTyped ==
  ASSUME TypeInv, NEW c \in Calls, WritePassword(c) PROVE TypeInv'
<1>1. UNCHANGED <<token, sweeps, jar, access, lost>>
  BY DEF WritePassword, ServerKept, BrowserKept
<1>2. /\ Len(token) \in Nat /\ password \in Nat /\ password + 1 > 0 /\ call[c].kind # "login"
      /\ call[c].cookie \in 0..Len(token)
  <2>1. /\ Len(token) \in Nat /\ password \in Nat /\ call[c].cookie \in 0..Len(token)
    BY CallNumbers DEF TypeInv, Typed
  <2>2. call[c].kind # "login"
    BY CallNumbers DEF CallOk, WritePassword, At, Kind
  <2> QED BY <2>1, <2>2
<1>3. TokensTyped' /\ Len(token') = Len(token) /\ password' \in Nat /\ password' >= password
  BY <1>1, <1>2, NoneEnds, EndsTyped DEF WritePassword, TypeInv
<1>4. Answers
  BY <1>1, <1>2, <1>3, QuietAnswers
<1>5. (Passes(c, "use") \/ Passes(c, "sweep")) /\ password' > 0
  BY <1>1, <1>2, GoesPasses, CallNumbers DEF WritePassword, TypeInv, Ats, CallOk
<1>6. sweeps' \in [count : Nat, last : Nat, kept : Nat,
                   by : SUBSET (Browsers \union {"reset"}), alarm : BOOLEAN]
  BY <1>1 DEF TypeInv, Typed
<1> QED BY <1>2, <1>3, <1>4, <1>5, <1>6, PassTyped DEF Ats, Kind

LEMMA UseLinkTyped ==
  ASSUME TypeInv, NEW c \in Calls, UseLink(c) PROVE TypeInv'
<1>1. UNCHANGED <<token, password, sweeps, jar, access, lost>>
  BY DEF UseLink, ServerKept, BrowserKept
<1>2. /\ Len(token) \in Nat /\ password \in Nat /\ password + 1 > 0 /\ call[c].kind # "login"
      /\ call[c].cookie \in 0..Len(token)
  <2>1. /\ Len(token) \in Nat /\ password \in Nat /\ call[c].cookie \in 0..Len(token)
    BY CallNumbers DEF TypeInv, Typed
  <2>2. call[c].kind # "login"
    BY CallNumbers DEF CallOk, UseLink, At, Kind
  <2> QED BY <2>1, <2>2
<1>3. TokensTyped' /\ Len(token') = Len(token) /\ password' \in Nat /\ password' >= password
  BY <1>1, <1>2, NoneEnds, EndsTyped DEF UseLink, TypeInv
<1>4. Answers
  BY <1>1, <1>2, <1>3, QuietAnswers
<1>5. Passes(c, "sweep") /\ password' > 0
  BY <1>1, <1>2, GoesPasses, CallNumbers DEF UseLink, TypeInv, Ats, CallOk
<1>6. sweeps' \in [count : Nat, last : Nat, kept : Nat,
                   by : SUBSET (Browsers \union {"reset"}), alarm : BOOLEAN]
  BY <1>1 DEF TypeInv, Typed
<1> QED BY <1>2, <1>3, <1>4, <1>5, <1>6, PassTyped DEF Ats, Kind

LEMMA SignOutOthersTyped ==
  ASSUME TypeInv, NEW c \in Calls, SignOutOthers(c) PROVE TypeInv'
<1>1. UNCHANGED <<jar, access, lost, password>>
  BY DEF SignOutOthers, ServerKept, BrowserKept
<1>2. /\ Len(token) \in Nat /\ password \in Nat /\ password + 1 > 0 /\ call[c].kind # "login"
      /\ call[c].cookie \in 0..Len(token)
  <2>1. /\ Len(token) \in Nat /\ password \in Nat /\ call[c].cookie \in 0..Len(token)
    BY CallNumbers DEF TypeInv, Typed
  <2>2. call[c].kind # "login"
    BY CallNumbers DEF CallOk, SignOutOthers, At, Kind
  <2> QED BY <2>1, <2>2
<1>3. TokensTyped' /\ Len(token') = Len(token) /\ password' \in Nat /\ password' >= password
  <2>1. Ends(DOMAIN token \ {KeptToken(c)})
    BY AllEnd DEF SignOutOthers, TypeInv
  <2> QED BY <1>1, <1>2, <2>1, EndsTyped
<1>4. Answers
  BY <1>1, <1>2, <1>3, QuietAnswers
<1>5. Rests(c)
  BY IdleRests DEF SignOutOthers, TypeInv
<1>6. sweeps' \in [count : Nat, last : Nat, kept : Nat,
                   by : SUBSET (Browsers \union {"reset"}), alarm : BOOLEAN]
  <2>1. sweeps.count + 1 \in Nat /\ password \in Nat
    BY DEF TypeInv, Typed
  <2>2. KeptToken(c) \in 0..Len(token)
    BY <1>2 DEF KeptToken
  <2>3. (IF KeptToken(c) = 0 THEN 0 ELSE token[KeptToken(c)].family) \in Nat
    <3>1. KeptToken(c) # 0 => token[KeptToken(c)] \in TokenType
      BY <2>2 DEF TypeInv, Typed
    <3> QED BY <3>1 DEF TokenType
  <2>4. sweeps.by \union {IF Kind(c) = "reset" THEN "reset" ELSE Browser(c)}
          \in SUBSET (Browsers \union {"reset"})
    BY CallNumbers DEF TypeInv, Typed
  <2> DEFINE kept == IF KeptToken(c) = 0 THEN 0 ELSE token[KeptToken(c)].family
             by == sweeps.by \union {IF Kind(c) = "reset" THEN "reset" ELSE Browser(c)}
  <2>5. sweeps' = [sweeps EXCEPT !.count = @ + 1, !.last = password, !.kept = kept, !.by = by]
    BY DEF SignOutOthers
  <2>6. kept \in Nat /\ by \in SUBSET (Browsers \union {"reset"})
    BY <2>3, <2>4
  <2> HIDE DEF kept, by
  <2> QED BY <2>1, <2>5, <2>6 DEF TypeInv, Typed
<1> QED BY <1>2, <1>3, <1>4, <1>5, <1>6, PassTyped DEF Ats, Kind

LEMMA LoggedOutTyped ==
  ASSUME TypeInv, NEW c \in Calls, LoggedOut(c) PROVE TypeInv'
<1>1. UNCHANGED <<token, password, sweeps, lost>> /\ Rests(c)
  BY IdleRests DEF LoggedOut, ServerKept, TypeInv
<1>2. Answers
  BY <1>1, CallNumbers DEF LoggedOut, Answers, TypeInv, Typed
<1>3. 0 <= Len(token) /\ 0 <= password
  BY DEF TypeInv, Typed
<1> QED BY <1>1, <1>2, <1>3, QuietTyped DEF Rests

LEMMA RefreshDeniedTyped ==
  ASSUME TypeInv, NEW c \in Calls, RefreshDenied(c) PROVE TypeInv'
<1>1. lost' \in 0..MaxLost + 1
  BY DEF RefreshDenied, TypeInv, Typed
<1> QED BY <1>1, FailureTyped DEF RefreshDenied

LEMMA AnswerLostTyped ==
  ASSUME TypeInv, NEW c \in Calls, AnswerLost(c) PROVE TypeInv'
<1>1. lost' \in 0..MaxLost + 1
  BY SessionAssumption DEF AnswerLost, TypeInv, Typed
<1> QED BY <1>1, FailureTyped DEF AnswerLost

\* An access token runs out: the calls of the tab are the same but for it.
LEMMA ExpiredCalls ==
  ASSUME Typed, NEW t \in Tabs, AccessExpires(t)
  PROVE  /\ call' \in [Calls -> CallType]
         /\ \A c \in Calls : Fields(call'[c], call[c].kind, call[c].at, call[c].cookie,
                                   call[c].verified, call[c].checked, call[c].issued)
<1>1. \A r \in CallType :
        Fields([r EXCEPT !.good = FALSE], r.kind, r.at, r.cookie, r.verified, r.checked, r.issued)
  BY Booleans DEF Fields, CallType
<1> DEFINE w(c) == [call[c] EXCEPT !.good = FALSE]
           v(c) == IF TabOf[c] = t /\ At(c, "api") THEN w(c) ELSE call[c]
<1>2. \A c \in Calls : call[c] \in CallType
  BY DEF Typed
<1>3. \A c \in Calls : Fields(v(c), call[c].kind, call[c].at, call[c].cookie,
                             call[c].verified, call[c].checked, call[c].issued)
  BY <1>1, <1>2 DEF Fields
<1>4. call' = [c \in Calls |-> v(c)]
  BY DEF AccessExpires
<1> HIDE DEF v
<1> QED BY <1>3, <1>4 DEF Fields

LEMMA AccessExpiresTyped ==
  ASSUME TypeInv, NEW t \in Tabs, AccessExpires(t) PROVE TypeInv'
<1>1. UNCHANGED <<token, password, sweeps, jar, lost>>
  BY DEF AccessExpires, ServerKept
<1>2. access' \in [Tabs -> {"none", "fresh", "expired"}]
  BY DEF AccessExpires, TypeInv, Typed
<1>3. \A c \in Calls : CallOk(c)'
  BY <1>1, ExpiredCalls DEF TypeInv, CallOk, Fields, At, Kind
<1>4. Typed'
  BY <1>1, <1>2, ExpiredCalls DEF TypeInv, Typed
<1> QED BY <1>3, <1>4 DEF TypeInv

LEMMA ReloadTyped ==
  ASSUME TypeInv, NEW t \in Tabs, Reload(t) PROVE TypeInv'
<1>1. UNCHANGED <<token, password, sweeps, jar, lost, call>>
  BY DEF Reload, ServerKept
<1>2. access' \in [Tabs -> {"none", "fresh", "expired"}]
  BY DEF Reload, TypeInv, Typed
<1> QED BY <1>1, <1>2 DEF TypeInv, Typed, CallOk, At, Kind

LEMMA TypeStep == TypeInv /\ [SessionNext]_sessionVars => TypeInv'
<1> SUFFICES ASSUME TypeInv, [SessionNext]_sessionVars PROVE TypeInv'
  OBVIOUS
<1>1. CASE UNCHANGED sessionVars
  BY <1>1 DEF sessionVars, TypeInv, Typed, CallOk, At, Kind
<1>2. ASSUME NEW c \in Calls, CallStep(c) PROVE TypeInv'
  BY <1>2, AuthorizedTyped, DeniedTyped, FindTokenTyped, ReuseDetectedTyped, RotateTyped,
     VerifyPasswordTyped, IssueTokensTyped, AnsweredTyped, RefreshDeniedTyped, AnswerLostTyped,
     LogoutTyped, LoggedOutTyped, OpenLinkTyped, WritePasswordTyped, UseLinkTyped,
     SignOutOthersTyped DEF CallStep
<1>3. ASSUME NEW c \in Calls, NEW k \in Kinds \ {"none"}, Begin(c, k) PROVE TypeInv'
  BY <1>3, BeginTyped
<1>4. ASSUME NEW t \in Tabs, AccessExpires(t) \/ Reload(t) PROVE TypeInv'
  BY <1>4, AccessExpiresTyped, ReloadTyped
<1> QED BY <1>1, <1>2, <1>3, <1>4 DEF SessionNext

LEMMA TypeInit == SessionInit => TypeInv
<1> SUFFICES ASSUME SessionInit PROVE TypeInv
  OBVIOUS
<1>1. SignedIn \in Seq(Browsers) /\ DOMAIN SignedIn = 1..Len(SignedIn) /\ Len(SignedIn) \in Nat
  BY SessionAssumption
<1> DEFINE w(i) == [state |-> "live", family |-> i, verified |-> 0, overtaken |-> 0]
<1>2. \A i \in 1..Len(SignedIn) : w(i) \in TokenType /\ w(i).family = i /\ w(i).verified = 0
  BY DEF TokenType
<1>3. token = [i \in 1..Len(SignedIn) |-> w(i)]
  BY <1>1 DEF SessionInit
<1> HIDE DEF w
<1>4. token \in Seq(TokenType) /\ Len(token) = Len(SignedIn) /\ DOMAIN token = 1..Len(SignedIn)
  <2>1. token \in [1..Len(SignedIn) -> TokenType]
    BY <1>2, <1>3
  <2> QED BY <1>1, <1>3, <2>1
<1>5. jar \in [Browsers -> 0..Len(token)]
  <2>1. \A b \in Browsers : (\E i \in DOMAIN SignedIn : SignedIn[i] = b)
          => (CHOOSE i \in DOMAIN SignedIn : SignedIn[i] = b) \in 1..Len(SignedIn)
    BY <1>1
  <2> QED BY <1>1, <1>4, <2>1 DEF SessionInit
<1>6. access \in [Tabs -> {"none", "fresh", "expired"}]
  BY DEF SessionInit
<1>7. call \in [Calls -> CallType] /\ \A c \in Calls : Fields(call[c], "none", "idle", 0, 0, 0, 0)
  BY IdleFields DEF SessionInit, Fields
<1>8. password \in Nat /\ lost \in 0..MaxLost + 1
  BY SessionAssumption DEF SessionInit
<1>9. sweeps \in [count : Nat, last : Nat, kept : Nat, by : SUBSET (Browsers \union {"reset"}),
                  alarm : BOOLEAN]
  BY Booleans DEF SessionInit
<1>10. \A i \in DOMAIN token : token[i].family \in 1..i /\ token[i].verified <= password
  <2> TAKE i \in DOMAIN token
  <2>1. i \in 1..Len(SignedIn) /\ token[i] = w(i) /\ password = 0
    BY <1>3, <1>4 DEF SessionInit
  <2>2. token[i].family = i /\ token[i].verified = 0
    BY <1>2, <2>1
  <2> QED BY <1>1, <2>1, <2>2
<1>11. Typed
  BY <1>4, <1>5, <1>6, <1>7, <1>8, <1>9, <1>10 DEF Typed
<1>12. \A c \in Calls : CallOk(c)
  BY <1>1, <1>4, <1>7, <1>8 DEF CallOk, Fields, At, Kind
<1> QED BY <1>11, <1>12 DEF TypeInv

\* Tokens, cookies, access tokens and calls are what they are declared to be:
\* the type invariant of the sessions.
THEOREM SessionTypes == SessionSpec => []SessionTypeOK
<1>1. TypeInv => SessionTypeOK
  <2> SUFFICES ASSUME TypeInv PROVE SessionTypeOK
    OBVIOUS
  <2>1. \A i \in DOMAIN token : token[i] \in TokenType /\ token[i].family \in 1..i
                               /\ token[i].verified <= password /\ password \in Nat
    BY DEF TypeInv, Typed
  <2>2. \A i \in DOMAIN token : token[i].state \in {"live", "revoked"}
                               /\ token[i].family \in 1..i /\ token[i].verified \in 0..password
    BY <2>1 DEF TokenType
  <2>3. \A c \in Calls : /\ call[c].kind \in Kinds
                         /\ call[c].cookie \in 0..Len(token) /\ call[c].issued \in 0..Len(token)
    BY CallNumbers DEF CallType
  <2> QED BY <2>2, <2>3 DEF SessionTypeOK, TypeInv, Typed
<1> QED BY <1>1, TypeInit, TypeStep, PTL DEF SessionSpec

-----------------------------------------------------------------------------
\* Tokens of the old password.  What a refresh or a sign-in knows of the last
\* sign-out when it has been checked since: its token may still be issued.
Outlives(verified, family, overtaken) ==
  verified < sweeps.last => family = sweeps.kept \/ overtaken = sweeps.count
OutlivesToken(i) == Outlives(token[i].verified, token[i].family, token[i].overtaken)
CheckedSince(kind, at, cookie, verified, checked) ==
  /\ checked <= sweeps.count
  /\ (at = "rotate" \/ at = "issue") /\ kind # "login" /\ checked = sweeps.count =>
       cookie \in DOMAIN token /\ OutlivesToken(cookie)
  /\ at = "issue" /\ kind = "login" /\ checked = sweeps.count => verified >= sweeps.last

OldInv ==
  /\ OldSessionsEnd
  /\ sweeps.last <= password
  /\ \A c \in Calls : CheckedSince(call[c].kind, call[c].at, call[c].cookie, call[c].verified,
                                 call[c].checked)

TokensKept ==
  \A i \in DOMAIN token :
    /\ i \in DOMAIN token' /\ token'[i].family = token[i].family
    /\ token'[i].verified = token[i].verified /\ token'[i].overtaken = token[i].overtaken
    /\ token'[i].state = "live" => token[i].state = "live"

LEMMA EndsKept ==
  ASSUME NEW S, Ends(S) PROVE TokensKept /\ DOMAIN token' = DOMAIN token
  BY DEF Ends, TokensKept

LEMMA CheckedSinceKept ==
  ASSUME NEW c \in Calls, NEW k, NEW l, NEW n, NEW v, NEW m, NEW i,
         OldInv, Turns(c, k, l, n, v, m, i), TokensKept, CheckedSince(k, l, n, v, m),
         sweeps'.count = sweeps.count, sweeps'.last = sweeps.last, sweeps'.kept = sweeps.kept
  PROVE  \A d \in Calls : CheckedSince(call[d].kind, call[d].at, call[d].cookie,
                                      call[d].verified, call[d].checked)'
<1>1. \A a \in DOMAIN token : a \in DOMAIN token' /\ (OutlivesToken(a) => OutlivesToken(a)')
  BY DEF TokensKept, OutlivesToken, Outlives
<1> TAKE d \in Calls
<1>2. CASE d = c
  BY <1>1, <1>2 DEF Turns, Fields, CheckedSince
<1>3. CASE d # c
  <2>1. call'[d] = call[d]
    BY <1>3 DEF Turns
  <2> QED BY <1>1, <2>1 DEF CheckedSince, OldInv
<1> QED BY <1>2, <1>3

LEMMA OldQuiet ==
  ASSUME TypeInv, NEW c \in Calls, NEW k, NEW l, NEW n, NEW v, NEW m, NEW i,
         OldInv, Turns(c, k, l, n, v, m, i), TokensKept, DOMAIN token' = DOMAIN token,
         CheckedSince(k, l, n, v, m), password' \in Nat, password' >= password,
         sweeps'.count = sweeps.count, sweeps'.last = sweeps.last, sweeps'.kept = sweeps.kept
  PROVE  OldInv'
<1>1. sweeps'.last <= password'
  BY DEF OldInv, TypeInv, Typed
<1>2. OldSessionsEnd'
  BY DEF OldInv, OldSessionsEnd, TokensKept
<1> QED BY <1>1, <1>2, CheckedSinceKept DEF OldInv

\* Where nothing was checked, or checking says nothing.
LEMMA OldPasses ==
  ASSUME TypeInv, NEW c \in Calls, OldInv, TokensKept, DOMAIN token' = DOMAIN token,
         password' \in Nat, password' >= password,
         sweeps'.count = sweeps.count, sweeps'.last = sweeps.last, sweeps'.kept = sweeps.kept,
         Rests(c) \/ \E l \in Ats \ {"rotate", "issue"} : Passes(c, l)
  PROVE  OldInv'
<1>1. CASE Rests(c)
  <2>1. CheckedSince("none", "idle", 0, 0, 0)
    BY DEF TypeInv, Typed, CheckedSince
  <2> QED BY <1>1, <2>1, OldQuiet DEF Rests
<1>2. ASSUME NEW l \in Ats \ {"rotate", "issue"}, Passes(c, l) PROVE OldInv'
  <2>1. CheckedSince(call[c].kind, l, call[c].cookie, call[c].verified, call[c].checked)
    BY DEF OldInv, CheckedSince
  <2> QED BY <1>2, <2>1, OldQuiet DEF Passes
<1> QED BY <1>1, <1>2

LEMMA OldIssued ==
  ASSUME TypeInv, NEW c \in Calls, OldInv, IssueTokens(c) PROVE OldInv'
<1> DEFINE new == Len(token) + 1
<1>1. UNCHANGED <<password, sweeps>> /\ At(c, "issue")
  BY DEF IssueTokens
<1>2. TokensKept /\ \A i \in DOMAIN token' : (i \in DOMAIN token /\ token'[i] = token[i]) \/ i = new
  BY Issued DEF TokensKept
<1>3. /\ call[c].checked \in Nat /\ sweeps.count \in Nat /\ sweeps.last \in Nat
      /\ call[c].checked <= sweeps.count /\ call[c].verified \in Nat
  BY CallNumbers DEF OldInv, CheckedSince, TypeInv, Typed
<1>4. Outlives(token'[new].verified, token'[new].family, token'[new].overtaken)
  <2>1. CASE call[c].checked < sweeps.count
    BY <2>1, Issued DEF Outlives
  <2>2. CASE call[c].checked >= sweeps.count
    <3>1. call[c].checked = sweeps.count
      BY <1>3, <2>2
    <3>2. CASE Kind(c) = "login"
      <4>1. call[c].verified >= sweeps.last
        BY <1>1, <3>1, <3>2 DEF OldInv, CheckedSince, At, Kind
      <4> QED BY <1>3, <3>2, <4>1, Issued DEF Outlives
    <3>3. CASE Kind(c) # "login"
      <4>1. OutlivesToken(call[c].cookie)
        BY <1>1, <3>1, <3>3 DEF OldInv, CheckedSince, At, Kind
      <4> QED BY <2>2, <3>3, <4>1, Issued DEF OutlivesToken, Outlives
    <3> QED BY <3>2, <3>3
  <2> QED BY <1>3, <2>1, <2>2
<1>5. OldSessionsEnd'
  <2> SUFFICES ASSUME NEW i \in DOMAIN token', token'[i].state = "live"
               PROVE  Outlives(token'[i].verified, token'[i].family, token'[i].overtaken)
    BY <1>1 DEF OldSessionsEnd, Outlives
  <2>1. CASE i = new
    BY <1>4, <2>1
  <2>2. CASE i # new
    BY <1>2, <2>2 DEF OldInv, OldSessionsEnd, Outlives
  <2> QED BY <2>1, <2>2
<1>6. CheckedSince(call[c].kind, "answer", call[c].cookie, call[c].verified, call[c].checked)
  BY <1>3 DEF CheckedSince
<1>7. Turns(c, call[c].kind, "answer", call[c].cookie, call[c].verified, call[c].checked, new)
  BY IssueTurns DEF TypeInv
<1>8. \A d \in Calls : CheckedSince(call[d].kind, call[d].at, call[d].cookie, call[d].verified,
                                   call[d].checked)'
  BY <1>1, <1>2, <1>6, <1>7, CheckedSinceKept
<1> QED BY <1>1, <1>5, <1>8 DEF OldInv

LEMMA OldSwept ==
  ASSUME TypeInv, NEW c \in Calls, OldInv, SignOutOthers(c) PROVE OldInv'
<1> DEFINE kept == IF KeptToken(c) = 0 THEN 0 ELSE token[KeptToken(c)].family
<1>1. sweeps'.count = sweeps.count + 1 /\ sweeps'.last = password /\ sweeps'.kept = kept
      /\ password' = password /\ sweeps.count \in Nat /\ password \in Nat
  BY DEF SignOutOthers, TypeInv, Typed
<1>2. Ends(DOMAIN token \ {KeptToken(c)}) /\ Rests(c)
  BY AllEnd, IdleRests DEF SignOutOthers, TypeInv
<1>3. OldSessionsEnd'
  <2> SUFFICES ASSUME NEW i \in DOMAIN token', token'[i].state = "live"
               PROVE  token'[i].family = sweeps'.kept
    BY DEF OldSessionsEnd
  <2>1. i \in DOMAIN token /\ i = KeptToken(c) /\ token'[i].family = token[i].family
    BY <1>2 DEF Ends
  <2>2. i # 0
    BY <2>1 DEF TypeInv, Typed
  <2> QED BY <1>1, <2>1, <2>2
<1>4. ASSUME NEW d \in Calls
      PROVE  CheckedSince(call[d].kind, call[d].at, call[d].cookie, call[d].verified,
                          call[d].checked)'
  <2>1. call'[d].checked \in Nat /\ call'[d].checked <= sweeps.count
    <3>1. CASE d = c
      BY <1>1, <1>2, <3>1 DEF Rests, Turns, Fields
    <3>2. CASE d # c
      BY <1>2, <3>2, CallNumbers DEF Rests, Turns, OldInv, CheckedSince
    <3> QED BY <3>1, <3>2
  <2> QED BY <1>1, <2>1 DEF CheckedSince
<1> QED BY <1>1, <1>3, <1>4 DEF OldInv

\* Every other action of a call.
LEMMA OldStep ==
  ASSUME TypeInv, NEW c \in Calls, OldInv, CallStep(c) PROVE OldInv'
<1> DEFINE Same == /\ sweeps'.count = sweeps.count /\ sweeps'.last = sweeps.last
                   /\ sweeps'.kept = sweeps.kept
                   /\ password' \in Nat /\ password' >= password
           Kept == TokensKept /\ DOMAIN token' = DOMAIN token
<1>1. password \in Nat /\ sweeps.count \in Nat /\ sweeps.last \in Nat
        /\ DOMAIN token = 1..Len(token)
  BY DEF TypeInv, Typed
<1>2. UNCHANGED token => Kept
  BY NoneEnds, EndsKept DEF TypeInv
<1>3. UNCHANGED <<password, sweeps>> => Same
  BY <1>1
<1>4. CASE Authorized(c)
  <2>1. Rests(c) \/ Passes(c, "write")
    BY <1>4, GoesPasses, IdleRests DEF Authorized, TypeInv, Ats
  <2> QED BY <1>2, <1>3, <1>4, <2>1, OldPasses DEF Authorized, ServerKept, Ats
<1>5. CASE Denied(c)
  <2>1. CheckedSince(call[c].kind, "refresh", jar[Browser(c)], call[c].verified, call[c].checked)
    BY DEF OldInv, CheckedSince
  <2>2. Kept /\ Same
    BY <1>2, <1>3, <1>5 DEF Denied, ServerKept
  <2>3. CASE Rests(c)
    BY <2>2, <2>3, OldPasses
  <2>4. CASE Turns(c, call[c].kind, "refresh", jar[Browser(c)], call[c].verified,
                   call[c].checked, call[c].issued)
    BY <2>1, <2>2, <2>4, OldQuiet
  <2> QED BY <1>5, <2>3, <2>4, DeniedTurns DEF TypeInv
<1>6. CASE FindToken(c)
  <2>1. PICK l \in {"denied", "rotate", "reuse"} :
          /\ Turns(c, call[c].kind, l, call[c].cookie, call[c].verified, sweeps.count,
                   call[c].issued)
          /\ l = "rotate" => Live(call[c].cookie)
    BY <1>6, FindTurns DEF TypeInv
  <2>2. l = "rotate" => call[c].cookie \in DOMAIN token /\ OutlivesToken(call[c].cookie)
    BY <1>1, <2>1, CallNumbers, SMTT(30) DEF Live, OldInv, OldSessionsEnd, OutlivesToken, Outlives
  <2>3. CheckedSince(call[c].kind, l, call[c].cookie, call[c].verified, sweeps.count)
    BY <1>1, <2>2 DEF CheckedSince
  <2>4. Kept /\ Same
    BY <1>2, <1>3, <1>6 DEF FindToken, ServerKept
  <2> QED BY <2>1, <2>3, <2>4, OldQuiet
<1>7. CASE ReuseDetected(c)
  <2>1. Passes(c, "denied")
    BY <1>7, GoesPasses DEF ReuseDetected, TypeInv, Ats
  <2>2. Kept
    BY <1>7, AllEnd, EndsKept DEF ReuseDetected, TypeInv
  <2>3. Same
    BY <1>1, <1>7 DEF ReuseDetected, TypeInv, Typed
  <2> QED BY <2>1, <2>2, <2>3, OldPasses DEF Ats
<1>8. CASE Rotate(c)
  <2>1. Passes(c, "issue") /\ At(c, "rotate") /\ Same /\ call[c].kind # "login"
    BY <1>3, <1>8, GoesPasses, CallNumbers DEF Rotate, TypeInv, Ats, CallOk, At, Kind
  <2>2. call[c].cookie \in DOMAIN token
    BY <1>1, <2>1, CallNumbers DEF CallOk
  <2>3. Kept
    BY <1>8, <2>2, OneEnds, EndsKept DEF Rotate, TypeInv
  <2>4. CheckedSince(call[c].kind, "issue", call[c].cookie, call[c].verified, call[c].checked)
    BY <2>1 DEF OldInv, CheckedSince, At
  <2> QED BY <2>1, <2>3, <2>4, OldQuiet DEF Passes
<1>9. CASE VerifyPassword(c)
  <2>1. Turns(c, call[c].kind, "issue", call[c].cookie, password, sweeps.count, call[c].issued)
    BY <1>9, VerifyTurns DEF TypeInv
  <2>2. call[c].kind = "login"
    BY <1>9, CallNumbers DEF VerifyPassword, CallOk, At, Kind
  <2>3. CheckedSince(call[c].kind, "issue", call[c].cookie, password, sweeps.count)
    BY <1>1, <2>2 DEF OldInv, CheckedSince
  <2>4. Kept /\ Same
    BY <1>2, <1>3, <1>9 DEF VerifyPassword, ServerKept
  <2> QED BY <2>1, <2>3, <2>4, OldQuiet
<1>10. CASE IssueTokens(c)
  BY <1>10, OldIssued
<1>11. CASE Answered(c)
  <2>1. Kept /\ Same
    BY <1>2, <1>3, <1>11 DEF Answered, ServerKept
  <2>2. CASE Rests(c)
    BY <2>1, <2>2, OldPasses
  <2>3. ASSUME NEW k \in Kinds,
               Turns(c, k, "api", call[c].issued, call[c].verified, call[c].checked, 0)
        PROVE  OldInv'
    <3>1. CheckedSince(k, "api", call[c].issued, call[c].verified, call[c].checked)
      BY DEF OldInv, CheckedSince
    <3> QED BY <2>1, <2>3, <3>1, OldQuiet
  <2> QED BY <1>11, <2>2, <2>3, AnsweredTurns DEF TypeInv
<1>12. CASE RefreshDenied(c) \/ AnswerLost(c)
  <2>1. Kept /\ Same /\ AfterFailure(c)
    BY <1>2, <1>3, <1>12 DEF RefreshDenied, AnswerLost, ServerKept
  <2>2. CASE Rests(c)
    BY <2>1, <2>2, OldPasses
  <2>3. CASE Turns(c, "request", "api", 0, 0, 0, 0)
    <3>1. CheckedSince("request", "api", 0, 0, 0)
      BY <1>1 DEF CheckedSince
    <3> QED BY <2>1, <2>3, <3>1, OldQuiet
  <2> QED BY <2>1, <2>2, <2>3, FailureTurns DEF TypeInv
<1>13. CASE Logout(c)
  <2>1. Passes(c, "bye") /\ Same
    BY <1>3, <1>13, GoesPasses DEF Logout, TypeInv, Ats
  <2>2. Kept
    <3>1. CASE call[c].cookie = 0
      BY <1>2, <1>13, <3>1 DEF Logout
    <3>2. CASE call[c].cookie # 0
      <4>1. call[c].cookie \in DOMAIN token
        BY <1>1, <3>2, CallNumbers
      <4> QED BY <1>13, <3>2, <4>1, OneEnds, EndsKept DEF Logout, TypeInv
    <3> QED BY <3>1, <3>2
  <2> QED BY <2>1, <2>2, OldPasses DEF Ats
<1>14. CASE LoggedOut(c)
  <2>1. Rests(c)
    BY <1>14, IdleRests DEF LoggedOut, TypeInv
  <2> QED BY <1>2, <1>3, <1>14, <2>1, OldPasses DEF LoggedOut, ServerKept
<1>15. CASE OpenLink(c)
  <2>1. (call' = [call EXCEPT ![c] = Idle]) \/ Goes(c, "write")
    BY <1>15 DEF OpenLink, Goes
  <2>2. Rests(c) \/ Passes(c, "write")
    BY <2>1, GoesPasses, IdleRests DEF TypeInv, Ats
  <2> QED BY <1>2, <1>3, <1>15, <2>2, OldPasses DEF OpenLink, ServerKept, Ats
<1>16. CASE WritePassword(c)
  <2>1. Passes(c, "use") \/ Passes(c, "sweep")
    BY <1>16, GoesPasses DEF WritePassword, TypeInv, Ats
  <2>2. Same
    BY <1>1, <1>16 DEF WritePassword
  <2> QED BY <1>2, <1>16, <2>1, <2>2, OldPasses DEF WritePassword, Ats
<1>17. CASE UseLink(c)
  <2>1. Passes(c, "sweep")
    BY <1>17, GoesPasses DEF UseLink, TypeInv, Ats
  <2> QED BY <1>2, <1>3, <1>17, <2>1, OldPasses DEF UseLink, Ats
<1>18. CASE SignOutOthers(c)
  BY <1>18, OldSwept
<1> QED BY <1>4, <1>5, <1>6, <1>7, <1>8, <1>9, <1>10, <1>11, <1>12, <1>13, <1>14, <1>15,
           <1>16, <1>17, <1>18 DEF CallStep

\* When the password has been replaced, no session of the old password lives on,
\* except the one that replaced it and those whose refresh or sign-in had been
\* checked before the sign-out and was completed after it: for any browsers,
\* tabs and calls, and in every order of the statements of the server.
THEOREM OldSessionsDie == SessionSpec => []OldSessionsEnd
<1>1. SessionInit => TypeInv /\ OldInv
  <2> SUFFICES ASSUME SessionInit PROVE OldInv
    BY TypeInit
  <2>1. sweeps.last = 0 /\ sweeps.count = 0 /\ password = 0
    BY DEF SessionInit
  <2>2. \A c \in Calls : Fields(call[c], "none", "idle", 0, 0, 0, 0)
    BY IdleFields DEF SessionInit
  <2>3. \A i \in DOMAIN token : token[i].verified \in Nat
    <3>1. \A i \in DOMAIN token : token[i] \in TokenType
      BY TypeInit DEF TypeInv, Typed
    <3> QED BY <3>1 DEF TokenType
  <2> QED BY <2>1, <2>2, <2>3 DEF OldInv, OldSessionsEnd, CheckedSince, Fields
<1>2. TypeInv /\ OldInv /\ [SessionNext]_sessionVars => TypeInv' /\ OldInv'
  <2> SUFFICES ASSUME TypeInv, OldInv, [SessionNext]_sessionVars PROVE OldInv'
    BY TypeStep
  <2>1. CASE UNCHANGED sessionVars
    BY <2>1 DEF sessionVars, OldInv, OldSessionsEnd, CheckedSince, OutlivesToken, Outlives
  <2>2. ASSUME NEW c \in Calls, CallStep(c) PROVE OldInv'
    BY <2>2, OldStep
  <2>3. ASSUME NEW c \in Calls, NEW k \in Kinds \ {"none"}, Begin(c, k) PROVE OldInv'
    <3>1. PICK l \in {"refresh", "verify", "logout", "link", "api"} :
            Turns(c, k, l, jar[Browser(c)], 0, 0, 0)
      BY <2>3, BeginTurns DEF TypeInv
    <3>2. CheckedSince(k, l, jar[Browser(c)], 0, 0)
      BY DEF CheckedSince, TypeInv, Typed
    <3>3. UNCHANGED <<token, password, sweeps>> /\ password \in Nat
      BY <2>3 DEF Begin, ServerKept, TypeInv, Typed
    <3>4. TokensKept /\ DOMAIN token' = DOMAIN token
      BY <3>3, NoneEnds, EndsKept DEF TypeInv
    <3> QED BY <3>1, <3>2, <3>3, <3>4, OldQuiet
  <2>4. ASSUME NEW t \in Tabs, AccessExpires(t) PROVE OldInv'
    BY <2>4, ExpiredCalls DEF AccessExpires, ServerKept, TypeInv, OldInv, OldSessionsEnd,
       CheckedSince, OutlivesToken, Outlives, Fields
  <2>5. ASSUME NEW t \in Tabs, Reload(t) PROVE OldInv'
    BY <2>5 DEF Reload, ServerKept, OldInv, OldSessionsEnd, CheckedSince, OutlivesToken, Outlives
  <2> QED BY <2>1, <2>2, <2>3, <2>4, <2>5 DEF SessionNext
<1>3. OldInv => OldSessionsEnd
  BY DEF OldInv
<1> QED BY <1>1, <1>2, <1>3, PTL DEF SessionSpec

-----------------------------------------------------------------------------
\* Calls of a browser that take turns (the run SilentRefresh shows what they do to
\* each other if not): any number of them may be in flight, but while one is at
\* work on the session the others only present their access tokens.
PlainAt(kind, at) == at = "idle" \/ (at = "api" /\ kind \in {"request", "fetch"})

LEMMA OthersPlain ==
  ASSUME TakeTurns, NEW c \in Calls, ~PlainAt(call[c].kind, call[c].at),
         NEW d \in Calls \ {c}, Browser(d) = Browser(c)
  PROVE  PlainAt(call[d].kind, call[d].at)
  BY DEF TakeTurns, Plain, PlainAt, At, Kind

\* A cookie, and a token on its way to become one, are of a sign-in that no other
\* browser has.
Holds(b, i) ==
  /\ i > 0
  /\ \/ i = jar[b]
     \/ \E c \in Calls : Browser(c) = b /\ (i = call[c].cookie \/ i = call[c].issued)
Apart ==
  \A a, b \in Browsers, i, j \in DOMAIN token :
    Holds(a, i) /\ Holds(b, j) /\ a # b => token[i].family # token[j].family

\* Between the rotation and the new token a sign-in has no live token.
OnlyLeft(n) == \A j \in DOMAIN token :
                 token[j].state = "live" /\ token[j].family = token[n].family => j = n
NoneLeft(n) == \A j \in DOMAIN token :
                 token[j].family = token[n].family => token[j].state # "live"
Rotating(kind, at, cookie) ==
  /\ at = "rotate" => cookie > 0 /\ OnlyLeft(cookie)
  /\ at = "issue" /\ kind # "login" => cookie > 0 /\ NoneLeft(cookie)

OneInv ==
  /\ RotationKeepsOne
  /\ Apart
  /\ \A c \in Calls : Rotating(call[c].kind, call[c].at, call[c].cookie)

\* What a step does to the tokens a browser holds.
LEMMA HeldAfter ==
  ASSUME TypeInv, NEW c \in Calls, NEW k, NEW l, NEW n, NEW v, NEW m, NEW i,
         Turns(c, k, l, n, v, m, i),
         \A b \in Browsers : jar'[b] = jar[b]
           \/ (b = Browser(c) /\ (jar'[b] = 0 \/ Holds(b, jar'[b]))),
         n = 0 \/ Holds(Browser(c), n), NEW b \in Browsers, NEW j, Holds(b, j)'
  PROVE  Holds(b, j) \/ (b = Browser(c) /\ j = i)
<1>1. j > 0
  BY DEF Holds
<1>2. CASE j = jar'[b]
  BY <1>1, <1>2 DEF Holds
<1>3. ASSUME NEW d \in Calls, Browser(d) = b, j = call'[d].cookie \/ j = call'[d].issued
      PROVE  Holds(b, j) \/ (b = Browser(c) /\ j = i)
  <2>1. CASE d = c
    BY <1>1, <1>3, <2>1 DEF Turns, Fields, Holds
  <2>2. CASE d # c
    <3>1. call'[d] = call[d]
      BY <2>2 DEF Turns
    <3> QED BY <1>1, <1>3, <3>1 DEF Holds
  <2> QED BY <2>1, <2>2
<1> QED BY <1>2, <1>3 DEF Holds, Browser

LEMMA OneQuiet ==
  ASSUME TypeInv, OneInv, NEW c \in Calls, NEW k, NEW l, NEW n, NEW v, NEW m, NEW i,
         Turns(c, k, l, n, v, m, i), TokensKept, DOMAIN token' = DOMAIN token,
         \A b \in Browsers : jar'[b] = jar[b]
           \/ (b = Browser(c) /\ (jar'[b] = 0 \/ Holds(b, jar'[b]))),
         n = 0 \/ Holds(Browser(c), n), i = 0 \/ Holds(Browser(c), i),
         n = 0 \/ n \in DOMAIN token,
         l = "rotate" => n > 0 /\ OnlyLeft(n),
         l = "issue" /\ k # "login" => n > 0 /\ NoneLeft(n)'
  PROVE  OneInv'
<1>1. RotationKeepsOne'
  BY DEF OneInv, RotationKeepsOne, TokensKept
<1>2. Apart'
  <2>1. \A b \in Browsers, j \in DOMAIN token : Holds(b, j)' => Holds(b, j)
    <3> TAKE b \in Browsers, j \in DOMAIN token
    <3>1. ASSUME Holds(b, j)' PROVE Holds(b, j)
      <4>1. Holds(b, j) \/ (b = Browser(c) /\ j = i)
        BY <3>1, HeldAfter
      <4>2. j > 0
        BY <3>1 DEF Holds
      <4> QED BY <4>1, <4>2
    <3> QED BY <3>1
  <2> QED BY <2>1 DEF OneInv, Apart, TokensKept
<1>3. ASSUME NEW d \in Calls
      PROVE  Rotating(call[d].kind, call[d].at, call[d].cookie)'
  <2>1. CASE d = c
    <3>1. l = "rotate" => OnlyLeft(n)'
      BY DEF OnlyLeft, TokensKept
    <3> QED BY <2>1, <3>1 DEF Turns, Fields, Rotating, OnlyLeft, NoneLeft
  <2>2. CASE d # c
    <3>1. call'[d] = call[d] /\ Rotating(call[d].kind, call[d].at, call[d].cookie)
      BY <2>2 DEF Turns, OneInv
    <3>2. call[d].cookie > 0 => call[d].cookie \in DOMAIN token
      BY CallNumbers DEF TypeInv, Typed
    <3> QED BY <3>1, <3>2 DEF Rotating, OnlyLeft, NoneLeft, TokensKept
  <2> QED BY <2>1, <2>2
<1> QED BY <1>1, <1>2, <1>3 DEF OneInv

LEMMA OnePasses ==
  ASSUME TypeInv, OneInv, NEW c \in Calls, TokensKept, DOMAIN token' = DOMAIN token,
         \A b \in Browsers : jar'[b] = jar[b]
           \/ (b = Browser(c) /\ (jar'[b] = 0 \/ Holds(b, jar'[b]))),
         Rests(c) \/ \E l \in Ats \ {"rotate", "issue"} : Passes(c, l)
  PROVE  OneInv'
<1>1. CASE Rests(c)
  BY <1>1, OneQuiet DEF Rests
<1>2. ASSUME NEW l \in Ats \ {"rotate", "issue"}, Passes(c, l) PROVE OneInv'
  <2>1. /\ call[c].cookie = 0 \/ call[c].cookie \in DOMAIN token
        /\ call[c].cookie = 0 \/ Holds(Browser(c), call[c].cookie)
        /\ call[c].issued = 0 \/ Holds(Browser(c), call[c].issued)
    BY CallNumbers DEF TypeInv, Typed, Holds
  <2> QED BY <1>2, <2>1, OneQuiet DEF Passes
<1> QED BY <1>1, <1>2

LEMMA OneIssued ==
  ASSUME TypeInv, OneInv, TakeTurns, NEW c \in Calls, IssueTokens(c) PROVE OneInv'
<1>1. UNCHANGED jar /\ At(c, "issue")
  BY DEF IssueTokens, BrowserKept
<1>2. PICK new : new = Len(token) + 1
  OBVIOUS
<1>3. /\ Len(token) \in Nat /\ DOMAIN token = 1..Len(token) /\ new \notin DOMAIN token /\ new > 0
      /\ \A i \in DOMAIN token : token[i].family \in 1..i
  BY <1>2 DEF TypeInv, Typed
<1>4. /\ \A i \in DOMAIN token : i \in DOMAIN token' /\ token'[i] = token[i]
      /\ \A i \in DOMAIN token' : i \in DOMAIN token \/ i = new
      /\ new \in DOMAIN token' /\ token'[new].state = "live"
      /\ Kind(c) = "login" => token'[new].family = new
      /\ Kind(c) # "login" => /\ call[c].cookie \in DOMAIN token
                            /\ token'[new].family = token[call[c].cookie].family
  BY <1>2, Issued
<1>5. Turns(c, call[c].kind, "answer", call[c].cookie, call[c].verified, call[c].checked, new)
  BY <1>2, IssueTurns DEF TypeInv
\* The family of the new token has no other live token, and no other browser has it.
<1>6. \A j \in DOMAIN token : token[j].family = token'[new].family => token[j].state # "live"
  <2>1. CASE Kind(c) = "login"
    BY <1>3, <1>4, <2>1
  <2>2. CASE Kind(c) # "login"
    BY <1>1, <1>4, <2>2 DEF OneInv, Rotating, NoneLeft, At, Kind
  <2> QED BY <2>1, <2>2
<1>7. \A b \in Browsers \ {Browser(c)}, j \in DOMAIN token :
        Holds(b, j) => token[j].family # token'[new].family
  <2>1. CASE Kind(c) = "login"
    BY <1>3, <1>4, <2>1
  <2>2. CASE Kind(c) # "login"
    <3>1. Browser(c) \in Browsers /\ Holds(Browser(c), call[c].cookie)
      BY <1>3, <1>4, <2>2, CallNumbers DEF Holds
    <3> QED BY <1>4, <2>2, <3>1 DEF OneInv, Apart
  <2> QED BY <2>1, <2>2
<1>8. RotationKeepsOne'
  BY <1>4, <1>6 DEF OneInv, RotationKeepsOne
<1>9. Apart'
  <2> SUFFICES ASSUME NEW a \in Browsers, NEW b \in Browsers, NEW i \in DOMAIN token',
                      NEW j \in DOMAIN token', Holds(a, i)', Holds(b, j)', a # b
               PROVE  token'[i].family # token'[j].family
    BY DEF Apart
  <2>1. \A d \in Browsers, e \in DOMAIN token' :
          Holds(d, e)' => Holds(d, e) \/ (d = Browser(c) /\ e = new)
    <3>1. call[c].cookie = 0 \/ Holds(Browser(c), call[c].cookie)
      BY CallNumbers DEF Holds
    <3> QED BY <1>1, <1>5, <3>1, HeldAfter
  <2>2. \A d \in Browsers : ~Holds(d, new)
    BY <1>2, <1>3, CallNumbers, SMTT(30) DEF Holds, TypeInv, Typed
  <2>3. CASE i # new /\ j # new
    BY <1>4, <2>1, <2>3 DEF OneInv, Apart
  <2>4. CASE i = new
    <3>1. a = Browser(c) /\ Holds(b, j) /\ j # new
      BY <2>1, <2>2, <2>4
    <3> QED BY <1>4, <1>7, <2>4, <3>1
  <2>5. CASE j = new
    <3>1. b = Browser(c) /\ Holds(a, i) /\ i # new
      BY <2>1, <2>2, <2>5
    <3> QED BY <1>4, <1>7, <2>5, <3>1
  <2> QED BY <2>3, <2>4, <2>5
<1>10. ASSUME NEW d \in Calls PROVE Rotating(call[d].kind, call[d].at, call[d].cookie)'
  <2>1. CASE d = c
    BY <1>5, <2>1 DEF Turns, Fields, Rotating
  <2>2. CASE d # c /\ Browser(d) = Browser(c)
    <3>1. ~PlainAt(call[c].kind, call[c].at)
      BY <1>1 DEF PlainAt, At
    <3>2. call'[d] = call[d] /\ PlainAt(call[d].kind, call[d].at)
      BY <1>5, <2>2, <3>1, OthersPlain DEF Turns
    <3> QED BY <3>2 DEF PlainAt, Rotating
  <2>3. CASE d # c /\ Browser(d) # Browser(c)
    <3>1. call'[d] = call[d] /\ Browser(d) \in Browsers
      BY <1>5, <2>3, CallNumbers DEF Turns
    <3>2. Rotating(call[d].kind, call[d].at, call[d].cookie)
      BY DEF OneInv
    <3>3. call[d].cookie > 0 =>
            /\ call[d].cookie \in DOMAIN token
            /\ token[call[d].cookie].family # token'[new].family
      BY <1>3, <1>7, <2>3, <3>1, CallNumbers DEF Holds
    <3> QED BY <1>4, <3>1, <3>2, <3>3 DEF Rotating, OnlyLeft, NoneLeft
  <2> QED BY <2>1, <2>2, <2>3
<1> QED BY <1>8, <1>9, <1>10 DEF OneInv

LEMMA OneStep ==
  ASSUME TypeInv, OneInv, TakeTurns, NEW c \in Calls, CallStep(c) PROVE OneInv'
<1> DEFINE Kept == TokensKept /\ DOMAIN token' = DOMAIN token
           Jars == \A b \in Browsers :
                     jar'[b] = jar[b] \/ (b = Browser(c) /\ (jar'[b] = 0 \/ Holds(b, jar'[b])))
           Held(n) == n = 0 \/ (n \in DOMAIN token /\ Holds(Browser(c), n))
<1>1. /\ DOMAIN token = 1..Len(token) /\ Browser(c) \in Browsers
      /\ Held(call[c].cookie) /\ Held(jar[Browser(c)])
      /\ call[c].issued = 0 \/ Holds(Browser(c), call[c].issued)
  BY CallNumbers DEF TypeInv, Typed, Holds
<1>2. UNCHANGED token => Kept
  BY NoneEnds, EndsKept DEF TypeInv
<1>3. UNCHANGED jar => Jars
  OBVIOUS
<1>4. CASE Authorized(c)
  <2>1. Rests(c) \/ Passes(c, "write")
    BY <1>4, GoesPasses, IdleRests DEF Authorized, TypeInv, Ats
  <2> QED BY <1>2, <1>3, <1>4, <2>1, OnePasses DEF Authorized, ServerKept, BrowserKept, Ats
<1>5. CASE Denied(c)
  <2>1. Kept /\ Jars
    BY <1>2, <1>3, <1>5 DEF Denied, ServerKept, BrowserKept
  <2>2. CASE Rests(c)
    BY <2>1, <2>2, OnePasses
  <2>3. CASE Turns(c, call[c].kind, "refresh", jar[Browser(c)], call[c].verified,
                   call[c].checked, call[c].issued)
    BY <1>1, <2>1, <2>3, OneQuiet
  <2> QED BY <1>5, <2>2, <2>3, DeniedTurns DEF TypeInv
<1>6. CASE FindToken(c)
  <2>1. PICK l \in {"denied", "rotate", "reuse"} :
          /\ Turns(c, call[c].kind, l, call[c].cookie, call[c].verified, sweeps.count,
                   call[c].issued)
          /\ l = "rotate" => Live(call[c].cookie)
    BY <1>6, FindTurns DEF TypeInv
  <2>2. l = "rotate" => call[c].cookie > 0 /\ OnlyLeft(call[c].cookie)
    BY <1>1, <2>1 DEF Live, OneInv, RotationKeepsOne, OnlyLeft
  <2>3. Kept /\ Jars
    BY <1>2, <1>3, <1>6 DEF FindToken, ServerKept, BrowserKept
  <2> QED BY <1>1, <2>1, <2>2, <2>3, OneQuiet
<1>7. CASE ReuseDetected(c)
  <2>1. Passes(c, "denied")
    BY <1>7, GoesPasses DEF ReuseDetected, TypeInv, Ats
  <2>2. Kept
    BY <1>7, AllEnd, EndsKept DEF ReuseDetected, TypeInv
  <2> QED BY <1>3, <1>7, <2>1, <2>2, OnePasses DEF ReuseDetected, BrowserKept, Ats
<1>8. CASE Rotate(c)
  <2>1. Passes(c, "issue") /\ At(c, "rotate") /\ call[c].cookie > 0 /\ OnlyLeft(call[c].cookie)
    BY <1>8, GoesPasses DEF Rotate, TypeInv, Ats, OneInv, Rotating, At
  <2>2. call[c].cookie \in DOMAIN token
    BY <1>1, <2>1
  <2>3. Ends({call[c].cookie})
    BY <1>8, <2>2, OneEnds DEF Rotate, TypeInv
  <2>4. Kept /\ Jars
    BY <1>3, <1>8, <2>3, EndsKept DEF Rotate, BrowserKept
  <2>5. PICK n : n = call[c].cookie
    OBVIOUS
  <2>6. NoneLeft(n)'
    BY <2>1, <2>2, <2>3, <2>5 DEF Ends, OnlyLeft, NoneLeft
  <2>7. Turns(c, call[c].kind, "issue", n, call[c].verified, call[c].checked, call[c].issued)
    BY <2>1, <2>5 DEF Passes
  <2> QED BY <1>1, <2>1, <2>4, <2>5, <2>6, <2>7, OneQuiet
<1>9. CASE VerifyPassword(c)
  <2>1. Turns(c, call[c].kind, "issue", call[c].cookie, password, sweeps.count, call[c].issued)
    BY <1>9, VerifyTurns DEF TypeInv
  <2>2. call[c].kind = "login"
    BY <1>9, CallNumbers DEF VerifyPassword, CallOk, At, Kind
  <2>3. Kept /\ Jars
    BY <1>2, <1>3, <1>9 DEF VerifyPassword, ServerKept, BrowserKept
  <2> QED BY <1>1, <2>1, <2>2, <2>3, OneQuiet
<1>10. CASE IssueTokens(c)
  BY <1>10, OneIssued
<1>11. CASE Answered(c)
  <2>1. At(c, "answer") /\ call[c].issued > 0 /\ Kept /\ call[c].issued \in DOMAIN token
    BY <1>1, <1>2, <1>11, CallNumbers DEF Answered, ServerKept, CallOk
  <2>2. Jars
    BY <1>1, <1>11, <2>1 DEF Answered, TypeInv, Typed
  <2>3. CASE Rests(c)
    BY <2>1, <2>2, <2>3, OnePasses
  <2>4. ASSUME NEW k \in Kinds,
               Turns(c, k, "api", call[c].issued, call[c].verified, call[c].checked, 0)
        PROVE  OneInv'
    BY <1>1, <2>1, <2>2, <2>4, OneQuiet
  <2> QED BY <1>11, <2>3, <2>4, AnsweredTurns DEF TypeInv
<1>12. CASE RefreshDenied(c) \/ AnswerLost(c)
  <2>1. Kept /\ Jars /\ AfterFailure(c)
    BY <1>2, <1>3, <1>12 DEF RefreshDenied, AnswerLost, AfterFailure, ServerKept
  <2>2. CASE Rests(c)
    BY <2>1, <2>2, OnePasses
  <2>3. CASE Turns(c, "request", "api", 0, 0, 0, 0)
    BY <2>1, <2>3, OneQuiet
  <2> QED BY <2>1, <2>2, <2>3, FailureTurns DEF TypeInv
<1>13. CASE Logout(c)
  <2>1. Passes(c, "bye") /\ Jars
    BY <1>3, <1>13, GoesPasses DEF Logout, BrowserKept, TypeInv, Ats
  <2>2. Kept
    <3>1. CASE call[c].cookie = 0
      BY <1>2, <1>13, <3>1 DEF Logout
    <3>2. CASE call[c].cookie # 0
      <4>1. call[c].cookie \in DOMAIN token
        BY <1>1, <3>2
      <4> QED BY <1>13, <3>2, <4>1, OneEnds, EndsKept DEF Logout, TypeInv
    <3> QED BY <3>1, <3>2
  <2> QED BY <2>1, <2>2, OnePasses DEF Ats
<1>14. CASE LoggedOut(c)
  <2>1. Rests(c) /\ Kept
    BY <1>2, <1>14, IdleRests DEF LoggedOut, ServerKept, TypeInv
  <2>2. Jars
    BY <1>1, <1>14 DEF LoggedOut, TypeInv, Typed
  <2> QED BY <2>1, <2>2, OnePasses
<1>15. CASE OpenLink(c)
  <2>1. (call' = [call EXCEPT ![c] = Idle]) \/ Goes(c, "write")
    BY <1>15 DEF OpenLink, Goes
  <2>2. Rests(c) \/ Passes(c, "write")
    BY <2>1, GoesPasses, IdleRests DEF TypeInv, Ats
  <2> QED BY <1>2, <1>3, <1>15, <2>2, OnePasses DEF OpenLink, ServerKept, BrowserKept, Ats
<1>16. CASE WritePassword(c)
  <2>1. Passes(c, "use") \/ Passes(c, "sweep")
    BY <1>16, GoesPasses DEF WritePassword, TypeInv, Ats
  <2> QED BY <1>2, <1>3, <1>16, <2>1, OnePasses DEF WritePassword, BrowserKept, Ats
<1>17. CASE UseLink(c)
  <2>1. Passes(c, "sweep")
    BY <1>17, GoesPasses DEF UseLink, TypeInv, Ats
  <2> QED BY <1>2, <1>3, <1>17, <2>1, OnePasses DEF UseLink, BrowserKept, Ats
<1>18. CASE SignOutOthers(c)
  <2>1. Kept
    BY <1>18, AllEnd, EndsKept DEF SignOutOthers, TypeInv
  <2>2. Rests(c) /\ Jars
    BY <1>3, <1>18, IdleRests DEF SignOutOthers, BrowserKept, TypeInv
  <2> QED BY <2>1, <2>2, OnePasses
<1> QED BY <1>4, <1>5, <1>6, <1>7, <1>8, <1>9, <1>10, <1>11, <1>12, <1>13, <1>14, <1>15,
           <1>16, <1>17, <1>18 DEF CallStep

LEMMA OneNext == TypeInv /\ OneInv /\ TakeTurns /\ [SessionNext]_sessionVars => OneInv'
<1> SUFFICES ASSUME TypeInv, OneInv, TakeTurns, [SessionNext]_sessionVars PROVE OneInv'
  OBVIOUS
<1>1. CASE UNCHANGED sessionVars
  BY <1>1 DEF sessionVars, OneInv, RotationKeepsOne, Apart, Holds, Rotating, OnlyLeft, NoneLeft
<1>2. ASSUME NEW c \in Calls, CallStep(c) PROVE OneInv'
  BY <1>2, OneStep
<1>3. ASSUME NEW c \in Calls, NEW k \in Kinds \ {"none"}, Begin(c, k) PROVE OneInv'
  <2>1. PICK l \in {"refresh", "verify", "logout", "link", "api"} :
          Turns(c, k, l, jar[Browser(c)], 0, 0, 0)
    BY <1>3, BeginTurns DEF TypeInv
  <2>2. UNCHANGED <<token, jar>>
    BY <1>3 DEF Begin, ServerKept, BrowserKept
  <2>3. TokensKept /\ DOMAIN token' = DOMAIN token
    BY <2>2, NoneEnds, EndsKept DEF TypeInv
  <2>4. jar[Browser(c)] = 0
          \/ (jar[Browser(c)] \in DOMAIN token /\ Holds(Browser(c), jar[Browser(c)]))
    BY CallNumbers DEF TypeInv, Typed, Holds
  <2> QED BY <2>1, <2>2, <2>3, <2>4, OneQuiet
<1>4. ASSUME NEW t \in Tabs, AccessExpires(t) PROVE OneInv'
  <2>1. UNCHANGED <<token, jar>>
    BY <1>4 DEF AccessExpires, ServerKept
  <2>2. \A c \in Calls : /\ call'[c].kind = call[c].kind /\ call'[c].at = call[c].at
                         /\ call'[c].cookie = call[c].cookie /\ call'[c].issued = call[c].issued
    BY <1>4, ExpiredCalls DEF TypeInv, Fields
  <2>3. \A b, j : Holds(b, j)' <=> Holds(b, j)
    BY <2>1, <2>2 DEF Holds, Browser
  <2> QED BY <2>1, <2>2, <2>3 DEF OneInv, RotationKeepsOne, Apart, Rotating, OnlyLeft, NoneLeft
<1>5. ASSUME NEW t \in Tabs, Reload(t) PROVE OneInv'
  BY <1>5 DEF Reload, ServerKept, OneInv, RotationKeepsOne, Apart, Holds, Rotating, OnlyLeft,
     NoneLeft
<1> QED BY <1>1, <1>2, <1>3, <1>4, <1>5 DEF SessionNext

LEMMA OneInit == SessionInit => OneInv
<1> SUFFICES ASSUME SessionInit PROVE OneInv
  OBVIOUS
<1>1. SignedIn \in Seq(Browsers) /\ DOMAIN token = DOMAIN SignedIn
      /\ \A i \in DOMAIN token : token[i].family = i
  BY SessionAssumption DEF SessionInit
<1>2. \A c \in Calls : Fields(call[c], "none", "idle", 0, 0, 0, 0)
  BY IdleFields DEF SessionInit
<1>3. \A b \in Browsers : jar[b] > 0 => jar[b] \in DOMAIN SignedIn /\ SignedIn[jar[b]] = b
  <2> TAKE b \in Browsers
  <2>1. CASE \E i \in DOMAIN SignedIn : SignedIn[i] = b
    BY <2>1 DEF SessionInit
  <2>2. CASE ~\E i \in DOMAIN SignedIn : SignedIn[i] = b
    BY <2>2 DEF SessionInit
  <2> QED BY <2>1, <2>2
<1>4. \A b \in Browsers, j \in DOMAIN token : Holds(b, j) => j = jar[b]
  BY <1>1, <1>2 DEF Holds, Fields
<1>5. Apart
  BY <1>1, <1>3, <1>4 DEF Apart, Holds
<1> QED BY <1>1, <1>2, <1>5 DEF OneInv, RotationKeepsOne, Rotating, Fields

\* Rotation replaces: where the calls of a browser take turns, a sign-in never has
\* two live refresh tokens, whatever is lost, revoked or issued elsewhere.
THEOREM OneTokenASignIn == SessionSpec /\ []TakeTurns => []RotationKeepsOne
<1>1. OneInv => RotationKeepsOne
  BY DEF OneInv
<1> QED BY <1>1, OneNext, OneInit, TypeInit, TypeStep, PTL DEF SessionSpec

-----------------------------------------------------------------------------
\* What may have ended the session of a browser, and the calls that are about to
\* replace or to drop its cookie.
Excused(b) == lost > 0 \/ sweeps.alarm \/ sweeps.by \ {b} # {}
Replaces(kind, at) == (kind # "login" /\ (at = "issue" \/ at = "answer")) \/ at = "bye"

\* A call at work on the session has the cookie its browser has, answers it brings
\* are good ones, and it meets a revoked token only when something ended the session.
Presents(c, kind, at, cookie, issued) ==
  /\ ~PlainAt(kind, at) => cookie = jar[Browser(c)]
  /\ at = "answer" => Live(issued) \/ Excused(Browser(c))
  /\ at = "reuse" => Excused(Browser(c))

SignedInInv ==
  /\ \A c \in Calls : Presents(c, call[c].kind, call[c].at, call[c].cookie, call[c].issued)
  /\ \A b \in Browsers :
       jar[b] # 0 /\ ~Live(jar[b]) =>
         Excused(b) \/ \E c \in Calls : Browser(c) = b /\ Replaces(call[c].kind, call[c].at)
  /\ sweeps.by # {} => sweeps.last > 0

\* What excuses a browser stays.
Grows ==
  /\ lost > 0 => lost' > 0
  /\ sweeps.alarm => sweeps'.alarm
  /\ sweeps.by \subseteq sweeps'.by

LEMMA ExcusedKept ==
  ASSUME Grows PROVE \A b : Excused(b) => Excused(b)'
  BY DEF Grows, Excused

\* A step of call c keeps the tokens of every other browser, or excuses it.
Spares(c) ==
  \A i \in DOMAIN token, b \in Browsers :
    Holds(b, i) /\ token[i].state = "live" /\ b # Browser(c) =>
      (i \in DOMAIN token' /\ token'[i].state = "live") \/ Excused(b)'

LEMMA SignedInStep ==
  ASSUME TypeInv, SignedInInv, TakeTurns, Grows, NEW c \in Calls, Spares(c),
         ~PlainAt(call[c].kind, call[c].at), sweeps'.by # {} => sweeps'.last > 0,
         NEW k, NEW l, NEW n, NEW v, NEW m, NEW i, Turns(c, k, l, n, v, m, i),
         \A b \in Browsers \ {Browser(c)} : jar'[b] = jar[b],
         ~PlainAt(k, l) => n = jar'[Browser(c)],
         l = "answer" => Live(i)' \/ Excused(Browser(c))',
         l = "reuse" => Excused(Browser(c)),
         \/ jar'[Browser(c)] = 0
         \/ Live(jar[Browser(c)])'
         \/ Excused(Browser(c))'
         \/ Replaces(k, l)
  PROVE  SignedInInv'
<1>1. \A b \in Browsers : \A j \in DOMAIN token :
        Holds(b, j) /\ Live(j) /\ b # Browser(c) => Live(j)' \/ Excused(b)'
  BY DEF Live, Spares
<1>2. \A d \in Calls : /\ Browser(d) \in Browsers /\ Len(token) \in Nat
                       /\ DOMAIN token = 1..Len(token)
                       /\ call[d].issued \in 0..Len(token) /\ jar[Browser(d)] \in 0..Len(token)
  BY CallNumbers DEF TypeInv, Typed
<1>3. ASSUME NEW d \in Calls
      PROVE  Presents(d, call[d].kind, call[d].at, call[d].cookie, call[d].issued)'
  <2>1. CASE d = c
    BY <2>1, ExcusedKept DEF Turns, Fields, Presents, Browser
  <2>2. CASE d # c /\ Browser(d) = Browser(c)
    <3>1. call'[d] = call[d] /\ PlainAt(call[d].kind, call[d].at)
      BY <2>2, OthersPlain DEF Turns
    <3> QED BY <3>1 DEF PlainAt, Presents
  <2>3. CASE d # c /\ Browser(d) # Browser(c)
    <3>1. call'[d] = call[d] /\ jar'[Browser(d)] = jar[Browser(d)]
      BY <1>2, <2>3 DEF Turns
    <3>2. Presents(d, call[d].kind, call[d].at, call[d].cookie, call[d].issued)
      BY DEF SignedInInv
    <3>3. Live(call[d].issued) =>
            Holds(Browser(d), call[d].issued) /\ call[d].issued \in DOMAIN token
      BY <1>2 DEF Live, Holds
    <3>4. PICK q : q = call[d].issued
      OBVIOUS
    <3>5. Live(q) => Live(q)' \/ Excused(Browser(d))'
      BY <1>1, <1>2, <2>3, <3>3, <3>4
    <3>6. PICK b \in Browsers : b = Browser(d)
      BY <1>2
    <3>7. Excused(b) => Excused(b)'
      BY ExcusedKept
    <3> QED BY <3>1, <3>2, <3>4, <3>5, <3>6, <3>7 DEF Presents, Browser
  <2> QED BY <2>1, <2>2, <2>3
<1>4. ASSUME NEW b \in Browsers, jar'[b] # 0, ~Live(jar[b])'
      PROVE  Excused(b)' \/ \E d \in Calls : Browser(d) = b /\ Replaces(call'[d].kind, call'[d].at)
  <2>1. CASE b = Browser(c)
    BY <1>4, <2>1 DEF Turns, Fields
  <2>2. CASE b # Browser(c)
    <3>1. PICK q : q = jar[b] /\ q = jar'[b]
      BY <2>2
    <3>2. q \in 0..Len(token) /\ q # 0 /\ ~Live(q)'
      <4>1. q # 0 /\ ~Live(q)'
        BY <1>4, <3>1 DEF Live
      <4>2. jar \in [Browsers -> 0..Len(token)]
        BY DEF TypeInv, Typed
      <4> QED BY <3>1, <4>1, <4>2
    <3>3. CASE Live(q)
      <4>1. Holds(b, q) /\ q \in DOMAIN token
        BY <3>1, <3>2 DEF Holds, TypeInv, Typed
      <4> QED BY <1>1, <2>2, <3>2, <3>3, <4>1
    <3>4. CASE ~Live(q)
      <4>1. Excused(b) \/ \E d \in Calls : Browser(d) = b /\ Replaces(call[d].kind, call[d].at)
        BY <3>1, <3>2, <3>4, ZenonT(30) DEF SignedInInv
      <4>2. \A d \in Calls : Browser(d) = b => call'[d] = call[d]
        BY <2>2 DEF Turns
      <4> QED BY <4>1, <4>2, ExcusedKept
    <3> QED BY <3>3, <3>4
  <2> QED BY <2>1, <2>2
<1> QED BY <1>3, <1>4 DEF SignedInInv, Browser

LEMMA OwnCookie ==
  ASSUME TypeInv, SignedInInv, TakeTurns, NEW c \in Calls,
         ~PlainAt(call[c].kind, call[c].at), ~Replaces(call[c].kind, call[c].at)
  PROVE  jar[Browser(c)] = 0 \/ Live(jar[Browser(c)]) \/ Excused(Browser(c))
<1>1. Browser(c) \in Browsers
  BY CallNumbers
<1>2. \A d \in Calls : Browser(d) = Browser(c) => ~Replaces(call[d].kind, call[d].at)
  BY OthersPlain DEF PlainAt, Replaces
<1> QED BY <1>1, <1>2 DEF SignedInInv

\* Steps that leave the tokens and the cookies as they are, whatever else the
\* browser has in flight.
LEMMA SignedInQuiet ==
  ASSUME TypeInv, SignedInInv, NEW c \in Calls, UNCHANGED <<token, jar, sweeps>>,
         lost > 0 => lost' > 0, ~Replaces(call[c].kind, call[c].at),
         NEW k, NEW l, NEW n, NEW v, NEW m, NEW i, Turns(c, k, l, n, v, m, i),
         ~PlainAt(k, l) => n = jar[Browser(c)],
         l # "answer", l = "reuse" => Excused(Browser(c))
  PROVE  SignedInInv'
<1>1. \A b : Excused(b) => Excused(b)'
  BY ExcusedKept DEF Grows
<1>2. \A q : Live(q) => Live(q)'
  BY DEF Live
<1>3. ASSUME NEW d \in Calls
      PROVE  Presents(d, call[d].kind, call[d].at, call[d].cookie, call[d].issued)'
  <2>1. PICK b : b = Browser(d)
    OBVIOUS
  <2>2. CASE d = c
    BY <1>1, <2>1, <2>2 DEF Turns, Fields, Presents, Browser
  <2>3. CASE d # c
    <3>1. /\ call'[d] = call[d]
          /\ Presents(d, call[d].kind, call[d].at, call[d].cookie, call[d].issued)
      BY <2>3 DEF Turns, SignedInInv
    <3> QED BY <1>1, <1>2, <2>1, <3>1 DEF Presents, Browser
  <2> QED BY <2>2, <2>3
<1>4. ASSUME NEW b \in Browsers, jar'[b] # 0, ~Live(jar[b])'
      PROVE  Excused(b)' \/ \E d \in Calls : Browser(d) = b /\ Replaces(call'[d].kind, call'[d].at)
  <2>1. Excused(b) \/ \E d \in Calls : Browser(d) = b /\ Replaces(call[d].kind, call[d].at)
    BY <1>2, <1>4 DEF SignedInInv
  <2>2. \A d \in Calls : Replaces(call[d].kind, call[d].at) => call'[d] = call[d]
    BY DEF Turns
  <2> QED BY <1>1, <2>1, <2>2
<1> QED BY <1>3, <1>4 DEF SignedInInv, Browser

LEMMA SignedInPasses ==
  ASSUME TypeInv, SignedInInv, NEW c \in Calls, UNCHANGED <<token, jar, sweeps>>,
         lost > 0 => lost' > 0, ~Replaces(call[c].kind, call[c].at),
         Rests(c) \/ (/\ \E l \in Ats \ {"answer", "reuse"} : Passes(c, l)
                     /\ ~PlainAt(call[c].kind, call[c].at))
  PROVE  SignedInInv'
<1>1. CASE Rests(c)
  BY <1>1, SignedInQuiet DEF Rests, PlainAt
<1>2. ASSUME NEW l \in Ats \ {"answer", "reuse"}, Passes(c, l),
             ~PlainAt(call[c].kind, call[c].at)
      PROVE  SignedInInv'
  <2>1. call[c].cookie = jar[Browser(c)]
    BY <1>2 DEF SignedInInv, Presents
  <2> QED BY <1>2, <2>1, SignedInQuiet DEF Passes
<1> QED BY <1>1, <1>2

\* A token of one browser is revoked: no other holds it.
LEMMA OneSpares ==
  ASSUME TypeInv, OneInv, NEW c \in Calls, NEW n \in DOMAIN token, Holds(Browser(c), n), Ends({n})
  PROVE  Spares(c)
<1>1. Browser(c) \in Browsers
  BY CallNumbers
<1> SUFFICES ASSUME NEW i \in DOMAIN token, NEW b \in Browsers,
                    Holds(b, i), token[i].state = "live", b # Browser(c)
             PROVE  i \in DOMAIN token' /\ token'[i].state = "live"
  BY DEF Spares
<1>2. token[i].family # token[n].family
  BY <1>1 DEF OneInv, Apart
<1> QED BY <1>2 DEF Ends

LEMMA SignedInIssued ==
  ASSUME TypeInv, SignedInInv, TakeTurns, NEW c \in Calls, IssueTokens(c)
  PROVE  SignedInInv'
<1>1. UNCHANGED <<jar, sweeps, lost>> /\ call[c].at = "issue"
  BY DEF IssueTokens, BrowserKept, At
<1>2. PICK new : new = Len(token) + 1
  OBVIOUS
<1>3. Turns(c, call[c].kind, "answer", call[c].cookie, call[c].verified, call[c].checked, new)
  BY <1>2, IssueTurns DEF TypeInv
<1>4. /\ \A i \in DOMAIN token : i \in DOMAIN token' /\ token'[i] = token[i]
      /\ token'[new].state = "live" /\ new > 0
      /\ Len(token) \in Nat /\ DOMAIN token = 1..Len(token)
  BY <1>2, Issued DEF TypeInv, Typed
<1>5. Spares(c)
  BY <1>4 DEF Spares
<1>6. Grows /\ (sweeps'.by # {} => sweeps'.last > 0)
  BY <1>1 DEF Grows, SignedInInv
<1>7. ~PlainAt(call[c].kind, call[c].at) /\ call[c].cookie = jar[Browser(c)]
  BY <1>1 DEF SignedInInv, Presents, PlainAt
<1>8. Live(new)'
  BY <1>4 DEF Live
<1>9. \/ jar'[Browser(c)] = 0
      \/ Live(jar[Browser(c)])'
      \/ Excused(Browser(c))'
      \/ Replaces(call[c].kind, "answer")
  <2>1. CASE call[c].kind # "login"
    BY <2>1 DEF Replaces
  <2>2. CASE call[c].kind = "login"
    <3>1. jar[Browser(c)] = 0 \/ Live(jar[Browser(c)]) \/ Excused(Browser(c))
      BY <1>1, <2>2, OwnCookie DEF Replaces, PlainAt
    <3>2. Live(jar[Browser(c)]) => Live(jar[Browser(c)])'
      <4>1. jar[Browser(c)] \in 0..Len(token)
        BY CallNumbers
      <4> QED BY <1>1, <1>4, <4>1 DEF Live
    <3>3. Excused(Browser(c)) => Excused(Browser(c))'
      BY <1>1 DEF Excused
    <3> QED BY <1>1, <3>1, <3>2, <3>3
  <2> QED BY <2>1, <2>2
<1> QED BY <1>1, <1>3, <1>5, <1>6, <1>7, <1>8, <1>9, SignedInStep

LEMMA SignedInAnswered ==
  ASSUME TypeInv, SignedInInv, TakeTurns, NEW c \in Calls, Answered(c)
  PROVE  SignedInInv'
<1>1. /\ UNCHANGED <<token, sweeps, lost>> /\ call[c].at = "answer" /\ Browser(c) \in Browsers
      /\ jar'[Browser(c)] = call[c].issued
      /\ \A b \in Browsers \ {Browser(c)} : jar'[b] = jar[b]
  BY CallNumbers DEF Answered, ServerKept, At, TypeInv, Typed
<1>2. /\ Spares(c) /\ Grows /\ (sweeps'.by # {} => sweeps'.last > 0)
      /\ ~PlainAt(call[c].kind, call[c].at)
  BY <1>1 DEF Spares, Grows, SignedInInv, PlainAt
<1>3. Live(jar[Browser(c)])' \/ Excused(Browser(c))'
  <2>1. Live(call[c].issued) \/ Excused(Browser(c))
    BY <1>1 DEF SignedInInv, Presents
  <2>2. Live(call[c].issued) => Live(jar[Browser(c)])'
    BY <1>1 DEF Live
  <2>3. Excused(Browser(c)) => Excused(Browser(c))'
    BY <1>1 DEF Excused
  <2> QED BY <2>1, <2>2, <2>3
<1>4. CASE Rests(c)
  <2>1. Turns(c, "none", "idle", 0, 0, 0, 0) /\ PlainAt("none", "idle")
    BY <1>4 DEF Rests, PlainAt
  <2> QED BY <1>1, <1>2, <1>3, <2>1, SignedInStep
<1>5. ASSUME NEW k \in Kinds,
             Turns(c, k, "api", call[c].issued, call[c].verified, call[c].checked, 0)
      PROVE  SignedInInv'
  BY <1>1, <1>2, <1>3, <1>5, SignedInStep
<1> QED BY <1>4, <1>5, AnsweredTurns DEF TypeInv

LEMMA SignedInFound ==
  ASSUME TypeInv, SignedInInv, TakeTurns, NEW c \in Calls, FindToken(c)
  PROVE  SignedInInv'
<1>1. UNCHANGED <<token, jar, sweeps, lost>> /\ call[c].at = "refresh"
  BY DEF FindToken, ServerKept, BrowserKept, At
<1>2. /\ ~PlainAt(call[c].kind, call[c].at) /\ call[c].cookie = jar[Browser(c)]
      /\ ~Replaces(call[c].kind, call[c].at)
  BY <1>1 DEF SignedInInv, Presents, Replaces, PlainAt
<1>3. PICK l \in {"denied", "rotate", "reuse"} :
        /\ Turns(c, call[c].kind, l, call[c].cookie, call[c].verified, sweeps.count, call[c].issued)
        /\ l = "reuse" => call[c].cookie # 0 /\ ~Live(call[c].cookie)
  BY FindTurns DEF TypeInv
<1>4. l = "reuse" => Excused(Browser(c))
  BY <1>2, <1>3, OwnCookie
<1> QED BY <1>1, <1>2, <1>3, <1>4, SignedInQuiet

\* An action that ends the own token, on the way to a new cookie or to none.
LEMMA SignedInEnds ==
  ASSUME TypeInv, SignedInInv, OneInv, TakeTurns, NEW c \in Calls,
         ~PlainAt(call[c].kind, call[c].at), UNCHANGED <<jar, sweeps, lost>>,
         call[c].cookie = 0 => UNCHANGED token,
         call[c].cookie # 0 => token' = [token EXCEPT ![call[c].cookie].state = "revoked"],
         NEW l \in {"issue", "bye"}, Passes(c, l), Replaces(call[c].kind, l),
         call[c].cookie = jar[Browser(c)]
  PROVE  SignedInInv'
<1>1. Grows /\ (sweeps'.by # {} => sweeps'.last > 0)
  BY DEF Grows, SignedInInv
<1>2. Spares(c)
  <2>1. CASE call[c].cookie = 0
    BY <2>1 DEF Spares
  <2>2. CASE call[c].cookie # 0
    <3>1. call[c].cookie \in DOMAIN token /\ Holds(Browser(c), call[c].cookie)
      BY <2>2, CallNumbers DEF TypeInv, Typed, Holds
    <3>2. Ends({call[c].cookie})
      BY <2>2, <3>1, OneEnds DEF TypeInv
    <3> QED BY <3>1, <3>2, OneSpares
  <2> QED BY <2>1, <2>2
<1> QED BY <1>1, <1>2, SignedInStep DEF Passes

\* An action after which every browser has an excuse.
LEMMA SignedInExcused ==
  ASSUME TypeInv, SignedInInv, TakeTurns, NEW c \in Calls, UNCHANGED jar, Grows,
         ~PlainAt(call[c].kind, call[c].at),
         sweeps'.by # {} => sweeps'.last > 0, \A b : Excused(b)',
         NEW k, NEW l, NEW n, NEW v, NEW m, NEW i, Turns(c, k, l, n, v, m, i),
         ~PlainAt(k, l) => n = jar[Browser(c)],
         l # "reuse"
  PROVE  SignedInInv'
<1>1. Spares(c)
  BY DEF Spares
<1> QED BY <1>1, SignedInStep

LEMMA SignedInSwept ==
  ASSUME TypeInv, SignedInInv, TakeTurns, NEW c \in Calls, SignOutOthers(c)
  PROVE  SignedInInv'
<1> DEFINE who == IF Kind(c) = "reset" THEN "reset" ELSE Browser(c)
<1>1. /\ UNCHANGED <<jar, lost>> /\ call[c].at = "sweep" /\ Browser(c) \in Browsers
      /\ ~PlainAt(call[c].kind, call[c].at)
  BY CallNumbers DEF SignOutOthers, BrowserKept, At, PlainAt
<1>2. /\ sweeps'.by = sweeps.by \union {who} /\ sweeps'.alarm = sweeps.alarm
      /\ sweeps'.last = password
  BY DEF SignOutOthers, TypeInv, Typed
<1>3. password > 0
  BY <1>1, CallNumbers DEF CallOk, At
<1>4. Grows /\ (sweeps'.by # {} => sweeps'.last > 0)
  BY <1>1, <1>2, <1>3 DEF Grows
<1>5. \A b \in Browsers : b # who => Excused(b)'
  BY <1>2 DEF Excused
<1>6. Spares(c)
  BY <1>5, SessionAssumption DEF Spares
<1>7. jar[Browser(c)] = 0 \/ Live(jar[Browser(c)])' \/ Excused(Browser(c))'
  <2>1. CASE Kind(c) = "reset"
    <3>1. who = "reset" /\ Browser(c) # who
      BY <1>1, <2>1, SessionAssumption
    <3> QED BY <1>1, <1>5, <3>1
  <2>2. CASE Kind(c) # "reset"
    <3>1. KeptToken(c) = jar[Browser(c)]
      BY <1>1, <2>2 DEF KeptToken, SignedInInv, Presents, PlainAt
    <3>2. Ends(DOMAIN token \ {KeptToken(c)})
      BY AllEnd DEF SignOutOthers, TypeInv
    <3>3. jar[Browser(c)] \in 0..Len(token) /\ DOMAIN token = 1..Len(token) /\ Len(token) \in Nat
      BY CallNumbers DEF TypeInv, Typed
    <3>4. Live(jar[Browser(c)]) => Live(jar[Browser(c)])'
      BY <1>1, <3>1, <3>2, <3>3 DEF Ends, Live
    <3>5. Excused(Browser(c)) => Excused(Browser(c))'
      BY <1>4, ExcusedKept DEF Browser, Excused, Grows
    <3>6. ~Replaces(call[c].kind, call[c].at)
      BY <1>1 DEF Replaces
    <3> QED BY <1>1, <3>4, <3>5, <3>6, OwnCookie
  <2> QED BY <2>1, <2>2
<1>8. Turns(c, "none", "idle", 0, 0, 0, 0) /\ PlainAt("none", "idle")
  BY IdleRests DEF SignOutOthers, TypeInv, Rests, PlainAt
<1> QED BY <1>1, <1>4, <1>6, <1>7, <1>8, SignedInStep

LEMMA SignedInCall ==
  ASSUME TypeInv, SignedInInv, OneInv, TakeTurns, NEW c \in Calls, CallStep(c)
  PROVE  SignedInInv'
<1> DEFINE Quiet == UNCHANGED <<token, jar, sweeps, lost>>
<1>1. ~PlainAt(call[c].kind, call[c].at) => call[c].cookie = jar[Browser(c)]
  BY DEF SignedInInv, Presents
<1>2. CASE Authorized(c)
  <2>1. call[c].at = "api" /\ Quiet
    BY <1>2 DEF Authorized, ServerKept, BrowserKept, At
  <2>2. Rests(c) \/ (Passes(c, "write") /\ call[c].kind = "change")
    BY <1>2, GoesPasses, IdleRests DEF Authorized, TypeInv, Ats, Kind
  <2> QED BY <2>1, <2>2, SignedInPasses DEF Replaces, Ats, PlainAt
<1>3. CASE Denied(c)
  <2>1. call[c].at = "api" /\ Quiet /\ ~Replaces(call[c].kind, call[c].at)
    BY <1>3 DEF Denied, ServerKept, BrowserKept, At, Replaces
  <2>2. CASE Rests(c)
    BY <2>1, <2>2, SignedInPasses
  <2>3. CASE Turns(c, call[c].kind, "refresh", jar[Browser(c)], call[c].verified,
                   call[c].checked, call[c].issued)
    BY <2>1, <2>3, SignedInQuiet DEF PlainAt
  <2> QED BY <1>3, <2>2, <2>3, DeniedTurns DEF TypeInv
<1>4. CASE FindToken(c)
  BY <1>4, SignedInFound
<1>5. CASE ReuseDetected(c)
  <2>1. Passes(c, "denied") /\ call[c].at = "reuse"
    BY <1>5, GoesPasses DEF ReuseDetected, TypeInv, Ats, At
  <2>2. UNCHANGED <<jar, lost>> /\ sweeps'.alarm /\ sweeps'.by = sweeps.by
        /\ sweeps'.last = sweeps.last
    BY <1>5 DEF ReuseDetected, BrowserKept, TypeInv, Typed
  <2>3. Grows /\ (sweeps'.by # {} => sweeps'.last > 0) /\ \A b : Excused(b)'
    BY <2>2 DEF Grows, SignedInInv, Excused
  <2> QED BY <1>1, <2>1, <2>2, <2>3, SignedInExcused DEF Passes, PlainAt
<1>6. CASE Rotate(c)
  <2>1. call[c].at = "rotate" /\ Passes(c, "issue") /\ UNCHANGED <<jar, sweeps, lost>>
    BY <1>6, GoesPasses DEF Rotate, BrowserKept, TypeInv, Ats, At
  <2>2. call[c].kind # "login" /\ call[c].cookie # 0
    BY <2>1, CallNumbers DEF CallOk, At, Kind
  <2>3. token' = [token EXCEPT ![call[c].cookie].state = "revoked"]
    BY <1>6 DEF Rotate
  <2> QED BY <1>1, <2>1, <2>2, <2>3, SignedInEnds DEF Replaces, PlainAt
<1>7. CASE VerifyPassword(c)
  <2>1. Turns(c, call[c].kind, "issue", call[c].cookie, password, sweeps.count, call[c].issued)
    BY <1>7, VerifyTurns DEF TypeInv
  <2>2. call[c].at = "verify" /\ Quiet /\ ~Replaces(call[c].kind, call[c].at)
    BY <1>7 DEF VerifyPassword, ServerKept, BrowserKept, At, Replaces
  <2> QED BY <1>1, <2>1, <2>2, SignedInQuiet DEF PlainAt
<1>8. CASE IssueTokens(c)
  BY <1>8, SignedInIssued
<1>9. CASE Answered(c)
  BY <1>9, SignedInAnswered
<1>10. CASE RefreshDenied(c)
  <2>1. call[c].at = "denied" /\ Quiet /\ ~Replaces(call[c].kind, call[c].at) /\ AfterFailure(c)
    BY <1>10 DEF RefreshDenied, AfterFailure, ServerKept, At, Replaces
  <2>2. CASE Rests(c)
    BY <2>1, <2>2, SignedInPasses
  <2>3. CASE Turns(c, "request", "api", 0, 0, 0, 0)
    BY <2>1, <2>3, SignedInQuiet DEF PlainAt
  <2> QED BY <2>1, <2>2, <2>3, FailureTurns DEF TypeInv
<1>11. CASE AnswerLost(c)
  <2>1. UNCHANGED <<token, jar, sweeps>> /\ AfterFailure(c) /\ lost' > 0
    BY <1>11, SessionAssumption DEF AnswerLost, AfterFailure, ServerKept, TypeInv, Typed
  <2>2. Grows /\ (sweeps'.by # {} => sweeps'.last > 0) /\ \A b : Excused(b)'
    BY <2>1 DEF Grows, SignedInInv, Excused
  <2>5. ~PlainAt(call[c].kind, call[c].at)
    BY <1>11 DEF AnswerLost, At, PlainAt
  <2>3. CASE Rests(c)
    BY <2>1, <2>2, <2>3, <2>5, SignedInExcused DEF Rests, PlainAt
  <2>4. CASE Turns(c, "request", "api", 0, 0, 0, 0)
    BY <2>1, <2>2, <2>4, <2>5, SignedInExcused DEF PlainAt
  <2> QED BY <2>1, <2>3, <2>4, FailureTurns DEF TypeInv
<1>12. CASE Logout(c)
  <2>1. call[c].at = "logout" /\ Passes(c, "bye") /\ UNCHANGED <<jar, sweeps, lost>>
    BY <1>12, GoesPasses DEF Logout, BrowserKept, TypeInv, Ats, At
  <2>2. token' = IF call[c].cookie = 0 THEN token
                 ELSE [token EXCEPT ![call[c].cookie].state = "revoked"]
    BY <1>12 DEF Logout
  <2> QED BY <1>1, <2>1, <2>2, SignedInEnds DEF Replaces, PlainAt
<1>13. CASE LoggedOut(c)
  <2>1. /\ UNCHANGED <<token, sweeps, lost>> /\ Browser(c) \in Browsers /\ jar'[Browser(c)] = 0
        /\ \A b \in Browsers \ {Browser(c)} : jar'[b] = jar[b]
    BY <1>13, CallNumbers DEF LoggedOut, ServerKept, TypeInv, Typed
  <2>2. Spares(c) /\ Grows /\ (sweeps'.by # {} => sweeps'.last > 0)
    BY <2>1 DEF Spares, Grows, SignedInInv
  <2>3. Turns(c, "none", "idle", 0, 0, 0, 0)
    BY <1>13, IdleRests DEF LoggedOut, TypeInv, Rests
  <2>4. ~PlainAt(call[c].kind, call[c].at) /\ PlainAt("none", "idle")
    BY <1>13 DEF LoggedOut, At, PlainAt
  <2> QED BY <2>1, <2>2, <2>3, <2>4, SignedInStep
<1>14. CASE OpenLink(c)
  <2>1. (call' = [call EXCEPT ![c] = Idle]) \/ Goes(c, "write")
    BY <1>14 DEF OpenLink, Goes
  <2>2. Rests(c) \/ Passes(c, "write")
    BY <2>1, GoesPasses, IdleRests DEF TypeInv, Ats
  <2>3. call[c].at = "link" /\ Quiet /\ ~Replaces(call[c].kind, call[c].at)
    BY <1>14 DEF OpenLink, ServerKept, BrowserKept, At, Replaces
  <2> QED BY <2>2, <2>3, SignedInPasses DEF Ats, PlainAt
<1>15. CASE WritePassword(c)
  <2>1. Passes(c, "use") \/ Passes(c, "sweep")
    BY <1>15, GoesPasses DEF WritePassword, TypeInv, Ats
  <2>2. call[c].at = "write" /\ Quiet /\ ~Replaces(call[c].kind, call[c].at)
    BY <1>15 DEF WritePassword, BrowserKept, At, Replaces
  <2> QED BY <2>1, <2>2, SignedInPasses DEF Ats, PlainAt
<1>16. CASE UseLink(c)
  <2>1. Passes(c, "sweep")
    BY <1>16, GoesPasses DEF UseLink, TypeInv, Ats
  <2>2. call[c].at = "use" /\ Quiet /\ ~Replaces(call[c].kind, call[c].at)
    BY <1>16 DEF UseLink, BrowserKept, At, Replaces
  <2> QED BY <2>1, <2>2, SignedInPasses DEF Ats, PlainAt
<1>17. CASE SignOutOthers(c)
  BY <1>17, SignedInSwept
<1> QED BY <1>2, <1>3, <1>4, <1>5, <1>6, <1>7, <1>8, <1>9, <1>10, <1>11, <1>12, <1>13, <1>14,
           <1>15, <1>16, <1>17 DEF CallStep

LEMMA SignedInNext ==
  TypeInv /\ OneInv /\ SignedInInv /\ TakeTurns /\ [SessionNext]_sessionVars => SignedInInv'
<1> SUFFICES ASSUME TypeInv, OneInv, SignedInInv, TakeTurns, [SessionNext]_sessionVars
             PROVE  SignedInInv'
  OBVIOUS
<1>1. CASE UNCHANGED sessionVars
  BY <1>1 DEF sessionVars, SignedInInv, Presents, Excused, Live, Browser
<1>2. ASSUME NEW c \in Calls, CallStep(c) PROVE SignedInInv'
  BY <1>2, SignedInCall
<1>3. ASSUME NEW c \in Calls, NEW k \in Kinds \ {"none"}, Begin(c, k) PROVE SignedInInv'
  <2>1. PICK l \in {"refresh", "verify", "logout", "link", "api"} :
          Turns(c, k, l, jar[Browser(c)], 0, 0, 0)
    BY <1>3, BeginTurns DEF TypeInv
  <2>2. UNCHANGED <<token, jar, sweeps, lost>> /\ ~Replaces(call[c].kind, call[c].at)
    BY <1>3 DEF Begin, ServerKept, BrowserKept, At, Replaces
  <2> QED BY <2>1, <2>2, SignedInQuiet
<1>4. ASSUME NEW t \in Tabs, AccessExpires(t) PROVE SignedInInv'
  <2>1. UNCHANGED <<token, jar, sweeps, lost>>
    BY <1>4 DEF AccessExpires, ServerKept
  <2>2. \A c \in Calls : /\ call'[c].kind = call[c].kind /\ call'[c].at = call[c].at
                         /\ call'[c].cookie = call[c].cookie /\ call'[c].issued = call[c].issued
    BY <1>4, ExpiredCalls DEF TypeInv, Fields
  <2> QED BY <2>1, <2>2 DEF SignedInInv, Presents, Excused, Live, Browser
<1>5. ASSUME NEW t \in Tabs, Reload(t) PROVE SignedInInv'
  BY <1>5 DEF Reload, ServerKept, SignedInInv, Presents, Excused, Live, Browser
<1> QED BY <1>1, <1>2, <1>3, <1>4, <1>5 DEF SessionNext

LEMMA SignedInInit == SessionInit => SignedInInv
<1> SUFFICES ASSUME SessionInit PROVE SignedInInv
  OBVIOUS
<1>1. \A c \in Calls : Fields(call[c], "none", "idle", 0, 0, 0, 0)
  BY IdleFields DEF SessionInit
<1>2. \A b \in Browsers : jar[b] # 0 => Live(jar[b])
  <2> TAKE b \in Browsers
  <2>1. \A i \in DOMAIN SignedIn : i > 0 /\ token[i].state = "live"
    BY SessionAssumption DEF SessionInit
  <2>2. CASE \E i \in DOMAIN SignedIn : SignedIn[i] = b
    <3>1. jar[b] \in DOMAIN SignedIn
      BY <2>2 DEF SessionInit
    <3> QED BY <2>1, <3>1 DEF Live
  <2>3. CASE ~\E i \in DOMAIN SignedIn : SignedIn[i] = b
    BY <2>3 DEF SessionInit
  <2> QED BY <2>2, <2>3
<1>3. sweeps.by = {}
  BY DEF SessionInit
<1> QED BY <1>1, <1>2, <1>3 DEF SignedInInv, Presents, Fields, PlainAt

\* The theft alarm is not raised by the account's own browsers: where their calls
\* take turns, a rotated token comes back only after an answer was lost, a password
\* change revoked it, or the alarm had been raised before.
THEOREM AlarmForCause == SessionSpec /\ []TakeTurns => []NoFalseAlarm
<1>1. TypeInv /\ SignedInInv => NoFalseAlarm
  <2> SUFFICES ASSUME TypeInv, SignedInInv, NEW c \in Calls, At(c, "reuse")
               PROVE  lost > 0 \/ sweeps.last > 0 \/ sweeps.alarm
    BY DEF NoFalseAlarm
  <2>1. Excused(Browser(c))
    BY DEF SignedInInv, Presents, At
  <2> QED BY <2>1 DEF Excused, SignedInInv
<1> QED BY <1>1, OneNext, SignedInNext, SignedInInit, OneInit, TypeInit, TypeStep, PTL
        DEF SessionSpec

\* A browser is signed out only for a reason: an alarm, a lost answer, or a
\* password replaced elsewhere.  Where its calls take turns, neither its own
\* refreshes nor those of other browsers end its session, and changing the password
\* here keeps it; between two of its refreshes its cookie is live.
THEOREM SessionsLast == SessionSpec /\ []TakeTurns => []SignedInUntilEnded
<1>1. SignedInInv => SignedInUntilEnded
  BY DEF SignedInInv, SignedInUntilEnded, Excused, Replaces, At
<1> QED BY <1>1, OneNext, SignedInNext, SignedInInit, OneInit, TypeInit, TypeStep, PTL
        DEF SessionSpec
=============================================================================
