------------------------------ MODULE Sessions ------------------------------
(***************************************************************************)
(* Sign-in sessions of one account: the refresh tokens of the server       *)
(* (auth.service.ts), the cookie a browser keeps (auth.controller.ts), the *)
(* access token a tab keeps, and the silent refresh of the web client      *)
(* (lib/api.ts).  A server step is one database statement with the code up *)
(* to the next; a browser attaches the cookie it has when it sends.        *)
(***************************************************************************)
EXTENDS Integers, Sequences, FiniteSets

CONSTANTS
    Browsers,       \* each has one cookie jar
    Tabs,           \* each has its own access token in memory
    Calls,          \* what may be in flight at once
    BrowserOf,      \* BrowserOf[t]: the browser of tab t
    TabOf,          \* TabOf[c]: the tab that makes call c
    Does,           \* Does[c]: the kinds of call it may be
    SignedIn,       \* the browsers that start signed in, a sequence
    MaxTokens,      \* bound: refresh tokens ever issued
    MaxChanges,     \* bound: password changes and resets
    MaxLost         \* bound: answers lost and statements failed

ASSUME SessionAssumption ==
    /\ BrowserOf \in [Tabs -> Browsers] /\ TabOf \in [Calls -> Tabs]
    /\ SignedIn \in Seq(Browsers)
    /\ "reset" \notin Browsers
    /\ MaxLost \in Nat

VARIABLES
    token,      \* the RefreshToken rows, in the order of their creation
    jar,        \* jar[b]: the pv_refresh cookie, an index of token, or 0
    access,     \* access[t]: the access token of a tab
    call,       \* call[c]: a request of the client, and where it is
    password,   \* how often the password was replaced
    linkUsed,   \* PasswordResetToken.usedAt is set
    lost,       \* answers lost and statements failed so far
    sweeps      \* history: the last "sign out others", whom it kept, who asked

sessionVars == <<token, jar, access, call, password, linkUsed, lost, sweeps>>

Kinds == {"none", "request", "fetch", "boot", "login", "logout", "change", "reset"}
Idle == [kind |-> "none", at |-> "idle", cookie |-> 0, good |-> FALSE,
         retried |-> FALSE, verified |-> 0, checked |-> 0, issued |-> 0]

Browser(c) == BrowserOf[TabOf[c]]
At(c, l) == call[c].at = l
Kind(c) == call[c].kind
Goes(c, l) == call' = [call EXCEPT ![c].at = l]
Live(i) == i > 0 /\ token[i].state = "live"

SessionInit ==
    /\ token = [i \in DOMAIN SignedIn |->
                  [state |-> "live", family |-> i, verified |-> 0, overtaken |-> 0]]
    /\ jar = [b \in Browsers |->
                IF \E i \in DOMAIN SignedIn : SignedIn[i] = b
                THEN CHOOSE i \in DOMAIN SignedIn : SignedIn[i] = b ELSE 0]
    /\ access = [t \in Tabs |-> IF jar[BrowserOf[t]] = 0 THEN "none" ELSE "fresh"]
    /\ call = [c \in Calls |-> Idle]
    /\ password = 0 /\ linkUsed = FALSE /\ lost = 0
    /\ sweeps = [count |-> 0, last |-> 0, kept |-> 0, by |-> {}, alarm |-> FALSE]

ServerKept == UNCHANGED <<token, password, linkUsed, sweeps>>
BrowserKept == UNCHANGED <<jar, access>>
-----------------------------------------------------------------------------
\* A call leaves the browser.  A tab without an access token (a page that was
\* just loaded) refreshes first; login, logout and reset carry no access token.
FirstStop(kind) ==
    CASE kind = "boot" -> "refresh" [] kind = "login" -> "verify"
      [] kind = "logout" -> "logout" [] kind = "reset" -> "link" [] OTHER -> "api"

Begin(c, kind) ==
    /\ At(c, "idle") /\ kind \in Does[c]
    /\ kind = "boot" => access[TabOf[c]] = "none"
    /\ kind \in {"request", "change"} => access[TabOf[c]] # "none"
    /\ kind \in {"login", "reset"} => access[TabOf[c]] = "none"
    /\ kind \in {"change", "reset"} => password < MaxChanges
    /\ call' = [call EXCEPT ![c] =
         [Idle EXCEPT !.kind = kind, !.at = FirstStop(kind), !.cookie = jar[Browser(c)],
                      !.good = access[TabOf[c]] = "fresh"]]
    /\ ServerKept /\ BrowserKept /\ UNCHANGED lost

\* requireAuth lets the call through.
Authorized(c) ==
    /\ At(c, "api") /\ call[c].good
    /\ IF Kind(c) = "change" THEN Goes(c, "write") ELSE call' = [call EXCEPT ![c] = Idle]
    /\ ServerKept /\ BrowserKept /\ UNCHANGED lost

\* 401: one silent refresh, unless this is the replay after one.
Denied(c) ==
    /\ At(c, "api") /\ ~call[c].good
    /\ call' = [call EXCEPT ![c] =
         IF call[c].retried THEN Idle
         ELSE [@ EXCEPT !.at = "refresh", !.cookie = jar[Browser(c)]]]
    /\ ServerKept /\ BrowserKept /\ UNCHANGED lost

\* refresh reads the token of the cookie.
FindToken(c) ==
    /\ At(c, "refresh")
    /\ call' = [call EXCEPT ![c] = [@ EXCEPT !.checked = sweeps.count,
                  !.at = IF call[c].cookie = 0 THEN "denied"
                            ELSE IF Live(call[c].cookie) THEN "rotate" ELSE "reuse"]]
    /\ ServerKept /\ BrowserKept /\ UNCHANGED lost

\* A rotated token is used again: every session of the account is revoked.
RevokeAll(S) == [i \in DOMAIN token |->
                   IF i \in S THEN token[i] ELSE [token[i] EXCEPT !.state = "revoked"]]
ReuseDetected(c) ==
    /\ At(c, "reuse")
    /\ token' = RevokeAll({})
    /\ Goes(c, "denied")
    /\ sweeps' = [sweeps EXCEPT !.alarm = TRUE]
    /\ BrowserKept /\ UNCHANGED <<password, linkUsed, lost>>

RotateKeepsOld(c) ==
    /\ At(c, "rotate") /\ Goes(c, "issue")
    /\ BrowserKept /\ UNCHANGED <<token, password, linkUsed, lost, sweeps>>

Rotate(c) ==
    /\ At(c, "rotate")
    /\ token' = [token EXCEPT ![call[c].cookie].state = "revoked"]
    /\ Goes(c, "issue")
    /\ BrowserKept /\ UNCHANGED <<password, linkUsed, lost, sweeps>>

\* login: the password is verified against the hash that was read.
VerifyPassword(c) ==
    /\ At(c, "verify")
    /\ call' = [call EXCEPT ![c] = [@ EXCEPT !.at = "issue", !.verified = password,
                                          !.checked = sweeps.count]]
    /\ ServerKept /\ BrowserKept /\ UNCHANGED lost

\* issueTokens: a rotated token stays in the family of the one it replaces.
\* History: overtaken is the sign-out that came between the check and this.
IssueTokens(c) ==
    LET new == Len(token) + 1
        old == IF Kind(c) = "login"
               THEN [family |-> new, verified |-> call[c].verified, overtaken |-> 0]
               ELSE token[call[c].cookie]
    IN
    /\ At(c, "issue") /\ Len(token) < MaxTokens
    /\ token' = Append(token,
         [state |-> "live", family |-> old.family, verified |-> old.verified,
          overtaken |-> IF call[c].checked < sweeps.count THEN sweeps.count ELSE old.overtaken])
    /\ call' = [call EXCEPT ![c] = [@ EXCEPT !.at = "answer", !.issued = new]]
    /\ BrowserKept /\ UNCHANGED <<password, linkUsed, lost, sweeps>>

\* (Not the code: the browser keeps its cookie.)
AnsweredWithoutCookie(c) ==
    /\ At(c, "answer")
    /\ access' = [access EXCEPT ![TabOf[c]] = "fresh"]
    /\ call' = [call EXCEPT ![c] = Idle]
    /\ ServerKept /\ UNCHANGED <<jar, lost>>

\* The new cookie and access token arrive; a silent refresh is followed by the
\* replay of the call, or by the page's first call.
Answered(c) ==
    LET b == Browser(c)  t == TabOf[c] IN
    /\ At(c, "answer")
    /\ jar' = [jar EXCEPT ![b] = call[c].issued]
    /\ access' = [access EXCEPT ![t] = "fresh"]
    /\ call' = [call EXCEPT ![c] =
         IF Kind(c) = "login" THEN Idle
         ELSE [@ EXCEPT !.at = "api", !.good = TRUE,
                        !.kind = IF Kind(c) = "boot" THEN "request" ELSE Kind(c),
                        !.retried = Kind(c) # "boot", !.issued = 0, !.cookie = call[c].issued]]
    /\ ServerKept /\ UNCHANGED lost

\* tryRefresh returned false.  request() signs the tab out, apiFetch hands its
\* 401 on, and a page that was just loaded makes its first call anyway.
AfterFailure(c) ==
    /\ access' = IF Kind(c) \in {"request", "change"}
                 THEN [access EXCEPT ![TabOf[c]] = "none"] ELSE access
    /\ call' = [call EXCEPT ![c] =
         IF Kind(c) = "boot"
         THEN [Idle EXCEPT !.kind = "request", !.at = "api",
                           !.good = access[TabOf[c]] = "fresh"]
         ELSE Idle]
    /\ UNCHANGED jar

\* (Not the code: the call is replayed whatever the refresh said.)
RefreshDeniedReplays(c) ==
    /\ At(c, "denied")
    /\ call' = [call EXCEPT ![c] = [@ EXCEPT !.at = "api", !.good = FALSE]]
    /\ BrowserKept /\ ServerKept /\ UNCHANGED lost

RefreshDenied(c) ==
    /\ At(c, "denied")
    /\ AfterFailure(c) /\ ServerKept /\ UNCHANGED lost

\* The answer is lost on its way, or the insert fails after the rotation.  (When
\* no token is left in the instance, the insert always fails.)
AnswerLost(c) ==
    /\ At(c, "answer") \/ At(c, "issue")
    /\ lost < MaxLost \/ (At(c, "issue") /\ Len(token) = MaxTokens)
    /\ lost' = IF lost > MaxLost THEN lost ELSE lost + 1
    /\ AfterFailure(c) /\ ServerKept

\* logout, and the page's clearSession in its finally.
Logout(c) ==
    /\ At(c, "logout")
    /\ token' = IF call[c].cookie = 0 THEN token
                ELSE [token EXCEPT ![call[c].cookie].state = "revoked"]
    /\ Goes(c, "bye")
    /\ BrowserKept /\ UNCHANGED <<password, linkUsed, lost, sweeps>>

LoggedOut(c) ==
    /\ At(c, "bye")
    /\ jar' = [jar EXCEPT ![Browser(c)] = 0]
    /\ access' = [access EXCEPT ![TabOf[c]] = "none"]
    /\ call' = [call EXCEPT ![c] = Idle]
    /\ ServerKept /\ UNCHANGED lost

\* resetPassword reads its link.
OpenLink(c) ==
    /\ At(c, "link")
    /\ call' = [call EXCEPT ![c] = IF linkUsed THEN Idle ELSE [@ EXCEPT !.at = "write"]]
    /\ ServerKept /\ BrowserKept /\ UNCHANGED lost

\* changePassword and resetPassword: the new hash, the used link, the sweep.
WritePassword(c) ==
    /\ At(c, "write")
    /\ password' = password + 1
    /\ Goes(c, IF Kind(c) = "reset" THEN "use" ELSE "sweep")
    /\ BrowserKept /\ UNCHANGED <<token, linkUsed, lost, sweeps>>

UseLink(c) ==
    /\ At(c, "use")
    /\ linkUsed' = TRUE
    /\ Goes(c, "sweep")
    /\ BrowserKept /\ UNCHANGED <<token, password, lost, sweeps>>

\* Every other session is signed out: all but the one whose cookie came along.
KeptToken(c) == IF Kind(c) = "reset" THEN 0 ELSE call[c].cookie

\* (Not the code: no session is signed out; or every one is.)
SignOutOthersNot(c) ==
    /\ At(c, "sweep")
    /\ call' = [call EXCEPT ![c] = Idle]
    /\ sweeps' = [sweeps EXCEPT !.count = @ + 1, !.last = password, !.by = @ \union {"reset"}]
    /\ BrowserKept /\ UNCHANGED <<token, password, linkUsed, lost>>

SignOutAll(c) ==
    /\ At(c, "sweep")
    /\ token' = RevokeAll({})
    /\ call' = [call EXCEPT ![c] = Idle]
    /\ sweeps' = [sweeps EXCEPT !.count = @ + 1, !.last = password,
                    !.by = @ \union {IF Kind(c) = "reset" THEN "reset" ELSE Browser(c)}]
    /\ BrowserKept /\ UNCHANGED <<password, linkUsed, lost>>

SignOutOthers(c) ==
    /\ At(c, "sweep")
    /\ token' = RevokeAll({KeptToken(c)})
    /\ call' = [call EXCEPT ![c] = Idle]
    /\ sweeps' = [sweeps EXCEPT !.count = @ + 1, !.last = password,
                    !.kept = IF KeptToken(c) = 0 THEN 0 ELSE token[KeptToken(c)].family,
                    !.by = @ \union {IF Kind(c) = "reset" THEN "reset" ELSE Browser(c)}]
    /\ BrowserKept /\ UNCHANGED <<password, linkUsed, lost>>

\* ACCESS_TOKEN_TTL_SECONDS pass, for what is in flight too; a tab is reloaded.
AccessExpires(t) ==
    /\ access[t] = "fresh"
    /\ access' = [access EXCEPT ![t] = "expired"]
    /\ call' = [c \in Calls |-> IF TabOf[c] = t /\ At(c, "api")
                                THEN [call[c] EXCEPT !.good = FALSE] ELSE call[c]]
    /\ ServerKept /\ UNCHANGED <<jar, lost>>

Reload(t) ==
    /\ access[t] # "none"
    /\ \A c \in Calls : TabOf[c] = t => At(c, "idle")
    /\ access' = [access EXCEPT ![t] = "none"]
    /\ ServerKept /\ UNCHANGED <<jar, call, lost>>

CallStep(c) ==
    \/ Authorized(c) \/ Denied(c) \/ FindToken(c) \/ ReuseDetected(c) \/ Rotate(c)
    \/ VerifyPassword(c) \/ IssueTokens(c) \/ Answered(c) \/ RefreshDenied(c)
    \/ AnswerLost(c) \/ Logout(c) \/ LoggedOut(c) \/ OpenLink(c) \/ WritePassword(c)
    \/ UseLink(c) \/ SignOutOthers(c)

SessionNext ==
    \/ \E c \in Calls : CallStep(c) \/ \E k \in Kinds \ {"none"} : Begin(c, k)
    \/ \E t \in Tabs : AccessExpires(t) \/ Reload(t)

SessionSpec == SessionInit /\ [][SessionNext]_sessionVars
\* A call that was sent is answered, or fails.
SessionFairSpec == SessionSpec /\ \A c \in Calls : WF_sessionVars(CallStep(c))
-----------------------------------------------------------------------------
\* Every variable has its type, and the bounds hold.
SessionTypeOK ==
    /\ \A i \in DOMAIN token : token[i].state \in {"live", "revoked"}
                               /\ token[i].family \in 1..i /\ token[i].verified \in 0..password
    /\ jar \in [Browsers -> 0..Len(token)]
    /\ access \in [Tabs -> {"none", "fresh", "expired"}]
    /\ \A c \in Calls : /\ call[c].kind \in Kinds
                        /\ call[c].cookie \in 0..Len(token) /\ call[c].issued \in 0..Len(token)
    /\ lost \in 0..MaxLost + 1

\* The theft alarm is not raised by the account's own browsers: a rotated token
\* comes back only after an answer was lost or a password change revoked it.
NoFalseAlarm ==
    (\E c \in Calls : At(c, "reuse")) => lost > 0 \/ sweeps.last > 0 \/ sweeps.alarm

\* Rotation replaces: a sign-in has at most one live refresh token.
RotationKeepsOne ==
    \A i, j \in DOMAIN token :
        token[i].state = "live" /\ token[j].state = "live" /\ token[i].family = token[j].family
          => i = j

\* When the password has been replaced, no session of the old password lives
\* on, except the one that replaced it and those whose refresh or sign-in had
\* been checked before the sign-out and was completed after it.
OldSessionsEnd ==
    \A i \in DOMAIN token :
        token[i].state = "live" /\ token[i].verified < sweeps.last =>
            token[i].family = sweeps.kept \/ token[i].overtaken = sweeps.count

\* A browser is signed out only for a reason: an alarm, a lost answer, or a
\* password replaced elsewhere.  Changing it here does not end this session.  The
\* cookie of a session that goes on is dead only while a call is about to replace it.
SignedInUntilEnded ==
    \A b \in Browsers :
        jar[b] # 0 /\ ~Live(jar[b]) =>
            \/ \E c \in Calls : /\ Browser(c) = b
                                /\ At(c, "issue") \/ At(c, "answer") \/ At(c, "bye")
            \/ lost > 0 \/ sweeps.alarm
            \/ sweeps.by \ {b} # {}

\* Of the calls of a browser, one at a time does more than to present an access
\* token: it refreshes, signs in or out, or replaces the password.  The client does
\* not see to it; the two properties above rely on it, as does RotationKeepsOne.
Plain(c) == At(c, "idle") \/ (At(c, "api") /\ Kind(c) \in {"request", "fetch"})
TakeTurns ==
    \A c, d \in Calls : Browser(c) = Browser(d) /\ ~Plain(c) /\ ~Plain(d) => c = d

\* A call ends: the silent refresh does not go round in circles.
CallsSettle == \A c \in Calls : ~At(c, "idle") ~> At(c, "idle")
=============================================================================
