---------------------------- MODULE OAuthLogin ----------------------------
(***************************************************************************)
(* Sign-in over OAuth2 and the check of session tokens (agenthandler/      *)
(* auth.py).  A login hands the browser a challenge, as a URL parameter    *)
(* and as a cookie; the callback takes the challenge back, asks the        *)
(* provider, and opens a session.  The provider is awaited, so callbacks   *)
(* overlap: a browser may send the same one twice before either answers.   *)
(***************************************************************************)
EXTENDS Integers

CONSTANTS
    Browser, Callback,  \* browsers, and requests to /auth/callback
    Challenge,          \* what token_hex can give
    StateLife,          \* 600 seconds, in ticks
    SessionLife,        \* 24 hours, in ticks
    MaxTime,            \* bound on time
    NoChallenge, NoBrowser

ASSUME OAuthAssumption ==
    /\ NoChallenge \notin Challenge /\ MaxTime \in Nat
    /\ StateLife \in Nat \ {0} /\ SessionLife \in Nat \ {0}

VARIABLES
    time,      \* time.time()
    states,    \* open challenges and when they expire
    handedOut, \* history: challenges ever handed out
    cookie,    \* what each browser holds
    callback,  \* where each callback is, and the browser and challenge it came with
    sessions   \* session tokens, named by the callback that made them, and their expiry

oauthVars == <<time, states, handedOut, cookie, callback, sessions>>

OAuthInit ==
    /\ time = 0 /\ states = {} /\ handedOut = {} /\ sessions = {}
    /\ cookie = [b \in Browser |-> NoChallenge]
    /\ callback = [q \in Callback |-> [stage |-> "idle", by |-> NoBrowser, state |-> NoChallenge]]

-----------------------------------------------------------------------------
TimePasses ==
    /\ time < MaxTime /\ time' = time + 1
    /\ UNCHANGED <<states, handedOut, cookie, callback, sessions>>

\* /auth/login drops what has expired before it adds a challenge.
Login(b, c) ==
    /\ c \notin handedOut /\ handedOut' = handedOut \cup {c}
    /\ states' = {s \in states : s.until > time} \cup {[id |-> c, until |-> time + StateLife]}
    /\ cookie' = [cookie EXCEPT ![b] = c]
    /\ UNCHANGED <<time, callback, sessions>>

\* (Bug: the challenge is only read, and left to expire.)
ReturnsRead(q, b) ==
    LET open == {s \in states : s.id = cookie[b]}
    IN
    /\ callback[q].stage = "idle" /\ cookie[b] # NoChallenge
    /\ callback' = [callback EXCEPT
                       ![q] = [stage |-> IF \E s \in open : s.until > time
                                         THEN "asking" ELSE "refused",
                               by |-> b, state |-> cookie[b]]]
    /\ UNCHANGED <<time, states, handedOut, cookie, sessions>>

\* The challenge in the URL must be the one in the cookie; it is taken out under
\* the lock, good or expired, before anything is awaited.
Returns(q, b) ==
    LET open == {s \in states : s.id = cookie[b]}
    IN
    /\ callback[q].stage = "idle" /\ cookie[b] # NoChallenge
    /\ states' = states \ open
    /\ callback' = [callback EXCEPT
                       ![q] = [stage |-> IF \E s \in open : s.until > time
                                         THEN "asking" ELSE "refused",
                               by |-> b, state |-> cookie[b]]]
    /\ UNCHANGED <<time, handedOut, cookie, sessions>>

\* A callback whose challenge is not in the browser's cookie is refused, and the
\* challenge stays open.
RefuseCookie(q) ==
    /\ callback[q].stage = "idle"
    /\ callback' = [callback EXCEPT ![q].stage = "refused"]
    /\ UNCHANGED <<time, states, handedOut, cookie, sessions>>

\* The provider gives a token and the user: a session opens and the response
\* deletes the browser's cookie, be it that of a login begun since.
ProviderAnswers(q) ==
    /\ callback[q].stage = "asking"
    /\ callback' = [callback EXCEPT ![q].stage = "signed_in"]
    /\ sessions' = sessions \cup {[of |-> q, until |-> time + SessionLife]}
    /\ cookie' = [cookie EXCEPT ![callback[q].by] = NoChallenge]
    /\ UNCHANGED <<time, states, handedOut>>

ProviderRefuses(q) ==
    /\ callback[q].stage = "asking"
    /\ callback' = [callback EXCEPT ![q].stage = "failed"]
    /\ UNCHANGED <<time, states, handedOut, cookie, sessions>>

\* A request that shows an expired session token drops the session.
ShowExpired(s) ==
    /\ s.until <= time /\ sessions' = sessions \ {s}
    /\ UNCHANGED <<time, states, handedOut, cookie, callback>>

OAuthNext ==
    \/ TimePasses
    \/ \E b \in Browser, c \in Challenge : Login(b, c)
    \/ \E q \in Callback : \/ RefuseCookie(q) \/ ProviderRefuses(q) \/ ProviderAnswers(q)
                           \/ \E b \in Browser : Returns(q, b)
    \/ \E s \in sessions : ShowExpired(s)

OAuthSpec == OAuthInit /\ [][OAuthNext]_oauthVars

-----------------------------------------------------------------------------
\* A login opens at most one session, however often and at whatever moment its
\* callback is sent: repeated, overlapping, or late (auth.py:167-176, 213-221).
OneSessionPerLogin ==
    \A p, q \in Callback :
        (/\ callback[p].stage = "signed_in" /\ callback[q].stage = "signed_in"
         /\ callback[p].state = callback[q].state) => p = q

-----------------------------------------------------------------------------
Admitted(q) == callback[q].stage \in {"asking", "signed_in"}

\* The inductive invariant behind OneSessionPerLogin: a challenge that let a
\* callback in is not open, was not handed out again, and let no other in.
OAuthInv ==
    /\ callback \in [Callback -> [stage : {"idle", "refused", "asking", "failed", "signed_in"},
                                  by : Browser \cup {NoBrowser},
                                  state : Challenge \cup {NoChallenge}]]
    /\ cookie \in [Browser -> Challenge \cup {NoChallenge}]
    /\ \A s \in states : s.id \in handedOut
    /\ \A q \in Callback : Admitted(q) => /\ callback[q].state \in handedOut
                                          /\ \A s \in states : s.id # callback[q].state
    /\ \A p, q \in Callback :
          Admitted(p) /\ Admitted(q) /\ callback[p].state = callback[q].state => p = q
=============================================================================
