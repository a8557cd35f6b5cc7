---------------------------- MODULE PartsProofs ----------------------------
(***************************************************************************)
(* Theorems about the parts that share no state, each for every value of   *)
(* its constants.                                                          *)
(***************************************************************************)
EXTENDS StreamConnectors, A2ATasks, OAuthLogin, TriggerDesk, CheckpointStore, ContextWindow,
        PipelineRuns, PipelineLanguage, ReflectionLoop, AuditTrail, Telemetry,
        SequenceTheorems, FiniteSetTheorems, WellFoundedInduction, TLAPS

-----------------------------------------------------------------------------
(* StreamConnectors. *)

LEMMA StreamInvInit == StreamInit => StreamInv
BY DEF StreamInit, StreamInv, AcknowledgedMeansHandled

LEMMA StartsAtType == StreamInv => StartsAt \in Nat
BY DEF StreamInv, AcknowledgedMeansHandled, StartsAt

LEMMA FetchEndAfter ==
    ASSUME StreamInv, next <= tail
    PROVE  /\ FetchEnd \in Nat /\ next < FetchEnd
           /\ kind = "kafka" => FetchEnd = next + 1
BY StreamAssumption DEF StreamInv, FetchEnd

LEMMA StreamInvStep == StreamInv /\ [StreamNext]_streamVars => StreamInv'
<1> SUFFICES ASSUME StreamInv, [StreamNext]_streamVars PROVE StreamInv'
  OBVIOUS
<1> USE DEF StreamInv, AcknowledgedMeansHandled, broker
<1>1. CASE AppendRecord
  BY <1>1 DEF AppendRecord
<1>2. CASE StreamStart
  <2>1. next' \in Nat /\ UNCHANGED <<kind, tail, settled, pending, at, upto, tried, handled>>
    BY <1>2, StartsAtType DEF StreamStart, ReadsFrom
  <2>2. loop = "stopped" /\ loop' \notin {"deciding", "handling"}
    BY <1>2 DEF StreamStart
  <2>3. QED
    BY <2>1, <2>2
<1>3. CASE StreamStop
  BY <1>3 DEF StreamStop
<1>4. CASE Fetch
  <2>1. /\ FetchEnd \in Nat /\ next < FetchEnd /\ at' = next /\ upto' = FetchEnd
        /\ kind = "kafka" => FetchEnd = next + 1
    BY <1>4, FetchEndAfter DEF Fetch
  <2>2. kind = "redis" => /\ at'..(upto' - 1) \subseteq pending'
                          /\ (tried \ pending') \subseteq handled
    BY <1>4, <2>1 DEF Fetch
  <2>3. kind = "kafka" => upto' = at' + 1 /\ next' = upto'
    BY <1>4, <2>1 DEF Fetch
  <2>4. QED
    BY <1>4, <2>1, <2>2, <2>3 DEF Fetch
<1>5. CASE FetchFails
  BY <1>5 DEF FetchFails
<1>6. CASE HandOn
  <2>1. kind = "redis" => at \in pending
    BY <1>6 DEF HandOn
  <2>2. QED
    BY <1>6, <2>1 DEF HandOn
<1>7. CASE Undecodable
  BY <1>7 DEF Undecodable
<1>8. CASE BatchEnds
  BY <1>8 DEF BatchEnds
<1>9. ASSUME NEW returned \in BOOLEAN, NEW acked \in BOOLEAN, HandlerEnds(returned, acked)
      PROVE  StreamInv'
  <2>1. /\ at < upto /\ at' = at + 1 /\ loop' = "deciding"
        /\ UNCHANGED <<kind, tail, next, upto, starts, tried>>
    BY <1>9 DEF HandlerEnds
  <2>2. /\ handled \subseteq handled' /\ (acked => at \in handled')
    BY <1>9 DEF HandlerEnds
  <2>3. settled' > 0 => settled' - 1 \in handled'
    <3>1. CASE acked /\ kind = "kafka"
      BY <1>9, <2>1, <2>2, <3>1 DEF HandlerEnds, Acknowledges
    <3>2. CASE ~(acked /\ kind = "kafka")
      BY <1>9, <2>2, <3>2 DEF HandlerEnds, Acknowledges
    <3>3. QED
      BY <3>1, <3>2
  <2>4. kind = "redis" => /\ at'..(upto - 1) \subseteq pending'
                          /\ (tried \ pending') \subseteq handled'
    <3>1. (acked /\ pending' = pending \ {at}) \/ (~acked /\ pending' = pending)
      BY <1>9 DEF HandlerEnds, Acknowledges
    <3>2. at'..(upto - 1) \subseteq at..(upto - 1) /\ at \notin at'..(upto - 1)
      BY <2>1
    <3>3. QED
      BY <2>2, <3>1, <3>2
  <2>5. kind = "kafka" => ~(at' < upto)
    BY <2>1
  <2>6. settled' \in Nat
    BY <1>9 DEF HandlerEnds, Acknowledges
  <2>7. QED
    BY <2>1, <2>3, <2>4, <2>5, <2>6
<1>10. CASE UNCHANGED streamVars
  BY <1>10 DEF streamVars
<1>11. QED
  BY <1>1, <1>2, <1>3, <1>4, <1>5, <1>6, <1>7, <1>8, <1>9, <1>10 DEF StreamNext

\* A record is acknowledged only when its on_message returned: the last record
\* Kafka's committed offset covers, and every Redis record that is no longer
\* pending, was handled (streams.py:125-129, 313-317).
THEOREM AcknowledgedRecordsWereHandled == StreamSpec => []AcknowledgedMeansHandled
<1>1. StreamInv => AcknowledgedMeansHandled
  BY DEF StreamInv
<1>2. QED
  BY StreamInvInit, StreamInvStep, <1>1, PTL DEF StreamSpec

-----------------------------------------------------------------------------
(* A2ATasks. *)

LEMMA A2AInvInit == A2AInit => A2AInv
BY DEF A2AInit, A2AInv, OutcomeIsOwn

LEMMA A2AInvStep == A2AInv /\ [A2ANext]_a2aVars => A2AInv'
<1> SUFFICES ASSUME A2AInv, [A2ANext]_a2aVars PROVE A2AInv'
  OBVIOUS
<1> USE DEF A2AInv, OutcomeIsOwn
<1>1. ASSUME NEW c \in Call, NEW op, NEW i, Issue(c, op, i) PROVE A2AInv'
  BY <1>1 DEF Issue
<1>2. ASSUME NEW c \in Call, GivesUp(c) PROVE A2AInv'
  BY <1>2 DEF GivesUp
<1>3. ASSUME NEW c \in Call, Lose(c) PROVE A2AInv'
  BY <1>3 DEF Lose
<1>4. ASSUME NEW c \in Call, Receive(c) PROVE A2AInv'
  BY <1>4 DEF Receive
<1>5. ASSUME NEW c \in Call, NEW found \in Found, SendArrives(c, found) PROVE A2AInv'
  <2>1. /\ stage[c] = "onTheWay" /\ toolRun[c] = "none"
        /\ stage'[c] \in {"serving", "replied"}
        /\ \A d \in Call \ {c} : /\ stage'[d] = stage[d] /\ state'[d] = state[d]
                                 /\ toolRun'[d] = toolRun[d]
        /\ DOMAIN stage' = Call /\ DOMAIN state' = Call /\ DOMAIN toolRun' = Call
    BY <1>5 DEF SendArrives, Arrived, Replies
  <2>2. /\ state'[c] \in {"completed", "working"}
        /\ state'[c] = "completed" => toolRun'[c] = "none"
    BY <1>5, <2>1 DEF SendArrives
  <2>3. QED
    BY <2>1, <2>2
<1>6. ASSUME NEW c \in Call, NEW succeeded \in BOOLEAN, ToolEnds(c, succeeded) PROVE A2AInv'
  BY <1>6 DEF ToolEnds, Finishes, Replies, Ending
<1>7. ASSUME NEW c \in Call, GetArrives(c) PROVE A2AInv'
  BY <1>7 DEF GetArrives, Arrived, Replies
<1>8. ASSUME NEW c \in Call, CancelArrives(c) PROVE A2AInv'
  <2>1. /\ toolRun' = toolRun /\ DOMAIN state' = Call
        /\ \A d \in Call : state'[d] \in {state[d], "canceled"}
    BY <1>8 DEF CancelArrives
  <2>2. stage' = [stage EXCEPT ![c] = "replied"]
    BY <1>8 DEF CancelArrives, Replies
  <2>3. QED
    BY <2>1, <2>2
<1>9. CASE EndpointRestarts
  BY <1>9 DEF EndpointRestarts
<1>10. CASE UNCHANGED a2aVars
  BY <1>10 DEF a2aVars
<1>11. QED
  BY <1>1, <1>2, <1>3, <1>4, <1>5, <1>6, <1>7, <1>8, <1>9, <1>10 DEF A2ANext

\* However sends for one id overlap and whoever cancels or retries, a task object
\* is COMPLETED or FAILED by its own tool call only (a2a.py:519-532).
THEOREM OutcomesAreOwn == A2ASpec => []OutcomeIsOwn
<1>1. A2AInv => OutcomeIsOwn
  BY DEF A2AInv
<1>2. QED
  BY A2AInvInit, A2AInvStep, <1>1, PTL DEF A2ASpec

-----------------------------------------------------------------------------
(* OAuthLogin. *)

LEMMA OAuthInvInit == OAuthInit => OAuthInv
<1> SUFFICES ASSUME OAuthInit PROVE OAuthInv
  OBVIOUS
<1>1. \A q \in Callback : callback[q] = [stage |-> "idle", by |-> NoBrowser, state |-> NoChallenge]
  BY DEF OAuthInit
<1>2. callback \in [Callback -> [stage : {"idle", "refused", "asking", "failed", "signed_in"},
                                by : Browser \cup {NoBrowser},
                                state : Challenge \cup {NoChallenge}]]
  BY DEF OAuthInit
<1>3. \A q \in Callback : ~Admitted(q)
  BY <1>1 DEF Admitted
<1>4. QED
  BY <1>2, <1>3 DEF OAuthInit, OAuthInv

LEMMA OAuthInvStep == OAuthInv /\ [OAuthNext]_oauthVars => OAuthInv'
<1> SUFFICES ASSUME OAuthInv, [OAuthNext]_oauthVars PROVE OAuthInv'
  OBVIOUS
<1> USE DEF OAuthInv, Admitted
<1>1. CASE TimePasses
  BY <1>1 DEF TimePasses
<1>2. ASSUME NEW b \in Browser, NEW c \in Challenge, Login(b, c) PROVE OAuthInv'
  <2>1. /\ c \notin handedOut /\ handedOut' = handedOut \cup {c} /\ callback' = callback
        /\ cookie' \in [Browser -> Challenge \cup {NoChallenge}]
    BY <1>2 DEF Login
  <2>2. \A s \in states' : s \in states \/ s.id = c
    BY <1>2 DEF Login
  <2>3. QED
    BY <2>1, <2>2
<1>3. ASSUME NEW q \in Callback, RefuseCookie(q) PROVE OAuthInv'
  BY <1>3 DEF RefuseCookie
<1>4. ASSUME NEW q \in Callback, ProviderRefuses(q) PROVE OAuthInv'
  BY <1>4 DEF ProviderRefuses
<1>5. ASSUME NEW q \in Callback, NEW b \in Browser, Returns(q, b) PROVE OAuthInv'
  <2> DEFINE to == IF \E s \in states : s.id = cookie[b] /\ s.until > time
                   THEN "asking" ELSE "refused"
  <2>1. /\ callback[q].stage = "idle" /\ cookie[b] \in Challenge
        /\ UNCHANGED <<handedOut, cookie>>
        /\ callback' = [callback EXCEPT ![q] = [stage |-> to, by |-> b, state |-> cookie[b]]]
        /\ states' = {s \in states : s.id # cookie[b]}
    BY <1>5 DEF Returns
  <2>2. \A p \in Callback \ {q} : callback'[p] = callback[p]
    BY <2>1
  <2>3. callback'[q] = [stage |-> to, by |-> b, state |-> cookie[b]]
    BY <2>1
  <2>4. to = "asking" => /\ cookie[b] \in handedOut
                         /\ \A p \in Callback : Admitted(p) => callback[p].state # cookie[b]
    OBVIOUS
  <2> HIDE DEF to
  <2>5. to \in {"asking", "refused"}
    BY DEF to
  <2>6. callback' \in [Callback -> [stage : {"idle", "refused", "asking", "failed", "signed_in"},
                                    by : Browser \cup {NoBrowser},
                                    state : Challenge \cup {NoChallenge}]]
    BY <2>1, <2>5
  <2>7. \A p \in Callback : Admitted(p)' =>
           \/ p # q /\ Admitted(p) /\ callback'[p] = callback[p]
           \/ p = q /\ to = "asking"
    BY <2>2, <2>3, <2>5
  <2>8. QED
    BY <2>1, <2>2, <2>3, <2>4, <2>5, <2>6, <2>7
<1>6. ASSUME NEW q \in Callback, ProviderAnswers(q) PROVE OAuthInv'
  <2>1. /\ callback[q].stage = "asking"
        /\ callback' = [callback EXCEPT ![q].stage = "signed_in"]
        /\ cookie' \in [Browser -> Challenge \cup {NoChallenge}]
        /\ UNCHANGED <<states, handedOut>>
    BY <1>6 DEF ProviderAnswers
  <2>2. \A p \in Callback : callback'[p].state = callback[p].state /\ (Admitted(p)' <=> Admitted(p))
    BY <2>1
  <2>3. QED
    BY <2>1, <2>2
<1>7. ASSUME NEW s \in sessions, ShowExpired(s) PROVE OAuthInv'
  BY <1>7 DEF ShowExpired
<1>8. CASE UNCHANGED oauthVars
  BY <1>8 DEF oauthVars
<1>9. QED
  BY <1>1, <1>2, <1>3, <1>4, <1>5, <1>6, <1>7, <1>8 DEF OAuthNext

\* A login opens one session at most, however often, late or overlapping its
\* callback is sent (auth.py:167-176, 213-221).
THEOREM LoginsOpenOneSession == OAuthSpec => []OneSessionPerLogin
<1>1. OAuthInv => OneSessionPerLogin
  BY DEF OAuthInv, Admitted, OneSessionPerLogin
<1>2. QED
  BY OAuthInvInit, OAuthInvStep, <1>1, PTL DEF OAuthSpec

-----------------------------------------------------------------------------
(* ReflectionLoop. *)

LEMMA ReflectionInvInit == ReflectionInit => ReflectionInv
BY DEF ReflectionInit, ReflectionInv, CompletedMeansAccepted

LEMMA ReflectionInvStep == ReflectionInv /\ [ReflectionNext]_reflectionVars => ReflectionInv'
<1> SUFFICES ASSUME ReflectionInv, [ReflectionNext]_reflectionVars PROVE ReflectionInv'
  OBVIOUS
<1> USE DEF ReflectionInv, CompletedMeansAccepted, verdict, ownSession, Breaks, BreaksInvalid
<1>1. CASE BeginRun
  BY <1>1 DEF BeginRun
<1>2. CASE CyclesOut \/ OutOfIterations \/ BeginThink
  BY <1>2 DEF CyclesOut, OutOfIterations, BeginThink
<1>3. CASE ThinkFails \/ ThinkInvalid \/ ThinkBlocked \/ ThinkTool
  BY <1>3 DEF ThinkFails, ThinkInvalid, ThinkBlocked, ThinkTool
<1>4. CASE ThinkDone
  BY <1>4 DEF ThinkDone, Proposes
<1>5. CASE Act \/ ActFails \/ ActSucceeds
  BY <1>5 DEF Act, ActStarts, ActFails, ActSucceeds
<1>6. CASE Observe \/ ReflectOn \/ ReflectStops \/ ReflectInvalid
  BY <1>6 DEF Observe, ReflectOn, ReflectStops, ReflectInvalid
<1>7. CASE VerifierFails
  BY <1>7 DEF VerifierFails
<1>8. CASE StopSession
  BY <1>8 DEF StopSession
<1>9. ASSUME NEW passed \in BOOLEAN, Verified(passed) PROVE ReflectionInv'
  BY <1>9 DEF Verified
<1>10. CASE CancelRun
  BY <1>10 DEF CancelRun
<1>11. CASE OperatorActs
  BY <1>11 DEF OperatorActs
<1>12. CASE UNCHANGED reflectionVars
  BY <1>12 DEF reflectionVars
<1> HIDE DEF ReflectionInv, CompletedMeansAccepted
<1>13. LoopGoesOn => ReflectionInv'
  BY <1>2, <1>3, <1>4, <1>5, <1>6, <1>7, <1>8, <1>9 DEF LoopGoesOn
<1>14. QED
  BY <1>1, <1>10, <1>11, <1>12, <1>13 DEF ReflectionNext

\* completed is the verifier's word on what the model had claimed was done, and
\* VERIFIED exactly then (reflection.py:423-463).
THEOREM CompletionIsAccepted == ReflectionSpec => []CompletedMeansAccepted
<1>1. ReflectionInv => CompletedMeansAccepted
  BY DEF ReflectionInv
<1>2. QED
  BY ReflectionInvInit, ReflectionInvStep, <1>1, PTL DEF ReflectionSpec

-----------------------------------------------------------------------------
(* The last n of a sequence, as a run's history and the Observer keep them. *)

LEMMA LastOfElements ==
    ASSUME NEW S, NEW s \in Seq(S), NEW n \in Nat \ {0}
    PROVE  /\ LastOf(s, n) \in Seq(S)
           /\ Len(LastOf(s, n)) = IF Len(s) <= n THEN Len(s) ELSE n
           /\ \A i \in 1..Len(LastOf(s, n)) :
                 LastOf(s, n)[i] = s[Len(s) - Len(LastOf(s, n)) + i]
<1>1. CASE Len(s) <= n
  BY <1>1 DEF LastOf
<1>2. CASE ~(Len(s) <= n)
  <2>1. LastOf(s, n) = SubSeq(s, Len(s) - n + 1, Len(s)) /\ Len(s) \in Nat
    BY <1>2 DEF LastOf
  <2>2. Len(s) - n + 1 \in 1..(Len(s) + 1) /\ Len(s) \in (Len(s) - n + 1 - 1)..Len(s)
    BY <1>2, <2>1
  <2>3. /\ LastOf(s, n) \in Seq(S)
        /\ Len(LastOf(s, n)) = n
        /\ \A i \in 1..n : LastOf(s, n)[i] = s[Len(s) - n + 1 + i - 1]
    BY <1>2, <2>1, <2>2, SubSeqProperties
  <2>4. QED
    BY <1>2, <2>1, <2>3
<1>3. QED
  BY <1>1, <1>2

LEMMA LastOfAppend ==
    ASSUME NEW S, NEW s \in Seq(S), NEW n \in Nat \ {0}, NEW x \in S
    PROVE  LastOf(Append(LastOf(s, n), x), n) = LastOf(Append(s, x), n)
<1> DEFINE l == LastOf(s, n)
           lx == Append(l, x)
           sx == Append(s, x)
           a == LastOf(lx, n)
           b == LastOf(sx, n)
           L == Len(s)
           M == Len(l)
           N == Len(a)
<1>1. /\ l \in Seq(S) /\ M = IF L <= n THEN L ELSE n
      /\ \A i \in 1..M : l[i] = s[L - M + i]
  BY LastOfElements
<1> HIDE DEF l
<1>2. /\ lx \in Seq(S) /\ Len(lx) = M + 1
      /\ \A i \in 1..M : lx[i] = l[i]
      /\ lx[M + 1] = x
      /\ sx \in Seq(S) /\ Len(sx) = L + 1
      /\ \A i \in 1..L : sx[i] = s[i]
      /\ sx[L + 1] = x
  BY <1>1, AppendProperties
<1>3. L \in Nat /\ M \in Nat /\ lx \in Seq(S) /\ sx \in Seq(S)
  BY <1>1, <1>2, LenProperties
<1> HIDE DEF lx, sx, L, M
<1>4. /\ a \in Seq(S) /\ N = IF Len(lx) <= n THEN Len(lx) ELSE n
      /\ \A i \in 1..N : a[i] = lx[Len(lx) - N + i]
  BY <1>3, LastOfElements
<1>5. /\ b \in Seq(S) /\ Len(b) = IF Len(sx) <= n THEN Len(sx) ELSE n
      /\ \A i \in 1..Len(b) : b[i] = sx[Len(sx) - Len(b) + i]
  BY <1>3, LastOfElements
<1> HIDE DEF a, b
<1>6. N \in Nat /\ Len(b) = N /\ N = IF M + 1 <= n THEN M + 1 ELSE n
  <2>1. N \in Nat /\ Len(b) \in Nat
    BY <1>4, <1>5, LenProperties
  <2>2. QED
    BY <1>1, <1>2, <1>3, <1>4, <1>5, <2>1 DEF L, M
<1> HIDE DEF N
<1>7. ASSUME NEW i \in 1..N PROVE a[i] = b[i]
  <2>1. a[i] = lx[M + 1 - N + i] /\ b[i] = sx[L + 1 - N + i]
    <3>1. a[i] = lx[Len(lx) - N + i] /\ b[i] = sx[Len(sx) - N + i]
      <4>1. a[i] = lx[Len(lx) - N + i]
        BY <1>4
      <4>2. i \in 1..Len(b) /\ Len(b) = N
        BY <1>6
      <4>3. b[i] = sx[Len(sx) - Len(b) + i]
        BY <1>5, <4>2
      <4>4. QED
        BY <4>1, <4>2, <4>3
    <3>2. Len(lx) = M + 1 /\ Len(sx) = L + 1
      BY <1>2
    <3>3. QED
      BY <1>3, <1>6, <3>1, <3>2
  <2>2. CASE i = N
    <3>1. M + 1 - N + i = M + 1 /\ L + 1 - N + i = L + 1
      BY <1>3, <1>6, <2>2
    <3>2. QED
      BY <1>2, <2>1, <3>1
  <2>3. CASE i # N
    <3>1. /\ M + 1 - N + i \in 1..M /\ L + 1 - N + i \in 1..L
          /\ L - M + (M + 1 - N + i) = L + 1 - N + i
      <4>1. i \in Nat /\ 1 <= i /\ i < N
        BY <1>6, <2>3
      <4>2. (M = L /\ L <= n) \/ (M = n /\ n < L)
        BY <1>1, <1>3
      <4>3. (N = M + 1 /\ M + 1 <= n) \/ (N = n /\ n < M + 1)
        BY <1>3, <1>6
      <4>4. QED
        BY <1>3, <1>6, <4>1, <4>2, <4>3
    <3>2. lx[M + 1 - N + i] = l[M + 1 - N + i] /\ sx[L + 1 - N + i] = s[L + 1 - N + i]
      BY <1>2, <3>1
    <3>3. l[M + 1 - N + i] = s[L + 1 - N + i]
      BY <1>1, <3>1
    <3>4. QED
      BY <2>1, <3>2, <3>3
  <2>4. QED
    BY <2>2, <2>3
<1>8. a = b
  BY <1>4, <1>5, <1>6, <1>7, SeqEqual DEF N
<1>9. QED
  BY <1>8 DEF a, b, l, lx, sx

-----------------------------------------------------------------------------
(* PipelineRuns. *)

LEMMA PipelineInvInit == PipelineInit => PipelineInv
<1> SUFFICES ASSUME PipelineInit PROVE PipelineInv
  OBVIOUS
<1>1. /\ session \in [Run \cup {Context} -> Sessions] /\ run \in [Run -> Runs]
      /\ \A r \in Run : run[r].at = "new"
  <2>1. Run \cap {Context} = {}
    BY PipelineAssumption
  <2>2. /\ [status |-> "running", gen |-> 0, held |-> 0] \in Sessions
        /\ [status |-> "none", gen |-> 0, held |-> -1] \in Sessions
    BY DEF Sessions
  <2>3. \A r \in Run :
           [at |-> "new", sid |-> r, gen |-> 0, node |-> 1, result |-> "none"] \in Runs
    BY DEF Runs, Places, Results
  <2>4. QED
    BY <2>2, <2>3 DEF PipelineInit
<1>2. base \in [Run -> Seq(Run)] /\ past = <<>> /\ done = <<>> /\ raced = FALSE
  BY DEF PipelineInit
<1>3. PipelineTypeOK
  BY <1>1, <1>2, EmptySeq DEF PipelineTypeOK
<1>4. LastOf(done, HistoryLimit) = <<>>
  BY PipelineAssumption, <1>2 DEF LastOf
<1>5. QED
  BY <1>1, <1>2, <1>3, <1>4 DEF PipelineInv, InBetween, HistoryFollowsRuns

LEMMA SessionsType ==
    ASSUME PipelineInv, NEW s \in Run \cup {Context}
    PROVE  /\ Resumed(s) \in [Run \cup {Context} -> Sessions]
           /\ Stopped(s) \in [Run \cup {Context} -> Sessions]
<1>1. session \in [Run \cup {Context} -> Sessions] /\ session[s] \in Sessions
  BY DEF PipelineInv, PipelineTypeOK
<1>2. session[s].gen \in Nat
  BY <1>1 DEF Sessions
<1>3. ASSUME NEW g \in Nat PROVE [status |-> "running", gen |-> g, held |-> g] \in Sessions
  BY DEF Sessions
<1>4. [status |-> "running", gen |-> session[s].gen + 1, held |-> session[s].gen + 1]
         \in Sessions
  BY <1>2, <1>3
<1>5. [[session[s] EXCEPT !.status = "stopped"] EXCEPT !.held = -1] \in Sessions
  BY <1>1 DEF Sessions
<1>6. QED
  BY <1>1, <1>4, <1>5 DEF Resumed, Stopped

\* A run goes on, and neither enters nor leaves the stretch between its read and
\* its write.
LEMMA PipelineMove ==
    ASSUME PipelineInv, NEW r \in Run, NEW new \in Runs, run' = [run EXCEPT ![r] = new],
           run[r].at \notin {"to_write_progress", "to_write_history"},
           new.at \notin {"to_write_progress", "to_write_history"},
           new.at = "recording" => new.sid = Context,
           session' \in [Run \cup {Context} -> Sessions], UNCHANGED <<base, past, done, raced>>
    PROVE  PipelineInv'
<1>1. /\ run \in [Run -> Runs] /\ run' \in [Run -> Runs] /\ run'[r] = new
      /\ \A q \in Run \ {r} : run'[q] = run[q]
  BY DEF PipelineInv, PipelineTypeOK
<1>2. PipelineTypeOK'
  BY <1>1 DEF PipelineInv, PipelineTypeOK
<1>3. \A q \in Run : InBetween(q)' <=> InBetween(q)
  BY <1>1 DEF InBetween
<1>4. \A q \in Run : run'[q].at \in {"recording", "to_write_history"} => run'[q].sid = Context
  BY <1>1 DEF PipelineInv
<1>5. QED
  BY <1>2, <1>3, <1>4 DEF PipelineInv, HistoryFollowsRuns

LEMMA PipelineOthers ==
    ASSUME PipelineInv, session' \in [Run \cup {Context} -> Sessions],
           UNCHANGED <<run, base, past, done, raced>>
    PROVE  PipelineInv'
BY DEF PipelineInv, PipelineTypeOK, InBetween, HistoryFollowsRuns

LEMMA GoesFacts ==
    ASSUME PipelineInv, NEW r \in Run
    PROVE  /\ \A p \in Places : /\ [run[r] EXCEPT !.at = p] \in Runs
                                /\ [run[r] EXCEPT !.at = p].at = p
                                /\ [run[r] EXCEPT !.at = p].sid = run[r].sid
           /\ \A x \in Results : /\ [run[r] EXCEPT !.at = "ended", !.result = x] \in Runs
                                /\ [run[r] EXCEPT !.at = "ended", !.result = x].at = "ended"
<1>1. run[r] \in Runs
  BY DEF PipelineInv, PipelineTypeOK
<1>2. QED
  BY <1>1 DEF Runs, Places, Results

LEMMA GoesInv ==
    ASSUME PipelineInv, NEW r \in Run, NEW p \in Places, Goes(r, p),
           run[r].at \notin {"to_write_progress", "to_write_history"},
           p \notin {"to_write_progress", "to_write_history"},
           p = "recording" => run[r].sid = Context,
           session' \in [Run \cup {Context} -> Sessions], UNCHANGED <<base, past, done, raced>>
    PROVE  PipelineInv'
<1>1. run' = [run EXCEPT ![r] = [run[r] EXCEPT !.at = p]]
  BY DEF Goes
<1>2. QED
  BY <1>1, GoesFacts, PipelineMove

LEMMA EndsInv ==
    ASSUME PipelineInv, NEW r \in Run, NEW result \in Results, Ends(r, result),
           run[r].at \notin {"to_write_progress", "to_write_history"},
           session' \in [Run \cup {Context} -> Sessions], UNCHANGED <<base, past, done, raced>>
    PROVE  PipelineInv'
<1>1. run' = [run EXCEPT ![r] = [run[r] EXCEPT !.at = "ended", !.result = result]]
  BY DEF Ends
<1>2. QED
  BY <1>1, GoesFacts, PipelineMove

LEMMA FailsInv ==
    ASSUME PipelineInv, NEW r \in Run, FailsRun(r),
           run[r].at \notin {"to_write_progress", "to_write_history"},
           UNCHANGED <<base, past, done, raced>>
    PROVE  PipelineInv'
<1>1. run[r].sid \in Run \cup {Context}
  BY DEF PipelineInv, PipelineTypeOK, Runs
<1>2. Ends(r, "failed") /\ session' \in [Run \cup {Context} -> Sessions]
  BY <1>1, SessionsType DEF FailsRun
<1>3. "failed" \in Results
  BY DEF Results
<1>4. QED
  BY <1>2, <1>3, EndsInv

LEMMA StartOwnInv ==
    ASSUME PipelineInv, NEW r \in Run, StartOwn(r)
    PROVE  PipelineInv'
<1>1. [status |-> "running", gen |-> 0, held |-> 0] \in Sessions
  BY DEF Sessions
<1>2. session' \in [Run \cup {Context} -> Sessions]
  BY <1>1 DEF StartOwn, PipelineInv, PipelineTypeOK
<1>3. QED
  BY <1>2, GoesInv DEF StartOwn, At, Places

LEMMA StartInContextInv ==
    ASSUME PipelineInv, NEW r \in Run, StartInContext(r)
    PROVE  PipelineInv'
<1> DEFINE s == session[Context]
           gen == IF s.held = -1 THEN s.gen + 1 ELSE s.held
<1>1. /\ run[r] \in Runs /\ session \in [Run \cup {Context} -> Sessions] /\ s \in Sessions
      /\ run[r].at = "new"
  BY DEF PipelineInv, PipelineTypeOK, StartInContext, At
<1>2. CASE s.held = -1 /\ s.gen >= MaxResumes
  <2> DEFINE new == [run[r] EXCEPT !.at = "ended", !.sid = Context, !.result = "refused"]
  <2>1. new \in Runs /\ new.at = "ended"
    BY <1>1 DEF Runs, Places, Results
  <2>2. [s EXCEPT !.status = "failed"] \in Sessions
    BY <1>1 DEF Sessions
  <2>3. session' \in [Run \cup {Context} -> Sessions]
    BY <1>1, <1>2, <2>2 DEF StartInContext
  <2>4. run' = [run EXCEPT ![r] = new] /\ UNCHANGED <<base, past, done, raced>>
    BY <1>2 DEF StartInContext
  <2>5. QED
    BY <1>1, <2>1, <2>3, <2>4, PipelineMove
<1>3. CASE ~(s.held = -1 /\ s.gen >= MaxResumes)
  <2> DEFINE new == [run[r] EXCEPT !.at = "at_node", !.sid = Context, !.gen = gen]
  <2>1. gen \in Nat \cup {-1}
    BY <1>1 DEF Sessions
  <2>2. new \in Runs /\ new.at = "at_node"
    BY <1>1, <2>1 DEF Runs, Places
  <2>3. session' \in [Run \cup {Context} -> Sessions]
    BY <1>1, <1>3, SessionsType DEF StartInContext
  <2>4. run' = [run EXCEPT ![r] = new] /\ UNCHANGED <<base, past, done, raced>>
    BY <1>3 DEF StartInContext
  <2>5. QED
    BY <1>1, <2>2, <2>3, <2>4, PipelineMove
<1>4. QED
  BY <1>2, <1>3

\* The read: whoever reads while another is in between makes a race of it.
LEMMA ReadPayloadInv ==
    ASSUME PipelineInv, NEW r \in Run, ReadPayload(r)
    PROVE  PipelineInv'
<1> DEFINE place == IF At(r, "merging") THEN "to_write_progress" ELSE "to_write_history"
<1>1. /\ run \in [Run -> Runs] /\ base \in [Run -> Seq(Run)] /\ past \in Seq(Run)
      /\ run[r].at \in {"merging", "recording"}
      /\ place = "to_write_history" => run[r].sid = Context
  BY DEF PipelineInv, PipelineTypeOK, ReadPayload, At
<1>2. /\ run' = [run EXCEPT ![r] = [run[r] EXCEPT !.at = place]]
      /\ [run[r] EXCEPT !.at = place] \in Runs
      /\ [run[r] EXCEPT !.at = place].at = place
      /\ [run[r] EXCEPT !.at = place].sid = run[r].sid
  <2>1. place \in Places /\ run' = [run EXCEPT ![r] = [run[r] EXCEPT !.at = place]]
    BY DEF ReadPayload, Goes, Places
  <2> HIDE DEF place
  <2>2. QED
    BY <2>1, GoesFacts
<1>3. /\ run' \in [Run -> Runs] /\ run'[r].at = place /\ run'[r].sid = run[r].sid
      /\ \A q \in Run \ {r} : run'[q] = run[q]
  BY <1>1, <1>2
<1>4. /\ base' \in [Run -> Seq(Run)] /\ \A q \in Run \ {r} : base'[q] = base[q]
      /\ run[r].sid = Context => base'[r] = past
  BY <1>1 DEF ReadPayload, Reads
<1>5. /\ UNCHANGED <<session, past, done>>
      /\ raced' = (raced \/ (run[r].sid = Context /\ \E q \in Run \ {r} : InBetween(q)))
  BY DEF ReadPayload
<1>6. PipelineTypeOK'
  BY <1>3, <1>4, <1>5 DEF PipelineInv, PipelineTypeOK
<1>7. \A q \in Run : run'[q].at \in {"recording", "to_write_history"} => run'[q].sid = Context
  BY <1>1, <1>3 DEF PipelineInv
<1>8. \A q \in Run \ {r} : InBetween(q)' <=> InBetween(q)
  BY <1>3 DEF InBetween
<1>9. ASSUME ~raced', NEW q \in Run, InBetween(q)'
      PROVE  base'[q] = past' /\ \A p \in Run : InBetween(p)' => p = q
  <2>1. CASE run[r].sid = Context
    <3>1. q = r /\ \A p \in Run : InBetween(p)' => p = r
      BY <1>5, <1>8, <1>9, <2>1
    <3>2. QED
      BY <1>4, <1>5, <2>1, <3>1
  <2>2. CASE run[r].sid # Context
    <3>1. ~InBetween(r)'
      BY <1>3, <2>2 DEF InBetween
    <3>2. ~raced /\ q # r /\ InBetween(q)
      BY <1>5, <1>8, <1>9, <3>1
    <3>3. base[q] = past /\ \A p \in Run : InBetween(p) => p = q
      BY <3>2 DEF PipelineInv
    <3>4. \A p \in Run : InBetween(p)' => p = q
      BY <1>8, <3>1, <3>3
    <3>5. QED
      BY <1>4, <1>5, <3>2, <3>3, <3>4
  <2>3. QED
    BY <2>1, <2>2
<1>10. HistoryFollowsRuns'
  BY <1>5 DEF PipelineInv, HistoryFollowsRuns
<1>11. QED
  BY <1>6, <1>7, <1>9, <1>10 DEF PipelineInv

\* The writes: what is written back is what was read, and nobody wrote since.
LEMMA WriteInv ==
    ASSUME PipelineInv, NEW r \in Run, NEW new \in Runs, run' = [run EXCEPT ![r] = new],
           new.at \notin {"recording", "to_write_progress", "to_write_history"},
           past' \in Seq(Run), done' \in Seq(Run), UNCHANGED <<session, base, raced>>,
           run[r].sid = Context => InBetween(r),
           run[r].sid # Context => UNCHANGED <<past, done>>,
           ~raced => past' = LastOf(done', HistoryLimit)
    PROVE  PipelineInv'
<1>1. /\ run \in [Run -> Runs] /\ run' \in [Run -> Runs] /\ run'[r] = new
      /\ \A q \in Run \ {r} : run'[q] = run[q]
  BY DEF PipelineInv, PipelineTypeOK
<1>2. PipelineTypeOK'
  BY <1>1 DEF PipelineInv, PipelineTypeOK
<1>3. \A q \in Run : run'[q].at \in {"recording", "to_write_history"} => run'[q].sid = Context
  BY <1>1 DEF PipelineInv
<1>4. ~InBetween(r)' /\ \A q \in Run \ {r} : InBetween(q)' <=> InBetween(q)
  BY <1>1 DEF InBetween
<1>5. ASSUME ~raced', NEW q \in Run, InBetween(q)'
      PROVE  base'[q] = past' /\ \A p \in Run : InBetween(p)' => p = q
  <2>1. ~raced /\ q # r /\ InBetween(q)
    BY <1>4, <1>5
  <2>2. base[q] = past /\ \A p \in Run : InBetween(p) => p = q
    BY <2>1 DEF PipelineInv
  <2>3. run[r].sid # Context
    BY <2>1, <2>2
  <2>4. \A p \in Run : InBetween(p)' => p = q
    BY <1>4, <2>2
  <2>5. QED
    BY <2>2, <2>3, <2>4
<1>6. HistoryFollowsRuns'
  BY DEF HistoryFollowsRuns
<1>7. QED
  BY <1>2, <1>3, <1>5, <1>6 DEF PipelineInv

LEMMA WriteProgressInv ==
    ASSUME PipelineInv, NEW r \in Run, WriteProgress(r)
    PROVE  PipelineInv'
<1> DEFINE new == [run[r] EXCEPT !.at = "at_node", !.node = @ + 1]
<1>1. /\ run[r] \in Runs /\ base[r] \in Seq(Run) /\ past \in Seq(Run) /\ done \in Seq(Run)
      /\ run[r].at = "to_write_progress"
  BY DEF PipelineInv, PipelineTypeOK, WriteProgress, At
<1>2. new \in Runs /\ new.at = "at_node"
  <2>1. run[r].node + 1 \in Nat
    BY <1>1 DEF Runs
  <2>2. \A n \in Nat : [[run[r] EXCEPT !.at = "at_node"] EXCEPT !.node = n] \in Runs
    BY <1>1 DEF Runs, Places
  <2>3. [run[r] EXCEPT !.at = "at_node"].node = run[r].node
    BY <1>1 DEF Runs
  <2>4. QED
    BY <1>1, <2>1, <2>2, <2>3 DEF Runs
<1>3. /\ run' = [run EXCEPT ![r] = new] /\ UNCHANGED <<session, base, done, raced>>
      /\ past' = IF run[r].sid = Context THEN base[r] ELSE past
  BY DEF WriteProgress
<1>4. run[r].sid = Context => InBetween(r)
  BY <1>1 DEF InBetween
<1>5. ~raced => past' = past
  BY <1>3, <1>4 DEF PipelineInv
<1>6. ~raced => past' = LastOf(done', HistoryLimit)
  BY <1>3, <1>5 DEF PipelineInv, HistoryFollowsRuns
<1>7. QED
  BY <1>1, <1>2, <1>3, <1>4, <1>6, WriteInv

LEMMA WriteHistoryInv ==
    ASSUME PipelineInv, NEW r \in Run, WriteHistory(r)
    PROVE  PipelineInv'
<1> DEFINE new == [run[r] EXCEPT !.at = "ended", !.result = "completed"]
<1>1. /\ run[r] \in Runs /\ base[r] \in Seq(Run) /\ done \in Seq(Run)
      /\ run[r].at = "to_write_history" /\ run[r].sid = Context
  BY DEF PipelineInv, PipelineTypeOK, WriteHistory, At
<1>2. new \in Runs /\ new.at = "ended"
  BY GoesFacts DEF Results
<1>3. /\ run' = [run EXCEPT ![r] = new] /\ UNCHANGED <<session, base, raced>>
      /\ past' = LastOf(Append(base[r], r), HistoryLimit) /\ done' = Append(done, r)
  BY DEF WriteHistory, Ends
<1>4. InBetween(r)
  BY <1>1 DEF InBetween
<1>5. HistoryLimit \in Nat \ {0}
  BY PipelineAssumption
<1>6. Append(base[r], r) \in Seq(Run) /\ Append(done, r) \in Seq(Run)
  BY <1>1, AppendProperties
<1>7. past' \in Seq(Run) /\ done' \in Seq(Run)
  BY <1>3, <1>5, <1>6, LastOfElements
<1>8. ASSUME ~raced PROVE past' = LastOf(done', HistoryLimit)
  <2>1. base[r] = LastOf(done, HistoryLimit)
    BY <1>4, <1>8 DEF PipelineInv, HistoryFollowsRuns
  <2>2. QED
    BY <1>1, <1>3, <1>5, <2>1, LastOfAppend
<1>9. QED
  BY <1>1, <1>2, <1>3, <1>4, <1>7, <1>8, WriteInv

LEMMA WriteRaisesInv ==
    ASSUME PipelineInv, NEW r \in Run, WriteRaises(r)
    PROVE  PipelineInv'
<1> DEFINE new == [run[r] EXCEPT !.at = "ended", !.result = "raised"]
<1>1. /\ past \in Seq(Run) /\ done \in Seq(Run)
      /\ run[r].at \in {"to_write_progress", "to_write_history"}
  BY DEF PipelineInv, PipelineTypeOK, WriteRaises, At
<1>2. new \in Runs /\ new.at = "ended"
  BY GoesFacts DEF Results
<1>3. run' = [run EXCEPT ![r] = new] /\ UNCHANGED <<session, base, past, done, raced>>
  BY DEF WriteRaises, Ends
<1>4. run[r].sid = Context => InBetween(r)
  BY <1>1 DEF InBetween
<1>5. ~raced => past' = LastOf(done', HistoryLimit)
  BY <1>3 DEF PipelineInv, HistoryFollowsRuns
<1>6. QED
  BY <1>1, <1>2, <1>3, <1>4, <1>5, WriteInv

LEMMA RunGoesOnInv ==
    ASSUME PipelineInv, NEW r \in Run, RunGoesOn(r)
    PROVE  PipelineInv'
<1>1. /\ run[r] \in Runs /\ session \in [Run \cup {Context} -> Sessions]
      /\ run[r].sid \in Run \cup {Context}
  BY DEF PipelineInv, PipelineTypeOK, Runs
<1>2. /\ Stopped(run[r].sid) \in [Run \cup {Context} -> Sessions]
      /\ {"calling", "merging", "recording"} \subseteq Places
      /\ {"raised", "pending", "completed"} \subseteq Results
  BY <1>1, SessionsType DEF Places, Results
<1>3. CASE IterationLimit(r)
  BY <1>1, <1>2, <1>3, EndsInv DEF IterationLimit, AtNode, At
<1>4. CASE BeginCall(r)
  <2>1. CASE Authorized(r)
    BY <1>1, <1>2, <1>4, <2>1, GoesInv DEF BeginCall, Iterates, CallsOrFails, AtNode, At
  <2>2. CASE ~Authorized(r)
    BY <1>4, <2>2, FailsInv DEF BeginCall, Iterates, CallsOrFails, AtNode, At
  <2>3. QED
    BY <2>1, <2>2
<1>5. CASE PredicateFails(r)
  BY <1>5, FailsInv DEF PredicateFails, Iterates, AtNode, At
<1>6. CASE NoBranch(r)
  <2> DEFINE new == [run[r] EXCEPT !.node = @ + 1]
  <2>1. new \in Runs /\ new.at = "at_node" /\ run[r].at = "at_node"
    BY <1>1, <1>6 DEF NoBranch, Iterates, AtNode, At, Runs
  <2>2. run' = [run EXCEPT ![r] = new] /\ UNCHANGED <<session, base, past, done, raced>>
    BY <1>6 DEF NoBranch, Iterates
  <2>3. QED
    BY <1>1, <2>1, <2>2, PipelineMove
<1>7. CASE CallSucceeds(r)
  BY <1>1, <1>2, <1>7, GoesInv DEF CallSucceeds, At
<1>8. CASE CallFails(r)
  BY <1>8, FailsInv DEF CallFails, At
<1>9. CASE ApprovalPending(r)
  <2>1. CASE FailsRun(r)
    BY <1>9, <2>1, FailsInv DEF ApprovalPending, At
  <2>2. CASE Ends(r, "pending") /\ UNCHANGED session
    BY <1>1, <1>2, <1>9, <2>2, EndsInv DEF ApprovalPending, At
  <2>3. QED
    BY <1>9, <2>1, <2>2 DEF ApprovalPending
<1>10. CASE Completes(r)
  <2>1. CASE run[r].sid = Context
    BY <1>1, <1>2, <1>10, <2>1, GoesInv DEF Completes, At
  <2>2. CASE run[r].sid # Context
    BY <1>1, <1>2, <1>10, <2>2, EndsInv DEF Completes, At
  <2>3. QED
    BY <2>1, <2>2
<1>11. QED
  BY <1>3, <1>4, <1>5, <1>6, <1>7, <1>8, <1>9, <1>10, ReadPayloadInv, WriteProgressInv,
     WriteHistoryInv, WriteRaisesInv DEF RunGoesOn

LEMMA OperatorInv ==
    ASSUME PipelineInv, NEW s \in Operated, Operator(s)
    PROVE  PipelineInv'
<1>1. s \in Run \cup {Context}
  BY PipelineAssumption
<1>2. /\ session \in [Run \cup {Context} -> Sessions] /\ session[s] \in Sessions
      /\ Resumed(s) \in [Run \cup {Context} -> Sessions]
      /\ Stopped(s) \in [Run \cup {Context} -> Sessions]
  BY <1>1, SessionsType DEF PipelineInv, PipelineTypeOK
<1>3. CASE OperatorPauses(s)
  <2>1. [session[s] EXCEPT !.status = "paused"] \in Sessions
    BY <1>2 DEF Sessions
  <2>2. session' \in [Run \cup {Context} -> Sessions]
    BY <1>1, <1>2, <1>3, <2>1 DEF OperatorPauses
  <2>3. QED
    BY <1>3, <2>2, PipelineOthers DEF OperatorPauses
<1>4. ASSUME NEW here \in BOOLEAN, OperatorStops(s, here) PROVE PipelineInv'
  <2>1. [session[s] EXCEPT !.status = "stopped"] \in Sessions
    BY <1>2 DEF Sessions
  <2>2. session' \in [Run \cup {Context} -> Sessions]
    BY <1>1, <1>2, <1>4, <2>1 DEF OperatorStops
  <2>3. QED
    BY <1>4, <2>2, PipelineOthers DEF OperatorStops
<1>5. ASSUME NEW here \in BOOLEAN, OperatorResumes(s, here) PROVE PipelineInv'
  <2> DEFINE new == [session[s] EXCEPT !.status = "running"]
  <2>1. [new EXCEPT !.gen = @ + 1] \in Sessions
    <3>1. new \in Sessions
      BY <1>2 DEF Sessions
    <3> HIDE DEF new
    <3>2. new.gen + 1 \in Nat /\ \A n \in Nat : [new EXCEPT !.gen = n] \in Sessions
      BY <3>1 DEF Sessions
    <3>3. QED
      BY <3>2
  <2>2. session' \in [Run \cup {Context} -> Sessions]
    BY <1>1, <1>2, <1>5, <2>1 DEF OperatorResumes
  <2>3. QED
    BY <1>5, <2>2, PipelineOthers DEF OperatorResumes
<1>6. QED
  BY <1>3, <1>4, <1>5 DEF Operator

LEMMA PipelineInvStep == PipelineInv /\ [PipelineNext]_pipelineVars => PipelineInv'
<1> SUFFICES ASSUME PipelineInv, [PipelineNext]_pipelineVars PROVE PipelineInv'
  OBVIOUS
<1>1. CASE UNCHANGED pipelineVars
  BY <1>1 DEF pipelineVars, PipelineInv, PipelineTypeOK, InBetween, HistoryFollowsRuns
<1>2. QED
  BY <1>1, StartOwnInv, StartInContextInv, RunGoesOnInv, OperatorInv DEF PipelineNext

\* While no run reads the payload between another's read and its write, the
\* history is that of the runs that completed, the last of them in order
\* (pipeline.py:480-507).
THEOREM HistoryIsOfTheRuns == PipelineSpec => []HistoryFollowsRuns
<1>1. PipelineInv => HistoryFollowsRuns
  BY DEF PipelineInv
<1>2. QED
  BY PipelineInvInit, PipelineInvStep, <1>1, PTL DEF PipelineSpec

-----------------------------------------------------------------------------
(* ContextWindow. *)

ContextWork(n) ==
    [at : {"new", "taken", "summarizing", "done", "canceled"}, turns : SUBSET (1..n),
     digest : [covers : SUBSET (1..n), count : Nat]]

LEMMA TurnsAreFinite ==
    ASSUME NEW n \in Nat, NEW turns \in SUBSET (1..n)
    PROVE  IsFiniteSet(turns) /\ Cardinality(turns) \in Nat
<1>1. IsFiniteSet(1..n)
  BY FS_Interval
<1>2. IsFiniteSet(turns)
  BY <1>1, FS_Subset
<1>3. QED
  BY <1>2, FS_CardinalityType

LEMMA ContextInvInit == ContextInit => ContextInv
<1> SUFFICES ASSUME ContextInit PROVE ContextInv
  OBVIOUS
<1>1. added = 0 /\ keep \in Nat /\ window = {} /\ dropped = {} /\ overlapped = FALSE
  BY ContextAssumption DEF ContextInit
<1>2. summary.count = 0 /\ summary.covers = {}
  BY DEF ContextInit, NoHistory
<1>3. \A c \in Compression : work[c].at = "new"
  BY DEF ContextInit
<1>4. NoHistory \in [covers : SUBSET (1..added), count : Nat]
  BY <1>1 DEF NoHistory
<1>5. work \in [Compression ->
          [at : {"new", "taken", "summarizing", "done", "canceled"}, turns : SUBSET (1..added),
           digest : [covers : SUBSET (1..added), count : Nat]]]
  BY <1>4 DEF ContextInit
<1>6. UnderWay = {} /\ Taken = {} /\ 1..added = {}
  BY <1>1, <1>3 DEF UnderWay, Taken
<1>7. TurnsAreKept
  BY <1>1, <1>2, <1>6, FS_EmptySet DEF TurnsAreKept, Prompt
<1>8. QED
  BY <1>1, <1>2, <1>3, <1>5, <1>6, <1>7, FS_EmptySet DEF ContextInv

\* A step of one compression: where the others are stays, and so does what is
\* taken, but for this one's share.
LEMMA OneCompression ==
    ASSUME ContextInv, NEW c \in Compression, NEW new \in ContextWork(added),
           work' = [work EXCEPT ![c] = new], UNCHANGED <<added, keep>>
    PROVE  /\ work' \in [Compression -> ContextWork(added)] /\ work'[c] = new
           /\ \A d \in Compression \ {c} : work'[d] = work[d]
           /\ UnderWay \ {c} = UnderWay' \ {c}
           /\ Taken \cup new.turns \cup work[c].turns
                 = Taken' \cup new.turns \cup work[c].turns
           /\ c \in UnderWay' => new.turns \subseteq Taken'
           /\ c \in UnderWay => work[c].turns \subseteq Taken
<1>1. /\ work \in [Compression -> ContextWork(added)]
  BY DEF ContextInv, ContextWork
<1>2. /\ work' \in [Compression -> ContextWork(added)] /\ work'[c] = new
      /\ \A d \in Compression \ {c} : work'[d] = work[d]
  BY <1>1
<1>3. UnderWay \ {c} = UnderWay' \ {c}
  BY <1>2 DEF UnderWay
<1>4. Taken \cup new.turns \cup work[c].turns = Taken' \cup new.turns \cup work[c].turns
  <2>1. ASSUME NEW t, NEW d \in UnderWay, t \in work[d].turns, t \notin work[c].turns
        PROVE  t \in Taken'
    BY <1>2, <1>3, <2>1 DEF Taken, UnderWay
  <2>2. ASSUME NEW t, NEW d \in UnderWay', t \in work'[d].turns, t \notin new.turns
        PROVE  t \in Taken
    BY <1>2, <1>3, <2>2 DEF Taken, UnderWay
  <2>3. QED
    BY <2>1, <2>2 DEF Taken
<1>5. /\ c \in UnderWay' => new.turns \subseteq Taken'
      /\ c \in UnderWay => work[c].turns \subseteq Taken
  BY <1>2 DEF Taken
<1>6. QED
  BY <1>2, <1>3, <1>4, <1>5

LEMMA AddTurnInv ==
    ASSUME ContextInv, AddTurn
    PROVE  ContextInv'
<1>1. /\ added \in Nat /\ keep \in Nat /\ summary.count \in Nat /\ IsFiniteSet(window)
      /\ window \subseteq 1..added
  BY DEF ContextInv
<1>2. /\ added' = added + 1 /\ window' = window \cup {added + 1}
      /\ UNCHANGED <<keep, summary, work, overlapped, dropped>>
  BY DEF AddTurn
<1>3. 1..added' = (1..added) \cup {added + 1} /\ added + 1 \notin 1..added
  BY <1>1, <1>2
<1>4. UnderWay' = UnderWay /\ Taken' = Taken
  BY <1>2 DEF UnderWay, Taken
<1>5. Prompt' = Prompt \cup {added + 1}
  BY <1>2 DEF Prompt
<1>6. IsFiniteSet(window') /\ Cardinality(window') = Cardinality(window) + 1
  BY <1>1, <1>2, <1>3, FS_AddElement
<1>7. Taken \subseteq 1..added
  BY DEF ContextInv, TurnsAreKept
<1>8. Cardinality(window) \in Nat /\ Cardinality(Taken) \in Nat
  BY <1>1, <1>7, TurnsAreFinite
<1>9. TurnsAreKept'
  <2>1. (Prompt \cup Taken \cup dropped)' = 1..added'
    BY <1>2, <1>3, <1>4, <1>5 DEF ContextInv, TurnsAreKept
  <2>2. ASSUME ~overlapped', dropped' = {}
        PROVE  summary'.count + Cardinality(window') + Cardinality(Taken') = added'
    <3>1. summary.count + Cardinality(window) + Cardinality(Taken) = added
      BY <1>2, <2>2 DEF ContextInv, TurnsAreKept
    <3>2. QED
      BY <1>1, <1>2, <1>4, <1>6, <1>8, <3>1
  <2>3. QED
    BY <2>1, <2>2 DEF TurnsAreKept
<1>10. work' \in [Compression ->
          [at : {"new", "taken", "summarizing", "done", "canceled"}, turns : SUBSET (1..added'),
           digest : [covers : SUBSET (1..added'), count : Nat]]]
  <2>1. ContextWork(added) \subseteq ContextWork(added')
    BY <1>3 DEF ContextWork
  <2>2. work \in [Compression -> ContextWork(added)]
    BY DEF ContextInv, ContextWork
  <2>3. work' \in [Compression -> ContextWork(added')]
    BY <1>2, <2>1, <2>2
  <2>4. QED
    BY <2>3 DEF ContextWork
<1>11. added' \in Nat /\ keep' \in Nat /\ summary'.count \in Nat /\ window' \subseteq 1..added'
  BY <1>1, <1>2, <1>3
<1>12. /\ \A c \in Compression : work'[c].at = "summarizing" => work'[c].digest.covers = work'[c].turns
       /\ ~overlapped' =>
             /\ \A c, d \in UnderWay' : c = d
             /\ \A c \in Compression : work'[c].at = "summarizing" =>
                   work'[c].digest.count = summary'.count + Cardinality(work'[c].turns)
  BY <1>2, <1>4 DEF ContextInv
<1>13. QED
  BY <1>6, <1>9, <1>10, <1>11, <1>12 DEF ContextInv

LEMMA TakeInv ==
    ASSUME ContextInv, NEW c \in Compression, Take(c)
    PROVE  ContextInv'
<1> DEFINE turns == window \ Newest(keep)
           new == [work[c] EXCEPT !.at = "taken", !.turns = turns]
<1>1. /\ added \in Nat /\ keep \in Nat /\ summary.count \in Nat /\ IsFiniteSet(window)
      /\ window \subseteq 1..added /\ work[c] \in ContextWork(added)
      /\ work[c].at = "new"
  BY DEF ContextInv, ContextWork, Take
<1>2. Newest(keep) \subseteq window
  BY DEF Newest
<1>3. new \in ContextWork(added) /\ new.at = "taken" /\ new.turns = turns
  BY <1>1 DEF ContextWork
<1>4. /\ work' = [work EXCEPT ![c] = new] /\ window' = Newest(keep)
      /\ overlapped' = (overlapped \/ UnderWay # {}) /\ UNCHANGED <<keep, added, summary, dropped>>
  BY DEF Take, Kept
<1>5. /\ work' \in [Compression -> ContextWork(added)] /\ work'[c] = new
      /\ \A d \in Compression \ {c} : work'[d] = work[d]
      /\ UnderWay \ {c} = UnderWay' \ {c}
  BY <1>3, <1>4, OneCompression
<1>6. c \in UnderWay' /\ c \notin UnderWay
  BY <1>1, <1>3, <1>5 DEF UnderWay
<1>7. Taken' = Taken \cup turns
  <2> HIDE DEF turns, new
  <2>1. ASSUME NEW t \in Taken' PROVE t \in Taken \cup turns
    <3>1. PICK d \in UnderWay' : t \in work'[d].turns
      BY DEF Taken
    <3>2. d \in Compression
      BY DEF UnderWay
    <3>3. d # c => d \in UnderWay /\ t \in work[d].turns
      BY <1>5, <3>1, <3>2
    <3>4. d = c => t \in turns
      BY <1>3, <1>5, <3>1
    <3>5. QED
      BY <3>3, <3>4 DEF Taken
  <2>2. ASSUME NEW t \in Taken PROVE t \in Taken'
    <3>1. PICK d \in UnderWay : t \in work[d].turns
      BY DEF Taken
    <3>2. d \in Compression /\ d # c
      BY <1>6 DEF UnderWay
    <3>3. d \in UnderWay' /\ t \in work'[d].turns
      BY <1>5, <3>1, <3>2
    <3>4. QED
      BY <3>3 DEF Taken
  <2>3. turns \subseteq Taken'
    <3>1. work'[c].turns = turns
      BY <1>3, <1>5
    <3>2. QED
      BY <1>6, <3>1 DEF Taken
  <2>4. QED
    BY <2>1, <2>2, <2>3
<1> HIDE DEF turns
<1>8. /\ IsFiniteSet(window') /\ IsFiniteSet(turns)
      /\ Cardinality(window) = Cardinality(window') + Cardinality(turns)
      /\ Cardinality(window') \in Nat /\ Cardinality(turns) \in Nat
  <2>1. window \cap Newest(keep) = Newest(keep) /\ IsFiniteSet(Newest(keep))
    BY <1>1, <1>2, FS_Subset
  <2>2. /\ IsFiniteSet(turns)
        /\ Cardinality(turns) = Cardinality(window) - Cardinality(Newest(keep))
    BY <1>1, <2>1, FS_Difference DEF turns
  <2>3. /\ Cardinality(window) \in Nat /\ Cardinality(turns) \in Nat
        /\ Cardinality(Newest(keep)) \in Nat
    BY <1>1, <2>1, <2>2, FS_CardinalityType
  <2>4. QED
    BY <1>4, <2>1, <2>2, <2>3
<1>9. window = window' \cup turns
  BY <1>2, <1>4 DEF turns
<1>10. TurnsAreKept'
  <2>1. (Prompt \cup Taken \cup dropped)' = 1..added'
    BY <1>4, <1>7, <1>9 DEF ContextInv, TurnsAreKept, Prompt
  <2>2. ASSUME ~overlapped', dropped' = {}
        PROVE  summary'.count + Cardinality(window') + Cardinality(Taken') = added'
    <3>1. UnderWay = {} /\ ~overlapped /\ dropped = {}
      BY <1>4, <2>2
    <3>2. Taken = {} /\ Taken' = turns
      BY <1>7, <3>1 DEF Taken
    <3>3. summary.count + Cardinality(window) + Cardinality({}) = added
      BY <3>1, <3>2 DEF ContextInv, TurnsAreKept
    <3>4. Cardinality({}) = 0
      BY FS_EmptySet
    <3>5. QED
      BY <1>1, <1>4, <1>8, <3>2, <3>3, <3>4
  <2>3. QED
    BY <2>1, <2>2 DEF TurnsAreKept
<1>11. \A d \in Compression : work'[d].at = "summarizing" => work'[d].digest.covers = work'[d].turns
  BY <1>3, <1>5 DEF ContextInv
<1>12. ASSUME ~overlapped'
       PROVE  /\ \A b, d \in UnderWay' : b = d
              /\ \A d \in Compression : work'[d].at = "summarizing" =>
                    work'[d].digest.count = summary'.count + Cardinality(work'[d].turns)
  <2>1. UnderWay = {}
    BY <1>4, <1>12
  <2>2. UnderWay' = {c}
    BY <1>5, <1>6, <2>1
  <2>3. \A d \in Compression : work'[d].at # "summarizing"
    BY <1>3, <1>5, <2>1 DEF UnderWay
  <2>4. QED
    BY <2>2, <2>3
<1>13. window' \subseteq 1..added'
  BY <1>1, <1>2, <1>4
<1>14. QED
  BY <1>1, <1>4, <1>5, <1>8, <1>10, <1>11, <1>12, <1>13 DEF ContextInv, ContextWork

LEMMA DigestInv ==
    ASSUME ContextInv, NEW c \in Compression, Digest(c)
    PROVE  ContextInv'
<1> DEFINE new == [work[c] EXCEPT !.at = "summarizing", !.digest = DigestOf(work[c].turns)]
<1>1. /\ added \in Nat /\ keep \in Nat /\ summary.count \in Nat
      /\ work[c] \in ContextWork(added) /\ work[c].at = "taken"
  BY DEF ContextInv, ContextWork, Digest
<1>2. work[c].turns \in SUBSET (1..added) /\ Cardinality(work[c].turns) \in Nat
  <2>1. work[c].turns \in SUBSET (1..added)
    BY <1>1 DEF ContextWork
  <2>2. QED
    BY <1>1, <2>1, TurnsAreFinite
<1>3. /\ DigestOf(work[c].turns) \in [covers : SUBSET (1..added), count : Nat]
      /\ DigestOf(work[c].turns).covers = work[c].turns
      /\ DigestOf(work[c].turns).count = summary.count + Cardinality(work[c].turns)
  <2>1. summary.count + Cardinality(work[c].turns) \in Nat
    BY <1>1, <1>2
  <2>2. QED
    BY <1>2, <2>1 DEF DigestOf
<1>4. /\ new \in ContextWork(added) /\ new.at = "summarizing" /\ new.turns = work[c].turns
      /\ new.digest = DigestOf(work[c].turns)
  BY <1>1, <1>3 DEF ContextWork
<1>5. /\ work' = [work EXCEPT ![c] = new]
      /\ UNCHANGED <<keep, added, window, summary, overlapped, dropped>>
  BY DEF Digest
<1> HIDE DEF new
<1>6. /\ work' \in [Compression -> ContextWork(added)] /\ work'[c] = new
      /\ \A d \in Compression \ {c} : work'[d] = work[d]
      /\ UnderWay \ {c} = UnderWay' \ {c}
  BY <1>4, <1>5, OneCompression
<1>7. UnderWay' = UnderWay
  BY <1>1, <1>4, <1>6 DEF UnderWay
<1>8. Taken' = Taken
  <2>1. \A d \in Compression : work'[d].turns = work[d].turns
    BY <1>4, <1>6
  <2>2. \A d \in UnderWay : d \in Compression
    BY DEF UnderWay
  <2>3. QED
    BY <1>7, <2>1, <2>2 DEF Taken
<1>9. TurnsAreKept'
  BY <1>5, <1>8 DEF ContextInv, TurnsAreKept, Prompt
<1>10. \A d \in Compression : work'[d].at = "summarizing" => work'[d].digest.covers = work'[d].turns
  BY <1>3, <1>4, <1>6 DEF ContextInv
<1>11. ASSUME ~overlapped'
       PROVE  /\ \A b, d \in UnderWay' : b = d
              /\ \A d \in Compression : work'[d].at = "summarizing" =>
                    work'[d].digest.count = summary'.count + Cardinality(work'[d].turns)
  BY <1>3, <1>4, <1>5, <1>6, <1>7, <1>11 DEF ContextInv
<1>12. QED
  BY <1>5, <1>6, <1>9, <1>10, <1>11 DEF ContextInv, ContextWork

\* The end of a compression: what it had taken is in the summary, or dropped.
LEMMA CompressionEnds ==
    ASSUME ContextInv, NEW c \in Compression, work[c].at = "summarizing",
           NEW new \in ContextWork(added), new.turns = work[c].turns,
           new.at \in {"done", "canceled"}, work' = [work EXCEPT ![c] = new],
           UNCHANGED <<keep, added, window, overlapped>>, summary'.count \in Nat,
           Prompt' \cup dropped' = Prompt \cup dropped \cup work[c].turns,
           dropped' = {} => dropped = {},
           (~overlapped /\ dropped' = {}) =>
              summary'.count = summary.count + Cardinality(work[c].turns)
    PROVE  ContextInv'
<1>1. /\ added \in Nat /\ keep \in Nat /\ summary.count \in Nat
      /\ work[c] \in ContextWork(added) /\ c \in UnderWay
  BY DEF ContextInv, ContextWork, UnderWay
<1>2. /\ work' \in [Compression -> ContextWork(added)] /\ work'[c] = new
      /\ \A d \in Compression \ {c} : work'[d] = work[d]
      /\ UnderWay \ {c} = UnderWay' \ {c}
      /\ Taken \cup work[c].turns = Taken' \cup work[c].turns
      /\ work[c].turns \subseteq Taken
  <2>1. /\ work' \in [Compression -> ContextWork(added)] /\ work'[c] = new
        /\ \A d \in Compression \ {c} : work'[d] = work[d]
        /\ UnderWay \ {c} = UnderWay' \ {c}
        /\ Taken \cup new.turns \cup work[c].turns
              = Taken' \cup new.turns \cup work[c].turns
        /\ c \in UnderWay => work[c].turns \subseteq Taken
    BY OneCompression
  <2>2. QED
    BY <1>1, <2>1
<1>3. c \notin UnderWay'
  BY <1>2 DEF UnderWay
<1>4. (Prompt \cup Taken \cup dropped)' = 1..added'
  BY <1>2 DEF ContextInv, TurnsAreKept
<1>5. ~overlapped => UnderWay = {c} /\ UnderWay' = {}
  BY <1>1, <1>2, <1>3 DEF ContextInv
<1>6. ASSUME ~overlapped', dropped' = {}
      PROVE  summary'.count + Cardinality(window') + Cardinality(Taken') = added'
  <2>1. Taken = work[c].turns /\ Taken' = {}
    BY <1>5, <1>6 DEF Taken
  <2>2. summary.count + Cardinality(window) + Cardinality(work[c].turns) = added
    BY <1>6, <2>1 DEF ContextInv, TurnsAreKept
  <2>3. Cardinality({}) = 0 /\ Cardinality(window) \in Nat
    BY FS_EmptySet, FS_CardinalityType DEF ContextInv
  <2>4. Cardinality(work[c].turns) \in Nat
    <3>1. work[c].turns \in SUBSET (1..added)
      BY <1>1 DEF ContextWork
    <3>2. QED
      BY <1>1, <3>1, TurnsAreFinite
  <2>5. QED
    BY <1>1, <1>6, <2>1, <2>2, <2>3, <2>4
<1>7. TurnsAreKept'
  BY <1>4, <1>6 DEF TurnsAreKept
<1>8. \A d \in Compression : work'[d].at = "summarizing" => work'[d].digest.covers = work'[d].turns
  BY <1>2 DEF ContextInv
<1>9. ~overlapped' => /\ \A b, d \in UnderWay' : b = d
                      /\ \A d \in Compression : work'[d].at # "summarizing"
  BY <1>5 DEF UnderWay
<1>10. QED
  BY <1>2, <1>7, <1>8, <1>9 DEF ContextInv, ContextWork

LEMMA WriteSummaryInv ==
    ASSUME ContextInv, NEW c \in Compression, Write(c)
    PROVE  ContextInv'
<1>1. /\ work[c] \in ContextWork(added) /\ work[c].at = "summarizing"
      /\ work[c].digest.covers = work[c].turns
      /\ ~overlapped => work[c].digest.count = summary.count + Cardinality(work[c].turns)
  BY DEF ContextInv, ContextWork, Write
<1>2. work[c].digest \in [covers : SUBSET (1..added), count : Nat]
  BY <1>1 DEF ContextWork
<1>3. summary'.count = work[c].digest.count /\ summary'.covers = work[c].turns \cup summary.covers
  BY <1>1, <1>2 DEF Write, Joined
<1>4. /\ [work[c] EXCEPT !.at = "done"] \in ContextWork(added)
      /\ [work[c] EXCEPT !.at = "done"].turns = work[c].turns
      /\ [work[c] EXCEPT !.at = "done"].at = "done"
  BY <1>1 DEF ContextWork
<1>5. /\ work' = [work EXCEPT ![c] = [work[c] EXCEPT !.at = "done"]]
      /\ UNCHANGED <<keep, added, window, overlapped, dropped>>
  BY DEF Write
<1>6. Prompt' \cup dropped' = Prompt \cup dropped \cup work[c].turns
  BY <1>3, <1>5 DEF Prompt
<1>7. QED
  BY <1>1, <1>2, <1>3, <1>4, <1>5, <1>6, CompressionEnds

LEMMA CancelCompressInv ==
    ASSUME ContextInv, NEW c \in Compression, CancelCompress(c)
    PROVE  ContextInv'
<1>1. /\ work[c] \in ContextWork(added) /\ work[c].at = "summarizing" /\ summary.count \in Nat
  BY DEF ContextInv, ContextWork, CancelCompress
<1>2. /\ [work[c] EXCEPT !.at = "canceled"] \in ContextWork(added)
      /\ [work[c] EXCEPT !.at = "canceled"].turns = work[c].turns
      /\ [work[c] EXCEPT !.at = "canceled"].at = "canceled"
  BY <1>1 DEF ContextWork
<1>3. /\ work' = [work EXCEPT ![c] = [work[c] EXCEPT !.at = "canceled"]]
      /\ UNCHANGED <<keep, added, window, summary, overlapped>>
      /\ dropped' = dropped \cup work[c].turns
  BY DEF CancelCompress
<1>4. Prompt' \cup dropped' = Prompt \cup dropped \cup work[c].turns
  BY <1>3 DEF Prompt
<1>5. dropped' = {} => dropped = {} /\ summary'.count = summary.count + Cardinality(work[c].turns)
  <2>1. Cardinality({}) = 0
    BY FS_EmptySet
  <2>2. dropped' = {} => dropped = {} /\ work[c].turns = {}
    BY <1>3
  <2>3. ASSUME dropped' = {} PROVE summary'.count = summary.count + Cardinality(work[c].turns)
    <3>1. work[c].turns = {}
      BY <2>2, <2>3
    <3>2. summary.count = summary.count + Cardinality({})
      BY <1>1, <2>1
    <3>3. QED
      BY <1>3, <3>1, <3>2
  <2>4. QED
    BY <2>2, <2>3
<1>6. QED
  BY <1>1, <1>2, <1>3, <1>4, <1>5, CompressionEnds

LEMMA ContextInvStep == ContextInv /\ [ContextNext]_contextVars => ContextInv'
<1> SUFFICES ASSUME ContextInv, [ContextNext]_contextVars PROVE ContextInv'
  OBVIOUS
<1>1. CASE UNCHANGED contextVars
  BY <1>1 DEF contextVars, ContextInv, TurnsAreKept, Prompt, Taken, UnderWay
<1>2. QED
  BY <1>1, AddTurnInv, TakeInv, DigestInv, WriteSummaryInv, CancelCompressInv DEF ContextNext

\* No turn is lost between the window, the summary and the compressions under way,
\* and turn_count counts them (context.py:321-407), however many are added and
\* compressed.
THEOREM TurnsStayInPrompt == ContextSpec => []TurnsAreKept
<1>1. ContextInv => TurnsAreKept
  BY DEF ContextInv
<1>2. QED
  BY ContextInvInit, ContextInvStep, <1>1, PTL DEF ContextSpec

-----------------------------------------------------------------------------
(* TriggerDesk. *)

LEMMA GoneIsGoneInit == DeskInit => GoneIsGone
BY DeskAssumption DEF DeskInit, GoneIsGone

LEMMA DetachedType ==
    ASSUME GoneIsGone, NEW k \in JobKind, NEW n \in Trigger
    PROVE  /\ Detached(k, n) \in {"none", "on", "off"}
           /\ Detached(k, n) = "on" /\ jobs[k][n] = "none" => tick[k][n] = "on"
BY DEF GoneIsGone, Detached

LEMMA GoneIsGoneStep == GoneIsGone /\ [DeskNext]_deskVars => GoneIsGone'
<1> SUFFICES ASSUME GoneIsGone, [DeskNext]_deskVars PROVE GoneIsGone'
  OBVIOUS
<1>1. ASSUME NEW n \in Trigger, CreateWebhook(n) PROVE GoneIsGone'
  <2>1. lastHook' \in 0..MaxHooks
    BY <1>1, DeskAssumption DEF CreateWebhook, GoneIsGone
  <2>2. QED
    BY <1>1, <2>1 DEF CreateWebhook, GoneIsGone
<1>2. ASSUME NEW n \in Trigger, NEW from \in {"on", "off"}, NEW to \in {"on", "off"},
             Switch(n, from, to)
      PROVE  GoneIsGone'
  BY <1>2 DEF Switch, GoneIsGone
<1>3. ASSUME NEW n \in Trigger, RemoveTrigger(n) PROVE GoneIsGone'
  <2>1. /\ tick' = [k \in JobKind |-> [tick[k] EXCEPT ![n] = Detached(k, n)]]
        /\ \A k \in JobKind : Detached(k, n) \in {"none", "on", "off"}
    BY <1>3, DetachedType DEF RemoveTrigger
  <2>2. tick' \in [JobKind -> [Trigger -> {"none", "live", "on", "off"}]]
    BY <2>1 DEF GoneIsGone
  <2>3. \A k \in JobKind : /\ tick'[k][n] # "live"
                           /\ \A m \in Trigger \ {n} : tick'[k][m] = tick[k][m]
    BY <2>1 DEF GoneIsGone
  <2>4. /\ jobs' \in [JobKind -> [Trigger -> {"none", "on", "off"}]]
        /\ \A k \in JobKind : /\ jobs'[k][n] = "none"
                              /\ \A m \in Trigger \ {n} : jobs'[k][m] = jobs[k][m]
    BY <1>3 DEF RemoveTrigger, GoneIsGone
  <2>5. /\ hooks' \in [Trigger -> 0..MaxHooks] /\ lastHook' = lastHook /\ gone' = gone \cup {n}
        /\ hooks'[n] = 0 /\ \A m \in Trigger \ {n} : hooks'[m] = hooks[m]
    BY <1>3, DeskAssumption DEF RemoveTrigger, GoneIsGone
  <2>6. QED
    BY <2>2, <2>3, <2>4, <2>5 DEF GoneIsGone
<1>4. ASSUME NEW n \in Trigger, FireWebhook(n) PROVE GoneIsGone'
  BY <1>4 DEF FireWebhook, Begins, GoneIsGone
<1>5. ASSUME NEW n \in Trigger, NEW k \in JobKind, CreateJob(k, n) PROVE GoneIsGone'
  <2>1. /\ tick' = [tick EXCEPT ![k][n] = Detached(k, n)]
        /\ Detached(k, n) \in {"none", "on", "off"}
    BY <1>5, DetachedType DEF CreateJob
  <2>2. /\ tick' \in [JobKind -> [Trigger -> {"none", "live", "on", "off"}]]
        /\ \A l \in JobKind, m \in Trigger : tick'[l][m] = "live" => tick[l][m] = "live"
    BY <2>1 DEF GoneIsGone
  <2>3. QED
    BY <1>5, <2>2 DEF CreateJob, GoneIsGone
<1>6. ASSUME NEW n \in Trigger, NEW k \in JobKind, FireJob(k, n) \/ PollJob(k, n)
      PROVE  GoneIsGone'
  <2>1. tick' = [tick EXCEPT ![k][n] = "none"] /\ UNCHANGED <<jobs, hooks, lastHook, gone>>
    BY <1>6 DEF FireJob, PollJob, Due, Begins
  <2>2. QED
    BY <2>1 DEF GoneIsGone
<1>7. ASSUME NEW n \in Trigger, NEW k \in JobKind, Pass(k, n) PROVE GoneIsGone'
  BY <1>7 DEF Pass, GoneIsGone
<1>8. CASE BeginTick
  BY <1>8 DEF BeginTick, GoneIsGone
<1>9. ASSUME NEW f \in firing, EndFiring(f) PROVE GoneIsGone'
  BY <1>9 DEF EndFiring, GoneIsGone
<1>10. ASSUME NEW n \in Trigger, QueryFires(n) \/ QueryDull(n) \/ QueryFails(n)
       PROVE  GoneIsGone'
  BY <1>10 DEF QueryFires, QueryDull, QueryFails, Begins, GoneIsGone
<1>11. CASE UNCHANGED deskVars
  BY <1>11 DEF deskVars, GoneIsGone
<1> HIDE DEF GoneIsGone
<1>12. QED
  BY <1>1, <1>2, <1>3, <1>4, <1>5, <1>6, <1>7, <1>8, <1>9, <1>10, <1>11 DEF DeskNext

\* What has been removed does not begin to run, but for what the tick under way had
\* picked up before, and for a database watch whose query was awaited
\* (server.py:652-660, triggers.py:249-262, 351-383).
THEOREM RemovedStaysRemoved == DeskSpec => RemovedTriggersStayQuiet
<1>1. ASSUME GoneIsGone, [DeskNext]_deskVars
      PROVE  [\A f \in firing' \ firing : f.name \in gone =>
                 /\ f.source = 0
                 /\ f.name \in polled \/ \E k \in JobKind : tick[k][f.name] = "on"]_deskVars
  <2> SUFFICES ASSUME NEW f \in firing', f \notin firing, f.name \in gone
               PROVE  /\ f.source = 0
                      /\ f.name \in polled \/ \E k \in JobKind : tick[k][f.name] = "on"
    OBVIOUS
  <2>1. ASSUME NEW n \in Trigger, NEW source, Begins(source, n)
        PROVE  f.name = n /\ f.source = source
    BY <2>1 DEF Begins
  <2>2. ASSUME NEW n \in Trigger, FireWebhook(n) PROVE FALSE
    BY <1>1, <2>1, <2>2 DEF FireWebhook, GoneIsGone
  <2>3. ASSUME NEW n \in Trigger, NEW k \in JobKind, FireJob(k, n)
        PROVE  f.source = 0 /\ tick[k][f.name] = "on"
    <3>1. f.name = n /\ f.source = 0 /\ Detached(k, n) = "on"
      BY <2>1, <2>3 DEF FireJob, Due
    <3>2. jobs[k][n] = "none"
      BY <1>1, <3>1 DEF GoneIsGone
    <3>3. QED
      BY <1>1, <3>1, <3>2, DetachedType
  <2>4. ASSUME NEW n \in Trigger, QueryFires(n) PROVE f.source = 0 /\ f.name \in polled
    BY <2>1, <2>4 DEF QueryFires
  <2>5. \/ \E n \in Trigger : \/ FireWebhook(n) \/ QueryFires(n)
                             \/ \E k \in JobKind : FireJob(k, n)
        \/ firing' \subseteq firing
    BY <1>1 DEF DeskNext, deskVars, CreateWebhook, Switch, RemoveTrigger, CreateJob, Pass,
                BeginTick, EndFiring, PollJob, QueryDull, QueryFails
  <2>6. QED
    BY <2>2, <2>3, <2>4, <2>5
<1>2. QED
  BY GoneIsGoneInit, GoneIsGoneStep, <1>1, PTL DEF DeskSpec, RemovedTriggersStayQuiet

\* A log keeps its records when one is added that is newer than all of them ...
LEMMA KeepsAppend ==
    ASSUME NEW R, NEW s, Keeps(s, R), NEW x, \A r \in R : r.at \in Nat /\ r.at < x.at, x.at \in Nat
    PROVE  Keeps(Append(s, x), R \cup {x})
<1> DEFINE t == Append(s, x)
<1>1. /\ s \in Seq(R) /\ s \in Seq(R \cup {x}) /\ Len(s) \in Nat /\ DOMAIN s = 1..Len(s)
      /\ \A i \in 1..Len(s) : s[i] \in R
  <2>1. s \in Seq(R) /\ R \subseteq R \cup {x}
    BY DEF Keeps
  <2>2. s \in Seq(R \cup {x})
    BY <2>1, SeqMonotonic
  <2>3. QED
    BY <2>1, <2>2, LenProperties, ElementOfSeq
<1>2. /\ t \in Seq(R \cup {x}) /\ Len(t) = Len(s) + 1 /\ DOMAIN t = 1..(Len(s) + 1)
      /\ \A i \in 1..Len(s) : t[i] = s[i]
      /\ t[Len(s) + 1] = x
  <2>1. /\ t \in Seq(R \cup {x}) /\ Len(t) = Len(s) + 1
        /\ \A i \in 1..Len(s) : t[i] = s[i]
        /\ t[Len(s) + 1] = x
    BY <1>1, AppendProperties
  <2>2. DOMAIN t = 1..Len(t)
    BY <2>1, LenProperties
  <2>3. QED
    BY <2>1, <2>2
<1> HIDE DEF t
<1>3. ASSUME NEW i \in DOMAIN t, NEW j \in DOMAIN t, i < j PROVE t[i].at < t[j].at
  <2>1. i \in 1..Len(s) /\ t[i] = s[i] /\ t[i] \in R
    BY <1>1, <1>2, <1>3
  <2>2. CASE j = Len(s) + 1
    BY <1>2, <2>1, <2>2
  <2>3. CASE j # Len(s) + 1
    <3>1. j \in 1..Len(s) /\ t[j] = s[j]
      BY <1>1, <1>2, <2>3
    <3>2. QED
      BY <1>1, <1>3, <2>1, <3>1 DEF Keeps
  <2>4. QED
    BY <2>2, <2>3
<1>4. ASSUME NEW r \in R \cup {x}, \A i \in DOMAIN t : t[i] # r
      PROVE  HistoryKept <= Len(t) /\ \A i \in DOMAIN t : r.at < t[i].at
  <2>1. r # x /\ r \in R
    BY <1>1, <1>2, <1>4
  <2>2. \A i \in DOMAIN s : s[i] # r
    BY <1>1, <1>2, <1>4
  <2>3. HistoryKept <= Len(s) /\ \A i \in DOMAIN s : r.at < s[i].at
    BY <2>1, <2>2 DEF Keeps
  <2>4. HistoryKept <= Len(t)
    BY <1>1, <1>2, <2>3, DeskAssumption
  <2>5. ASSUME NEW i \in DOMAIN t PROVE r.at < t[i].at
    <3>1. CASE i = Len(s) + 1
      BY <1>2, <2>1, <3>1
    <3>2. CASE i # Len(s) + 1
      <4>1. i \in 1..Len(s)
        BY <1>1, <1>2, <3>2
      <4>2. QED
        BY <1>1, <1>2, <2>3, <4>1
    <3>3. QED
      BY <3>1, <3>2
  <2>6. QED
    BY <2>4, <2>5
<1>5. QED
  BY <1>2, <1>3, <1>4 DEF Keeps, t

\* ... and when the oldest are forgotten.
LEMMA KeepsTrim ==
    ASSUME NEW R, NEW s, Keeps(s, R), \A r \in R : r.at \in Nat
    PROVE  Keeps(Trim(s), R)
<1>1. /\ s \in Seq(R) /\ Len(s) \in Nat /\ DOMAIN s = 1..Len(s)
      /\ \A i \in 1..Len(s) : s[i] \in R
  BY LenProperties, ElementOfSeq DEF Keeps
<1>2. CASE ~(Len(s) > HistoryCap)
  BY <1>2 DEF Trim
<1>3. CASE Len(s) > HistoryCap
  <2> DEFINE m == Len(s) - HistoryKept + 1
             t == SubSeq(s, m, Len(s))
             shift == Len(s) - HistoryKept
  <2>1. /\ HistoryKept \in Nat /\ HistoryKept < Len(s) /\ m \in Int /\ m = shift + 1
        /\ shift \in Nat /\ Len(s) = shift + HistoryKept
    BY <1>1, <1>3, DeskAssumption
  <2>2. \A i \in m..Len(s) : s[i] \in R
    BY <1>1, <2>1
  <2>3. /\ t \in Seq(R) /\ Len(t) = IF m <= Len(s) THEN Len(s) - m + 1 ELSE 0
        /\ \A i \in 1..(Len(s) - m + 1) : t[i] = s[m + i - 1]
    <3> HIDE DEF m
    <3>1. QED
      BY <1>1, <2>1, <2>2, SubSeqProperties
  <2> HIDE DEF t
  <2>4. Len(s) - m + 1 = HistoryKept /\ m <= Len(s) /\ HistoryKept >= 1
    BY <1>1, <2>1, DeskAssumption
  <2>5. Len(t) = HistoryKept /\ DOMAIN t = 1..HistoryKept
    <3>1. Len(t) = HistoryKept
      BY <2>3, <2>4
    <3>2. QED
      BY <2>3, <3>1, LenProperties
  <2> HIDE DEF shift
  <2>6. ASSUME NEW i \in 1..HistoryKept
        PROVE  /\ shift + i \in 1..Len(s) /\ t[i] = s[shift + i] /\ s[shift + i] \in R
    <3>1. m + i - 1 = shift + i /\ shift + i \in 1..Len(s)
      BY <2>1
    <3>2. t[i] = s[m + i - 1]
      BY <2>3, <2>4
    <3>3. QED
      BY <1>1, <3>1, <3>2
  <2>7. ASSUME NEW i \in DOMAIN t, NEW j \in DOMAIN t, i < j PROVE t[i].at < t[j].at
    <3>1. /\ shift + i \in DOMAIN s /\ shift + j \in DOMAIN s
          /\ t[i] = s[shift + i] /\ t[j] = s[shift + j]
      BY <1>1, <2>5, <2>6
    <3>2. shift + i < shift + j
      BY <2>1, <2>5, <2>7
    <3>3. QED
      BY <3>1, <3>2 DEF Keeps
  <2>8. ASSUME NEW r \in R, \A i \in DOMAIN t : t[i] # r, NEW i \in DOMAIN t
        PROVE  r.at < t[i].at
    <3>1. shift + i \in DOMAIN s /\ t[i] = s[shift + i]
      BY <1>1, <2>5, <2>6
    <3>2. CASE \A j \in DOMAIN s : s[j] # r
      BY <3>1, <3>2 DEF Keeps
    <3>3. ASSUME NEW j \in DOMAIN s, s[j] = r PROVE r.at < t[i].at
      <4>1. ~(shift < j)
        <5> SUFFICES ASSUME shift < j PROVE FALSE
          OBVIOUS
        <5>1. j - shift \in 1..HistoryKept /\ shift + (j - shift) = j
          BY <1>1, <2>1
        <5>2. t[j - shift] = s[j]
          BY <2>6, <5>1
        <5>3. QED
          BY <2>5, <2>8, <3>3, <5>1, <5>2
      <4>2. j < shift + i
        BY <1>1, <2>1, <2>5, <4>1
      <4>3. QED
        BY <3>1, <3>3, <4>2 DEF Keeps
    <3>4. QED
      BY <3>2, <3>3
  <2>9. HistoryKept <= Len(t)
    BY <2>1, <2>5
  <2>10. Trim(s) = t
    BY <1>3 DEF Trim, t
  <2>11. QED
    BY <2>3, <2>7, <2>8, <2>9, <2>10 DEF Keeps
<1>4. QED
  BY <1>2, <1>3

\* Of a log, the latest are as many as were asked for, and newer than the others.
LEMMA LatestAreNewer ==
    ASSUME NEW R, IsFiniteSet(R), \A r \in R : r.at \in Nat, NEW s, Keeps(s, R),
           NEW limit \in 1..HistoryKept
    PROVE  /\ Latest(s, limit) \subseteq R
           /\ \A u \in R \ Latest(s, limit) :
                 /\ limit <= Cardinality(Latest(s, limit))
                 /\ \A q \in Latest(s, limit) : u.at < q.at
<1>1. /\ s \in Seq(R) /\ Len(s) \in Nat /\ DOMAIN s = 1..Len(s)
      /\ \A i \in 1..Len(s) : s[i] \in R
      /\ HistoryKept \in Nat /\ limit \in Nat /\ 1 <= limit /\ limit <= HistoryKept
  BY LenProperties, ElementOfSeq, DeskAssumption DEF Keeps
<1>2. Latest(s, limit) \subseteq R
  BY <1>1 DEF Latest
<1>3. ASSUME limit <= Len(s)
      PROVE  limit <= Cardinality(Latest(s, limit))
  <2> DEFINE I == (Len(s) - limit + 1)..Len(s)
             f == [i \in I |-> s[i]]
             shift == Len(s) - limit
  <2>1. /\ IsFiniteSet(I) /\ Cardinality(I) = limit
    <3>1. Len(s) - limit + 1 \in Int /\ Len(s) \in Int /\ ~(Len(s) - limit + 1 > Len(s))
      BY <1>1
    <3>2. IsFiniteSet(I) /\ Cardinality(I) = Len(s) - (Len(s) - limit + 1) + 1
      BY <3>1, FS_Interval
    <3>3. Len(s) - (Len(s) - limit + 1) + 1 = limit
      BY <1>1
    <3>4. QED
      BY <3>2, <3>3
  <2>2. \A i \in I : i \in DOMAIN s /\ i > Len(s) - limit /\ i \in Nat
    BY <1>1, <1>3
  <2> HIDE DEF I
  <2>3. f \in [I -> Latest(s, limit)]
    BY <2>2 DEF Latest
  <2>4. ASSUME NEW i \in I, NEW j \in I, f[i] = f[j] PROVE i = j
    <3>1. i \in DOMAIN s /\ j \in DOMAIN s /\ s[i] = s[j] /\ s[i].at \in Nat
      BY <1>1, <2>2, <2>4
    <3>2. ~(i < j) /\ ~(j < i)
      BY <3>1 DEF Keeps
    <3>3. QED
      BY <2>2, <3>2
  <2>5. f \in Injection(I, Latest(s, limit))
    BY <2>3, <2>4 DEF Injection, IsInjective
  <2>6. IsFiniteSet(Latest(s, limit))
    BY <1>2, FS_Subset
  <2>7. Cardinality(I) <= Cardinality(Latest(s, limit))
    <3> HIDE DEF f
    <3>1. QED
      BY <2>5, <2>6, FS_Injection
  <2>8. QED
    BY <2>1, <2>7
<1>4. ASSUME NEW u \in R, u \notin Latest(s, limit)
      PROVE  limit <= Len(s) /\ \A q \in Latest(s, limit) : u.at < q.at
  <2>1. CASE \A i \in DOMAIN s : s[i] # u
    <3>1. HistoryKept <= Len(s) /\ \A i \in DOMAIN s : u.at < s[i].at
      BY <2>1 DEF Keeps
    <3>2. QED
      BY <1>1, <3>1 DEF Latest
  <2>2. ASSUME NEW i \in DOMAIN s, s[i] = u
        PROVE  limit <= Len(s) /\ \A q \in Latest(s, limit) : u.at < q.at
    <3>1. ~(i > Len(s) - limit)
      BY <1>4, <2>2 DEF Latest
    <3>2. limit <= Len(s) /\ \A j \in DOMAIN s : j > Len(s) - limit => i < j
      BY <1>1, <3>1
    <3>3. QED
      BY <2>2, <3>2 DEF Keeps, Latest
  <2>3. QED
    BY <2>1, <2>2
<1>5. QED
  BY <1>2, <1>3, <1>4

\* What leaves out a record has limit newer ones instead: the newest are the same.
LEMMA NewestOfEnough ==
    ASSUME NEW U, IsFiniteSet(U), \A r \in U : r.at \in Nat, NEW V, V \subseteq U,
           NEW limit \in Nat,
           \A u \in U \ V : \E W \in SUBSET V :
               limit <= Cardinality(W) /\ \A q \in W : u.at < q.at
    PROVE  NewestOf(V, limit) = NewestOf(U, limit)
<1>1. ASSUME NEW r
      PROVE  /\ IsFiniteSet(Newer(V, r)) /\ IsFiniteSet(Newer(U, r))
             /\ Cardinality(Newer(V, r)) \in Nat /\ Cardinality(Newer(U, r)) \in Nat
             /\ Cardinality(Newer(V, r)) <= Cardinality(Newer(U, r))
  <2>1. Newer(U, r) \subseteq U /\ Newer(V, r) \subseteq Newer(U, r)
    BY DEF Newer
  <2>2. IsFiniteSet(Newer(U, r))
    BY <2>1, FS_Subset
  <2>3. IsFiniteSet(Newer(V, r)) /\ Cardinality(Newer(V, r)) <= Cardinality(Newer(U, r))
    BY <2>1, <2>2, FS_Subset
  <2>4. QED
    BY <2>2, <2>3, FS_CardinalityType
<1>2. ASSUME NEW r \in U, NEW u \in U \ V, r = u \/ r.at < u.at
      PROVE  limit <= Cardinality(Newer(V, r))
  <2>1. PICK W \in SUBSET V : limit <= Cardinality(W) /\ \A q \in W : u.at < q.at
    OBVIOUS
  <2>2. W \subseteq Newer(V, r)
    BY <1>2, <2>1 DEF Newer
  <2>3. IsFiniteSet(W) /\ Cardinality(W) <= Cardinality(Newer(V, r))
    BY <1>1, <2>2, FS_Subset
  <2>4. Cardinality(W) \in Nat /\ Cardinality(Newer(V, r)) \in Nat
    BY <1>1, <2>3, FS_CardinalityType
  <2>5. QED
    BY <2>1, <2>3, <2>4
<1>3. ASSUME NEW r \in V, Cardinality(Newer(V, r)) < limit
      PROVE  Cardinality(Newer(U, r)) < limit
  <2>1. \A u \in U \ V : ~(r.at < u.at)
    BY <1>1, <1>2, <1>3
  <2>2. Newer(U, r) = Newer(V, r)
    BY <2>1 DEF Newer
  <2>3. QED
    BY <1>3, <2>2
<1>4. ASSUME NEW r \in U, Cardinality(Newer(U, r)) < limit
      PROVE  r \in V /\ Cardinality(Newer(V, r)) < limit
  <2>1. Cardinality(Newer(V, r)) < limit
    BY <1>1, <1>4
  <2>2. r \in V
    BY <1>1, <1>2, <2>1
  <2>3. QED
    BY <2>1, <2>2
<1>5. /\ NewestOf(V, limit) = { r \in V : Cardinality(Newer(V, r)) < limit }
      /\ NewestOf(U, limit) = { r \in U : Cardinality(Newer(U, r)) < limit }
  BY DEF NewestOf
<1>6. QED
  BY <1>3, <1>4, <1>5

LEMMA LogsAreKeptInit == DeskInit => LogsAreKept
<1> SUFFICES ASSUME DeskInit PROVE LogsAreKept
  OBVIOUS
<1>1. made = {} /\ firing = {} /\ log = <<>> /\ hookLog = [h \in 1..MaxHooks |-> <<>>]
  BY DEF DeskInit
<1>2. \A source : RecordsOf(source) = {}
  BY <1>1 DEF RecordsOf
<1>3. Keeps(<<>>, {})
  BY EmptySeq DEF Keeps
<1>4. QED
  BY <1>1, <1>2, <1>3, GoneIsGoneInit, FS_EmptySet DEF LogsAreKept

\* Steps that make no record.
LEMMA NoRecordInv ==
    ASSUME LogsAreKept, GoneIsGone', UNCHANGED <<log, hookLog, made>>,
           \A f \in firing' : f.source \in 0..MaxHooks
    PROVE  LogsAreKept'
BY DEF LogsAreKept, RecordsOf, Keeps

LEMMA RecordedInv ==
    ASSUME LogsAreKept, GoneIsGone', NEW from \in 0..MaxHooks, Recorded(from),
           firing' \subseteq firing
    PROVE  LogsAreKept'
<1> DEFINE n == Cardinality(made)
           x == [at |-> n + 1, source |-> from]
<1>1. /\ made' = made \cup {x}
      /\ IF from = 0 THEN log' = Trim(Append(log, x)) /\ UNCHANGED hookLog
         ELSE hookLog' = [hookLog EXCEPT ![from] = Append(@, x)] /\ UNCHANGED log
  BY DEF Recorded
<1>2. /\ IsFiniteSet(made) /\ n \in Nat /\ from \in 0..MaxHooks
      /\ \A r \in made : r.at \in 1..n
  BY FS_CardinalityType DEF LogsAreKept
<1> HIDE DEF n
<1>3. x \notin made /\ x.at = n + 1 /\ x.source = from
  BY <1>2
<1>4. IsFiniteSet(made') /\ Cardinality(made') = n + 1
  BY <1>1, <1>2, <1>3, FS_AddElement DEF n
<1>5. \A r \in made' : r.at \in 1..Cardinality(made')
  BY <1>1, <1>2, <1>3, <1>4
<1>6. /\ RecordsOf(from)' = RecordsOf(from) \cup {x}
      /\ \A source : source # from => RecordsOf(source)' = RecordsOf(source)
  BY <1>1, <1>3 DEF RecordsOf
<1>7. ASSUME NEW s, Keeps(s, RecordsOf(from))
      PROVE  Keeps(Append(s, x), RecordsOf(from)')
  <2>1. \A r \in RecordsOf(from) : r.at \in Nat /\ r.at < x.at
    BY <1>2, <1>3 DEF RecordsOf
  <2>2. x.at \in Nat
    BY <1>2, <1>3
  <2> HIDE DEF x
  <2>3. QED
    BY <1>6, <1>7, <2>1, <2>2, KeepsAppend
<1>8. Keeps(log', RecordsOf(0)')
  <2>1. CASE from = 0
    <3>1. Keeps(Append(log, x), RecordsOf(0)')
      BY <1>7, <2>1 DEF LogsAreKept
    <3>2. \A r \in RecordsOf(0)' : r.at \in Nat
      BY <1>2, <1>4, <1>5 DEF RecordsOf
    <3>3. log' = Trim(Append(log, x))
      BY <1>1, <2>1
    <3> HIDE DEF x
    <3>4. QED
      BY <3>1, <3>2, <3>3, KeepsTrim
  <2>2. CASE from # 0
    BY <1>1, <1>6, <2>2 DEF LogsAreKept
  <2>3. QED
    BY <2>1, <2>2
<1>9. DOMAIN hookLog' = 1..MaxHooks
  BY <1>1 DEF LogsAreKept
<1>10. ASSUME NEW h \in 1..MaxHooks
       PROVE  Keeps(hookLog'[h], RecordsOf(h)')
  <2>1. CASE from = h
    <3>1. from # 0
      BY <2>1
    <3>2. hookLog'[h] = Append(hookLog[h], x)
      BY <1>1, <2>1, <3>1 DEF LogsAreKept
    <3>3. Keeps(hookLog[h], RecordsOf(from))
      BY <2>1 DEF LogsAreKept
    <3> HIDE DEF x
    <3>4. QED
      BY <1>7, <2>1, <3>2, <3>3
  <2>2. CASE from # h
    <3>1. hookLog'[h] = hookLog[h] /\ Keeps(hookLog[h], RecordsOf(h))
      BY <1>1, <2>2 DEF LogsAreKept
    <3>2. RecordsOf(h)' = RecordsOf(h)
      BY <1>6, <2>2
    <3>3. QED
      BY <3>1, <3>2
  <2>3. QED
    BY <2>1, <2>2
<1>11. \A g \in firing' : g.source \in 0..MaxHooks
  BY DEF LogsAreKept
<1>12. QED
  BY <1>4, <1>5, <1>8, <1>9, <1>10, <1>11 DEF LogsAreKept

LEMMA LogsAreKeptStep == LogsAreKept /\ [DeskNext]_deskVars => LogsAreKept'
<1> SUFFICES ASSUME LogsAreKept, [DeskNext]_deskVars PROVE LogsAreKept'
  OBVIOUS
<1>1. GoneIsGone /\ GoneIsGone'
  BY GoneIsGoneStep DEF LogsAreKept
<1>2. ASSUME NEW source \in 0..MaxHooks, NEW n, Begins(source, n) PROVE LogsAreKept'
  <2>1. \A f \in firing' : f.source \in 0..MaxHooks
    BY <1>2 DEF Begins, LogsAreKept
  <2>2. QED
    BY <1>1, <1>2, <2>1, NoRecordInv DEF Begins
<1>3. ASSUME NEW n \in Trigger, FireWebhook(n) PROVE LogsAreKept'
  <2>1. hooks[n] \in 0..MaxHooks
    BY <1>1 DEF GoneIsGone
  <2>2. QED
    BY <1>2, <1>3, <2>1 DEF FireWebhook
<1>4. ASSUME NEW n \in Trigger, NEW k \in JobKind, FireJob(k, n) PROVE LogsAreKept'
  BY <1>2, <1>4, DeskAssumption DEF FireJob
<1>a. ASSUME NEW n \in Trigger, QueryFires(n) PROVE LogsAreKept'
  BY <1>2, <1>a, DeskAssumption DEF QueryFires
<1>b. ASSUME NEW n \in Trigger, QueryFails(n) PROVE LogsAreKept'
  BY <1>1, <1>b, RecordedInv, DeskAssumption DEF QueryFails
<1>c. ASSUME NEW f \in firing, EndFiring(f) PROVE LogsAreKept'
  <2>1. f.source \in 0..MaxHooks
    BY DEF LogsAreKept
  <2>2. QED
    BY <1>1, <1>c, <2>1, RecordedInv DEF EndFiring
<1>5. ASSUME UNCHANGED <<log, hookLog, made, firing>> PROVE LogsAreKept'
  BY <1>1, <1>5, NoRecordInv DEF LogsAreKept
<1>6. \/ \E n \in Trigger : \/ FireWebhook(n) \/ QueryFires(n) \/ QueryFails(n)
                           \/ \E k \in JobKind : FireJob(k, n)
      \/ \E f \in firing : EndFiring(f)
      \/ UNCHANGED <<log, hookLog, made, firing>>
  BY DEF DeskNext, deskVars, CreateWebhook, Switch, RemoveTrigger, CreateJob, Pass, BeginTick,
         PollJob, QueryDull
<1>7. QED
  BY <1>3, <1>4, <1>a, <1>b, <1>c, <1>5, <1>6

LEMMA HistoryOfKeptLogs ==
    ASSUME LogsAreKept, NEW limit \in 1..HistoryKept
    PROVE  History(limit) = NewestOf({ r \in made : r.source \in Registered \cup {0} }, limit)
<1> DEFINE U == { r \in made : r.source \in Registered \cup {0} }
           Of(source) == IF source = 0 THEN log ELSE hookLog[source]
           V == Latest(log, limit) \cup UNION { Latest(hookLog[h], limit) : h \in Registered }
<1>1. /\ IsFiniteSet(made) /\ \A r \in made : r.at \in Nat
      /\ Registered \subseteq 1..MaxHooks
  <2>1. Cardinality(made) \in Nat
    BY FS_CardinalityType DEF LogsAreKept
  <2>2. Registered \subseteq 1..MaxHooks
    BY DeskAssumption DEF LogsAreKept, GoneIsGone, Registered
  <2>3. QED
    BY <2>1, <2>2 DEF LogsAreKept
<1>2. ASSUME NEW source \in Registered \cup {0}
      PROVE  /\ Latest(Of(source), limit) \subseteq RecordsOf(source)
             /\ \A u \in RecordsOf(source) \ Latest(Of(source), limit) :
                   /\ limit <= Cardinality(Latest(Of(source), limit))
                   /\ \A q \in Latest(Of(source), limit) : u.at < q.at
             /\ Latest(Of(source), limit) \subseteq V
  <2>1. Keeps(Of(source), RecordsOf(source))
    BY <1>1 DEF LogsAreKept
  <2>2. IsFiniteSet(RecordsOf(source)) /\ \A r \in RecordsOf(source) : r.at \in Nat
    <3>1. RecordsOf(source) \subseteq made
      BY DEF RecordsOf
    <3>2. QED
      BY <1>1, <3>1, FS_Subset
  <2>3. Latest(Of(source), limit) \subseteq V
    <3>1. CASE source = 0
      BY <3>1
    <3>2. CASE source # 0
      BY <3>2
    <3>3. QED
      BY <3>1, <3>2
  <2> HIDE DEF Of, V
  <2>4. QED
    BY <2>1, <2>2, <2>3, LatestAreNewer
<1>3. V \subseteq U
  <2>1. Latest(log, limit) \subseteq RecordsOf(0)
    BY <1>2
  <2>2. ASSUME NEW h \in Registered PROVE Latest(hookLog[h], limit) \subseteq RecordsOf(h)
    <3>1. h # 0 /\ h \in Registered \cup {0}
      BY <1>1
    <3>2. QED
      BY <1>2, <3>1
  <2>3. QED
    BY <2>1, <2>2 DEF RecordsOf
<1>4. ASSUME NEW u \in U \ V
      PROVE  \E W \in SUBSET V : limit <= Cardinality(W) /\ \A q \in W : u.at < q.at
  <2>1. u.source \in Registered \cup {0} /\ u \in RecordsOf(u.source)
    BY DEF RecordsOf
  <2> HIDE DEF Of, V
  <2>2. Latest(Of(u.source), limit) \in SUBSET V /\ u \notin Latest(Of(u.source), limit)
    BY <1>2, <2>1
  <2>3. /\ limit <= Cardinality(Latest(Of(u.source), limit))
        /\ \A q \in Latest(Of(u.source), limit) : u.at < q.at
    BY <1>2, <2>1, <2>2
  <2>4. QED
    BY <2>2, <2>3
<1>5. IsFiniteSet(U) /\ \A r \in U : r.at \in Nat
  <2>1. U \subseteq made
    OBVIOUS
  <2> HIDE DEF U
  <2>2. QED
    BY <1>1, <2>1, FS_Subset
<1>6. limit \in Nat
  BY DeskAssumption
<1>7. History(limit) = NewestOf(V, limit)
  BY DEF History
<1> HIDE DEF U, V, Of
<1>8. NewestOf(V, limit) = NewestOf(U, limit)
  BY <1>3, <1>4, <1>5, <1>6, NewestOfEnough
<1>9. QED
  BY <1>7, <1>8 DEF U

\* The merged history shows the newest firings of all that the scheduler and the
\* registered webhooks ever had (server.py:624-631, triggers.py:312-315, 416-419).
THEOREM HistoryShowsNewest == DeskSpec => []HistoryIsNewest
<1>1. LogsAreKept => HistoryIsNewest
  BY HistoryOfKeptLogs DEF HistoryIsNewest
<1>2. QED
  BY LogsAreKeptInit, LogsAreKeptStep, <1>1, PTL DEF DeskSpec

-----------------------------------------------------------------------------
(* Prefixes, and sequences that repeat nothing. *)

LEMMA PrefixElements ==
    ASSUME NEW S, NEW s \in Seq(S), NEW t \in Seq(S)
    PROVE  IsPrefix(s, t) <=> Len(s) <= Len(t) /\ \A i \in 1..Len(s) : s[i] = t[i]
<1>1. /\ Len(s) \in Nat /\ Len(t) \in Nat /\ DOMAIN s = 1..Len(s) /\ DOMAIN t = 1..Len(t)
      /\ \A i \in 1..Len(s) : s[i] \in S
      /\ \A i \in 1..Len(t) : t[i] \in S
  BY LenProperties, ElementOfSeq
<1>2. SubSeq(s, 1, Len(s)) = s
  BY SubSeqFull
<1>3. ASSUME Len(s) <= Len(t)
      PROVE  /\ SubSeq(t, 1, Len(s)) \in Seq(S) /\ Len(SubSeq(t, 1, Len(s))) = Len(s)
             /\ \A i \in 1..Len(s) : SubSeq(t, 1, Len(s))[i] = t[i]
  <2> DEFINE n == Len(s)
  <2>1. n \in Nat /\ 1 \in Int /\ n \in Int /\ \A i \in 1..n : t[i] \in S
    BY <1>1, <1>3
  <2> HIDE DEF n
  <2>2. /\ SubSeq(t, 1, n) \in Seq(S) /\ Len(SubSeq(t, 1, n)) = IF 1 <= n THEN n - 1 + 1 ELSE 0
        /\ \A i \in 1..(n - 1 + 1) : SubSeq(t, 1, n)[i] = t[1 + i - 1]
    BY <2>1, SubSeqProperties
  <2>3. Len(SubSeq(t, 1, n)) = n
    BY <2>1, <2>2
  <2>4. ASSUME NEW i \in 1..n PROVE SubSeq(t, 1, n)[i] = t[i]
    <3>1. i \in 1..(n - 1 + 1) /\ 1 + i - 1 = i
      BY <2>1
    <3>2. QED
      BY <2>2, <3>1
  <2>5. QED
    BY <2>2, <2>3, <2>4 DEF n
<1>4. ASSUME Len(s) <= Len(t), \A i \in 1..Len(s) : s[i] = t[i]
      PROVE  s = SubSeq(t, 1, Len(s))
  <2> DEFINE u == SubSeq(t, 1, Len(s))
  <2>1. u \in Seq(S) /\ Len(s) = Len(u) /\ \A i \in 1..Len(s) : s[i] = u[i]
    BY <1>3, <1>4
  <2> HIDE DEF u
  <2>2. s = u
    BY <2>1, SeqEqual
  <2>3. QED
    BY <2>2 DEF u
<1>5. ASSUME Len(s) <= Len(t), s = SubSeq(t, 1, Len(s)), NEW i \in 1..Len(s)
      PROVE  s[i] = t[i]
  BY <1>3, <1>5
<1>6. IsPrefix(s, t) <=> Len(s) <= Len(t) /\ s = SubSeq(t, 1, Len(s))
  BY <1>2 DEF IsPrefix
<1>7. QED
  BY <1>4, <1>5, <1>6

LEMMA PrefixSelf ==
    ASSUME NEW S, NEW s \in Seq(S)
    PROVE  IsPrefix(s, s)
BY PrefixElements, LenProperties

LEMMA PrefixAppend ==
    ASSUME NEW S, NEW s \in Seq(S), NEW t \in Seq(S), IsPrefix(s, t), NEW x \in S
    PROVE  IsPrefix(s, Append(t, x))
<1> DEFINE u == Append(t, x)
<1>1. /\ Len(s) \in Nat /\ Len(t) \in Nat /\ Len(s) <= Len(t)
      /\ \A i \in 1..Len(s) : s[i] = t[i]
  BY PrefixElements, LenProperties
<1>2. u \in Seq(S) /\ Len(u) = Len(t) + 1 /\ \A i \in 1..Len(t) : u[i] = t[i]
  BY AppendProperties
<1> HIDE DEF u
<1>3. Len(s) <= Len(u) /\ \A i \in 1..Len(s) : s[i] = u[i]
  BY <1>1, <1>2
<1>4. QED
  BY <1>2, <1>3, PrefixElements DEF u

LEMMA PrefixInjective ==
    ASSUME NEW S, NEW s \in Seq(S), NEW t \in Seq(S), IsPrefix(s, t), IsInjective(t)
    PROVE  IsInjective(s)
<1>1. /\ Len(s) \in Nat /\ Len(t) \in Nat /\ Len(s) <= Len(t)
      /\ DOMAIN s = 1..Len(s) /\ DOMAIN t = 1..Len(t)
      /\ \A i \in 1..Len(s) : s[i] = t[i]
  BY PrefixElements, LenProperties
<1>2. QED
  BY <1>1 DEF IsInjective

LEMMA PrefixConcat ==
    ASSUME NEW S, NEW b \in Seq(S), NEW s \in Seq(S), NEW t \in Seq(S), IsPrefix(s, t)
    PROVE  IsPrefix(b \o s, b \o t)
<1> DEFINE u == b \o s
           v == b \o t
<1>1. /\ Len(b) \in Nat /\ Len(s) \in Nat /\ Len(t) \in Nat /\ Len(s) <= Len(t)
      /\ \A i \in 1..Len(s) : s[i] = t[i]
  BY PrefixElements, LenProperties
<1>2. /\ u \in Seq(S) /\ Len(u) = Len(b) + Len(s)
      /\ \A i \in 1..(Len(b) + Len(s)) : u[i] = IF i <= Len(b) THEN b[i] ELSE s[i - Len(b)]
  BY ConcatProperties
<1>3. /\ v \in Seq(S) /\ Len(v) = Len(b) + Len(t)
      /\ \A i \in 1..(Len(b) + Len(t)) : v[i] = IF i <= Len(b) THEN b[i] ELSE t[i - Len(b)]
  BY ConcatProperties
<1> HIDE DEF u, v
<1>4. ASSUME NEW i \in 1..(Len(b) + Len(s)) PROVE u[i] = v[i]
  <2>1. i \in 1..(Len(b) + Len(t))
    BY <1>1
  <2>2. ~(i <= Len(b)) => i - Len(b) \in 1..Len(s)
    BY <1>1
  <2>3. QED
    BY <1>1, <1>2, <1>3, <2>1, <2>2
<1>5. Len(u) <= Len(v) /\ \A i \in 1..Len(u) : u[i] = v[i]
  <2>1. Len(u) <= Len(v)
    BY <1>1, <1>2, <1>3
  <2>2. 1..Len(u) = 1..(Len(b) + Len(s))
    BY <1>2
  <2>3. QED
    BY <1>4, <2>1, <2>2
<1>6. QED
  BY <1>2, <1>3, <1>5, PrefixElements DEF u, v

LEMMA ConcatAppend ==
    ASSUME NEW S, NEW b \in Seq(S), NEW s \in Seq(S), NEW x \in S
    PROVE  b \o Append(s, x) = Append(b \o s, x)
<1> DEFINE c == b \o s
           sx == Append(s, x)
           u == b \o sx
           v == Append(c, x)
<1>1. /\ Len(b) \in Nat /\ Len(s) \in Nat
  BY LenProperties
<1>2. /\ c \in Seq(S) /\ Len(c) = Len(b) + Len(s)
      /\ \A i \in 1..(Len(b) + Len(s)) : c[i] = IF i <= Len(b) THEN b[i] ELSE s[i - Len(b)]
  BY ConcatProperties
<1>3. /\ sx \in Seq(S) /\ Len(sx) = Len(s) + 1 /\ sx[Len(s) + 1] = x
      /\ \A i \in 1..Len(s) : sx[i] = s[i]
  BY AppendProperties
<1> HIDE DEF c, sx
<1>4. /\ u \in Seq(S) /\ Len(u) = Len(b) + Len(sx)
      /\ \A i \in 1..(Len(b) + Len(sx)) : u[i] = IF i <= Len(b) THEN b[i] ELSE sx[i - Len(b)]
  BY <1>3, ConcatProperties
<1>5. /\ v \in Seq(S) /\ Len(v) = Len(c) + 1 /\ v[Len(c) + 1] = x
      /\ \A i \in 1..Len(c) : v[i] = c[i]
  BY <1>2, AppendProperties
<1> HIDE DEF u, v
<1>6. Len(u) = Len(b) + Len(s) + 1 /\ Len(v) = Len(b) + Len(s) + 1
  BY <1>1, <1>2, <1>3, <1>4, <1>5
<1>7. ASSUME NEW i \in 1..(Len(b) + Len(s) + 1) PROVE u[i] = v[i]
  <2>1. i \in 1..(Len(b) + Len(sx))
    BY <1>1, <1>3
  <2>2. CASE i = Len(b) + Len(s) + 1
    <3>1. ~(i <= Len(b)) /\ i - Len(b) = Len(s) + 1
      BY <1>1, <2>2
    <3>2. u[i] = x
      BY <1>3, <1>4, <2>1, <3>1
    <3>3. v[i] = x
      BY <1>2, <1>5, <2>2
    <3>4. QED
      BY <3>2, <3>3
  <2>3. CASE i # Len(b) + Len(s) + 1
    <3>1. i \in 1..(Len(b) + Len(s))
      BY <1>1, <2>3
    <3>2. v[i] = IF i <= Len(b) THEN b[i] ELSE s[i - Len(b)]
      BY <1>2, <1>5, <3>1
    <3>3. ~(i <= Len(b)) => i - Len(b) \in 1..Len(s)
      BY <1>1, <3>1
    <3>4. QED
      BY <1>3, <1>4, <2>1, <3>2, <3>3
  <2>4. QED
    BY <2>2, <2>3
<1>8. u = v
  BY <1>4, <1>5, <1>6, <1>7, SeqEqual
<1>9. QED
  BY <1>8 DEF u, v, c, sx

\* The next number is in no sequence of the numbers so far.
LEMMA NextNumber ==
    ASSUME NEW n \in Nat, NEW s \in Seq(1..n), IsInjective(s)
    PROVE  Append(s, n + 1) \in Seq(1..(n + 1)) /\ IsInjective(Append(s, n + 1))
<1> DEFINE t == Append(s, n + 1)
<1>1. s \in Seq(1..(n + 1)) /\ n + 1 \in 1..(n + 1)
  <2>1. 1..n \subseteq 1..(n + 1)
    OBVIOUS
  <2>2. QED
    BY <2>1, SeqMonotonic
<1>2. /\ Len(s) \in Nat /\ DOMAIN s = 1..Len(s) /\ \A i \in 1..Len(s) : s[i] \in 1..n
  BY LenProperties, ElementOfSeq
<1>3. /\ t \in Seq(1..(n + 1)) /\ Len(t) = Len(s) + 1 /\ t[Len(s) + 1] = n + 1
      /\ \A i \in 1..Len(s) : t[i] = s[i]
  BY <1>1, AppendProperties
<1> HIDE DEF t
<1>4. DOMAIN t = 1..(Len(s) + 1)
  BY <1>3, LenProperties
<1>5. ASSUME NEW i \in DOMAIN t, NEW j \in DOMAIN t, t[i] = t[j] PROVE i = j
  <2>1. \A k \in 1..(Len(s) + 1) : k = Len(s) + 1 \/ k \in 1..Len(s)
    BY <1>2
  <2>2. \A k \in 1..Len(s) : t[k] # n + 1
    BY <1>2, <1>3
  <2>3. CASE i = Len(s) + 1 \/ j = Len(s) + 1
    BY <1>3, <1>4, <1>5, <2>1, <2>2, <2>3
  <2>4. CASE i \in 1..Len(s) /\ j \in 1..Len(s)
    BY <1>2, <1>3, <1>5, <2>4 DEF IsInjective
  <2>5. QED
    BY <1>4, <2>1, <2>3, <2>4
<1>6. QED
  BY <1>3, <1>5 DEF IsInjective, t

-----------------------------------------------------------------------------
(* AuditTrail. *)

Checkpoints(n) == [exists : BOOLEAN, generation : Nat, log : Seq(1..n)]
Readings(n) == [of : Owner, generation : Nat, memory : Seq(1..n)]

LEMMA TrailInvInit == TrailInit => TrailInv
<1> SUFFICES ASSUME TrailInit PROVE TrailInv
  OBVIOUS
<1>1. /\ recorded = 0 /\ readings = {}
      /\ row = [exists |-> TRUE, generation |-> 0, log |-> <<>>]
      /\ baseline = [m \in Owner |-> <<>>] /\ sink = [m \in Owner |-> <<>>]
  BY DEF TrailInit
<1>2. PICK o \in Owner : working = [n \in Owner |-> IF n = o THEN 0 ELSE -1]
  BY DEF TrailInit
<1>3. <<>> \in Seq(1..recorded) /\ Len(<<>>) = 0 /\ IsInjective(<<>>)
  BY EmptySeq DEF IsInjective
<1>4. row \in [exists : BOOLEAN, generation : Nat, log : Seq(1..recorded)]
  BY <1>1, <1>3
<1>5. TrailTypeOK
  BY <1>1, <1>2, <1>3, <1>4 DEF TrailTypeOK
<1>6. \A m \in Owner : Trail(m) = <<>>
  BY <1>1, <1>3, ConcatEmptySeq DEF Trail
<1>7. IsPrefix(<<>>, <<>>)
  BY <1>3, PrefixSelf
<1>8. row.log = <<>> /\ row.generation = 0
  BY <1>1
<1>9. \A m \in Owner : working[m] <= 0 /\ (working[m] = 0 => m = o)
  BY <1>2
<1>10. QED
  BY <1>1, <1>3, <1>5, <1>6, <1>7, <1>8, <1>9 DEF TrailInv

LEMMA TrailType ==
    ASSUME TrailInv, NEW m \in Owner
    PROVE  /\ baseline[m] \in Seq(1..recorded) /\ sink[m] \in Seq(1..recorded)
           /\ Trail(m) \in Seq(1..recorded) /\ recorded \in Nat
           /\ row \in Checkpoints(recorded)
           /\ row.log \in Seq(1..recorded) /\ row.generation \in Nat
<1>1. baseline[m] \in Seq(1..recorded) /\ sink[m] \in Seq(1..recorded)
  BY DEF TrailInv, TrailTypeOK
<1>2. Trail(m) \in Seq(1..recorded)
  BY <1>1, ConcatProperties DEF Trail
<1>3. row \in Checkpoints(recorded) /\ recorded \in Nat
  BY DEF TrailInv, TrailTypeOK, Checkpoints
<1>4. QED
  BY <1>1, <1>2, <1>3 DEF Checkpoints

\* Sequences of the numbers so far are sequences of one more number.
LEMMA WiderTypes ==
    ASSUME TrailInv, NEW n \in {recorded, recorded + 1}
    PROVE  /\ n \in Nat /\ Seq(1..recorded) \subseteq Seq(1..n)
           /\ baseline \in [Owner -> Seq(1..n)] /\ sink \in [Owner -> Seq(1..n)]
           /\ Checkpoints(recorded) \subseteq Checkpoints(n)
           /\ \A r \in readings : r \in Readings(n)
<1>1. recorded \in Nat
  BY DEF TrailInv, TrailTypeOK
<1>2. n \in Nat /\ 1..recorded \subseteq 1..n
  BY <1>1
<1>3. Seq(1..recorded) \subseteq Seq(1..n)
  BY <1>2, SeqMonotonic
<1>4. /\ baseline \in [Owner -> Seq(1..n)] /\ sink \in [Owner -> Seq(1..n)]
  BY <1>3 DEF TrailInv, TrailTypeOK
<1>5. Checkpoints(recorded) \subseteq Checkpoints(n) /\ Readings(recorded) \subseteq Readings(n)
  BY <1>3 DEF Checkpoints, Readings
<1>6. \A r \in readings : r \in Readings(recorded)
  BY DEF TrailInv, TrailTypeOK, Readings
<1>7. QED
  BY <1>2, <1>3, <1>4, <1>5, <1>6

\* One more entry in a manager's memory.
LEMMA OneMoreEntry ==
    ASSUME TrailInv, NEW m \in Owner
    PROVE  /\ Append(sink[m], recorded + 1) \in Seq(1..(recorded + 1))
           /\ baseline[m] \o Append(sink[m], recorded + 1) = Append(Trail(m), recorded + 1)
           /\ Append(Trail(m), recorded + 1) \in Seq(1..(recorded + 1))
           /\ IsInjective(Append(Trail(m), recorded + 1))
           /\ \A s \in Seq(1..recorded) :
                 /\ IsPrefix(s, Trail(m)) => IsPrefix(s, Append(Trail(m), recorded + 1))
                 /\ IsPrefix(s, sink[m]) => IsPrefix(s, Append(sink[m], recorded + 1))
<1> DEFINE n == recorded + 1
           x == recorded + 1
<1>1. /\ n \in Nat /\ x \in 1..n /\ Trail(m) \in Seq(1..recorded) /\ recorded \in Nat
      /\ baseline[m] \in Seq(1..n) /\ sink[m] \in Seq(1..n) /\ Trail(m) \in Seq(1..n)
      /\ \A s \in Seq(1..recorded) : s \in Seq(1..n)
  <2>1. /\ baseline[m] \in Seq(1..recorded) /\ sink[m] \in Seq(1..recorded)
        /\ Trail(m) \in Seq(1..recorded) /\ recorded \in Nat
    BY TrailType
  <2>2. Seq(1..recorded) \subseteq Seq(1..n)
    BY WiderTypes
  <2>3. QED
    BY <2>1, <2>2
<1>2. Append(Trail(m), x) \in Seq(1..n) /\ IsInjective(Append(Trail(m), x))
  BY <1>1, NextNumber DEF TrailInv
<1> HIDE DEF n, x
<1>3. Append(sink[m], x) \in Seq(1..n)
  BY <1>1, AppendProperties
<1>4. baseline[m] \o Append(sink[m], x) = Append(Trail(m), x)
  <2>1. baseline[m] \in Seq(1..n) /\ sink[m] \in Seq(1..n) /\ x \in 1..n
    BY <1>1
  <2> DEFINE S == 1..n
             b == baseline[m]
             s == sink[m]
  <2> HIDE DEF S, b, s
  <2>2. b \o Append(s, x) = Append(b \o s, x)
    <3>1. b \in Seq(S) /\ s \in Seq(S) /\ x \in S
      BY <2>1 DEF S, b, s
    <3>2. QED
      BY <3>1, ConcatAppend
  <2>3. QED
    BY <2>2 DEF Trail, b, s
<1>5. ASSUME NEW s \in Seq(1..n)
      PROVE  /\ IsPrefix(s, Trail(m)) => IsPrefix(s, Append(Trail(m), x))
             /\ IsPrefix(s, sink[m]) => IsPrefix(s, Append(sink[m], x))
  BY <1>1, PrefixAppend
<1>6. QED
  BY <1>1, <1>2, <1>3, <1>4, <1>5 DEF n, x

\* What a manager writes: the stored trail or a continuation of it.
LEMMA PersistedFacts ==
    ASSUME TrailInv, NEW m \in Owner,
           NEW n, NEW memory,
           \/ n = recorded /\ memory = sink[m]
           \/ n = recorded + 1 /\ memory = Append(sink[m], recorded + 1)
    PROVE  /\ Persisted(m, memory) \in Seq(1..n) /\ IsInjective(Persisted(m, memory))
           /\ IsPrefix(row.log, Persisted(m, memory))
           /\ \A o \in Owner \ {m} :
                 working[o] = row.generation => Persisted(m, memory) = row.log
           /\ working[m] = row.generation => Persisted(m, memory) = baseline[m] \o memory
<1>1. /\ row.log \in Seq(1..recorded) /\ row.log \in Seq(1..n) /\ IsInjective(row.log)
      /\ IsPrefix(row.log, row.log)
  BY TrailType, WiderTypes, PrefixSelf DEF TrailInv
<1>2. working[m] = row.generation => Has(m)
  BY TrailType DEF Has
<1>3. CASE working[m] = row.generation
  <2>1. /\ IsPrefix(row.log, Trail(m)) /\ IsInjective(Trail(m)) /\ Trail(m) \in Seq(1..recorded)
        /\ \A o \in Owner : working[o] = row.generation => o = m
    BY <1>3, TrailType DEF TrailInv
  <2>2. Persisted(m, memory) = baseline[m] \o memory
    BY <1>2, <1>3 DEF Persisted
  <2>3. CASE n = recorded /\ memory = sink[m]
    BY <2>1, <2>2, <2>3 DEF Trail
  <2>4. CASE n = recorded + 1 /\ memory = Append(sink[m], recorded + 1)
    BY <1>1, <2>1, <2>2, <2>4, OneMoreEntry
  <2>5. QED
    BY <2>1, <2>2, <2>3, <2>4
<1>4. CASE working[m] # row.generation
  <2>1. Persisted(m, memory) = row.log
    BY <1>4 DEF Persisted
  <2>2. QED
    BY <1>1, <1>4, <2>1
<1>5. QED
  BY <1>3, <1>4

\* A manager gives its memory up; the row may have taken it over.
LEMMA ForgetInv ==
    ASSUME TrailInv, NEW m \in Owner, Forget(m), recorded' \in {recorded, recorded + 1},
           row' \in Checkpoints(recorded'), row'.generation = row.generation, IsInjective(row'.log),
           \A o \in Owner \ {m} : working[o] = row.generation => row'.log = row.log,
           UNCHANGED readings
    PROVE  TrailInv'
<1>1. /\ baseline \in [Owner -> Seq(1..recorded')] /\ sink \in [Owner -> Seq(1..recorded')]
      /\ \A r \in readings : r \in Readings(recorded') /\ recorded' \in Nat
  BY WiderTypes
<1>2. <<>> \in Seq(1..recorded') /\ <<>> \o <<>> = <<>> /\ IsInjective(<<>>)
  BY EmptySeq, ConcatEmptySeq DEF IsInjective
<1>3. /\ working \in [Owner -> Nat \cup {-1}] /\ row.generation \in Nat
      /\ recorded \in Nat
  BY TrailType DEF TrailInv, TrailTypeOK
<1>4. /\ working' = [working EXCEPT ![m] = -1]
      /\ baseline' = [baseline EXCEPT ![m] = <<>>] /\ sink' = [sink EXCEPT ![m] = <<>>]
  BY DEF Forget
<1>5. /\ baseline' \in [Owner -> Seq(1..recorded')] /\ sink' \in [Owner -> Seq(1..recorded')]
      /\ working' \in [Owner -> Nat \cup {-1}]
  BY <1>1, <1>2, <1>3, <1>4
<1>6. recorded' \in Nat
  BY <1>3
<1>7. TrailTypeOK'
  BY <1>1, <1>5, <1>6 DEF TrailTypeOK, Checkpoints, Readings
<1>8. /\ working'[m] = -1 /\ Trail(m)' = <<>>
      /\ \A o \in Owner \ {m} : /\ working'[o] = working[o] /\ sink'[o] = sink[o]
                               /\ Trail(o)' = Trail(o)
  BY <1>1, <1>2, <1>3, <1>4 DEF Trail
<1>9. \A o \in Owner : IsInjective(Trail(o)')
  BY <1>2, <1>8 DEF TrailInv
<1>10. ASSUME NEW o \in Owner
       PROVE  /\ working'[o] <= row'.generation
              /\ working'[o] = row'.generation =>
                    /\ IsPrefix(row'.log, Trail(o)')
                    /\ \A p \in Owner : working'[p] = row'.generation => p = o
  BY <1>3, <1>8 DEF TrailInv
<1>11. ASSUME NEW r \in readings'
       PROVE  /\ r.generation <= row'.generation
              /\ r.generation = working'[r.of] => IsPrefix(r.memory, sink'[r.of])
  <2>1. r \in readings /\ r \in Readings(recorded')
    BY <1>1
  <2>2. r.of \in Owner /\ r.generation \in Nat
    BY <2>1 DEF Readings
  <2>3. QED
    BY <1>8, <2>1, <2>2 DEF TrailInv
<1>12. QED
  BY <1>7, <1>9, <1>10, <1>11 DEF TrailInv

LEMMA RecordEntryInv ==
    ASSUME TrailInv, NEW m \in Owner, RecordEntry(m)
    PROVE  TrailInv' /\ IsPrefix(row.log, row'.log)
<1> DEFINE x == recorded + 1
<1>1. /\ recorded' = x /\ sink' = [sink EXCEPT ![m] = Append(@, x)]
      /\ UNCHANGED <<row, working, baseline, readings>>
  BY DEF RecordEntry
<1>2. /\ baseline \in [Owner -> Seq(1..x)] /\ sink \in [Owner -> Seq(1..x)] /\ x \in Nat
      /\ row \in Checkpoints(x) /\ \A r \in readings : r \in Readings(x)
  BY WiderTypes, TrailType
<1>3. /\ Append(sink[m], x) \in Seq(1..x)
      /\ baseline[m] \o Append(sink[m], x) = Append(Trail(m), x)
      /\ IsInjective(Append(Trail(m), x))
      /\ \A s \in Seq(1..recorded) :
            /\ IsPrefix(s, Trail(m)) => IsPrefix(s, Append(Trail(m), x))
            /\ IsPrefix(s, sink[m]) => IsPrefix(s, Append(sink[m], x))
  BY OneMoreEntry
<1> HIDE DEF x
<1>4. /\ sink' \in [Owner -> Seq(1..x)] /\ sink'[m] = Append(sink[m], x)
      /\ \A o \in Owner \ {m} : sink'[o] = sink[o] /\ Trail(o)' = Trail(o)
      /\ Trail(m)' = Append(Trail(m), x)
  BY <1>1, <1>2, <1>3 DEF Trail
<1>5. TrailTypeOK'
  BY <1>1, <1>2, <1>4 DEF TrailTypeOK, TrailInv, Checkpoints, Readings
<1>6. IsInjective(row'.log) /\ \A o \in Owner : IsInjective(Trail(o)')
  BY <1>1, <1>3, <1>4 DEF TrailInv
<1>7. row.log \in Seq(1..recorded)
  BY TrailType
<1>8. ASSUME NEW o \in Owner
      PROVE  /\ working'[o] <= row'.generation
             /\ working'[o] = row'.generation =>
                   /\ IsPrefix(row'.log, Trail(o)')
                   /\ \A p \in Owner : working'[p] = row'.generation => p = o
  BY <1>1, <1>3, <1>4, <1>7 DEF TrailInv
<1>9. ASSUME NEW r \in readings'
      PROVE  /\ r.generation <= row'.generation
             /\ r.generation = working'[r.of] => IsPrefix(r.memory, sink'[r.of])
  <2>1. r \in readings /\ r.of \in Owner /\ r.memory \in Seq(1..recorded)
    BY <1>1 DEF TrailInv, TrailTypeOK
  <2>2. QED
    BY <1>1, <1>3, <1>4, <2>1 DEF TrailInv
<1>10. TrailInv'
  BY <1>5, <1>6, <1>8, <1>9 DEF TrailInv
<1>11. QED
  BY <1>1, <1>7, <1>10, PrefixSelf

LEMMA PauseTrailInv ==
    ASSUME TrailInv, NEW m \in Owner, PauseTrail(m)
    PROVE  TrailInv' /\ IsPrefix(row.log, row'.log)
<1> DEFINE written == Persisted(m, sink[m])
<1>1. /\ row \in Checkpoints(recorded) /\ written \in Seq(1..recorded) /\ IsInjective(written)
      /\ IsPrefix(row.log, written)
      /\ \A o \in Owner \ {m} : working[o] = row.generation => written = row.log
      /\ working[m] = row.generation => written = Trail(m)
  BY TrailType, PersistedFacts DEF Trail
<1>2. /\ row' = [row EXCEPT !.log = written]
      /\ UNCHANGED <<working, baseline, sink, recorded, readings>>
  BY DEF PauseTrail
<1> HIDE DEF written
<1>3. row' \in Checkpoints(recorded) /\ row'.log = written /\ row'.generation = row.generation
  BY <1>1, <1>2 DEF Checkpoints
<1>4. TrailTypeOK'
  BY <1>2, <1>3 DEF TrailInv, TrailTypeOK, Checkpoints
<1>5. \A o \in Owner : Trail(o)' = Trail(o)
  BY <1>2 DEF Trail
<1>6. IsPrefix(Trail(m), Trail(m))
  BY TrailType, PrefixSelf
<1>7. ASSUME NEW o \in Owner
      PROVE  /\ working'[o] <= row'.generation
             /\ working'[o] = row'.generation =>
                   /\ IsPrefix(row'.log, Trail(o)')
                   /\ \A p \in Owner : working'[p] = row'.generation => p = o
  BY <1>1, <1>2, <1>3, <1>5, <1>6 DEF TrailInv
<1>8. TrailInv'
  BY <1>1, <1>2, <1>3, <1>4, <1>5, <1>7 DEF TrailInv
<1>9. QED
  BY <1>1, <1>3, <1>8

LEMMA ResumeTrailInv ==
    ASSUME TrailInv, NEW m \in Owner, ResumeTrail(m)
    PROVE  TrailInv' /\ IsPrefix(row.log, row'.log)
<1> DEFINE written == Persisted(m, sink[m])
           new == row.generation + 1
<1>1. /\ row \in Checkpoints(recorded) /\ written \in Seq(1..recorded) /\ IsInjective(written)
      /\ IsPrefix(row.log, written) /\ row.generation \in Nat
  BY TrailType, PersistedFacts
<1>2. /\ row' = [row EXCEPT !.log = written, !.generation = @ + 1]
      /\ working' = [working EXCEPT ![m] = new]
      /\ baseline' = [baseline EXCEPT ![m] = row'.log] /\ sink' = [sink EXCEPT ![m] = <<>>]
      /\ UNCHANGED <<recorded, readings>>
  BY DEF ResumeTrail
<1> HIDE DEF written
<1>3. row' \in Checkpoints(recorded) /\ row'.log = written /\ row'.generation = new /\ new \in Nat
  <2> DEFINE middle == [row EXCEPT !.log = written]
  <2>1. /\ middle \in Checkpoints(recorded) /\ middle.log = written
        /\ middle.generation = row.generation
    BY <1>1 DEF Checkpoints
  <2>2. row' = [middle EXCEPT !.generation = @ + 1]
    BY <1>2
  <2> HIDE DEF middle
  <2>3. row' = [middle EXCEPT !.generation = new]
    BY <2>1, <2>2
  <2>4. new \in Nat
    BY <1>1
  <2> HIDE DEF new
  <2>5. QED
    BY <2>1, <2>3, <2>4 DEF Checkpoints
<1> HIDE DEF new
<1>4. /\ working \in [Owner -> Nat \cup {-1}] /\ baseline \in [Owner -> Seq(1..recorded)]
      /\ sink \in [Owner -> Seq(1..recorded)]
  BY DEF TrailInv, TrailTypeOK
<1>5. <<>> \in Seq(1..recorded) /\ written \o <<>> = written
  BY <1>1, EmptySeq, ConcatEmptySeq
<1>6. /\ working' \in [Owner -> Nat \cup {-1}] /\ baseline' \in [Owner -> Seq(1..recorded)]
      /\ sink' \in [Owner -> Seq(1..recorded)]
  BY <1>1, <1>2, <1>3, <1>4, <1>5
<1>7. TrailTypeOK'
  BY <1>2, <1>3, <1>6 DEF TrailInv, TrailTypeOK, Checkpoints
<1>8. /\ working'[m] = new /\ Trail(m)' = written
      /\ \A o \in Owner \ {m} : working'[o] = working[o] /\ sink'[o] = sink[o] /\ Trail(o)' = Trail(o)
  BY <1>2, <1>3, <1>4, <1>5 DEF Trail
<1>9. \A o \in Owner : IsInjective(Trail(o)')
  BY <1>1, <1>8 DEF TrailInv
<1>10. \A o \in Owner : working[o] < new
  <2> SUFFICES ASSUME NEW o \in Owner PROVE working[o] < new
    OBVIOUS
  <2>1. working[o] \in Nat \cup {-1} /\ working[o] <= row.generation
    BY <1>4 DEF TrailInv
  <2>2. QED
    BY <1>1, <2>1 DEF new
<1>11. IsPrefix(written, written)
  BY <1>1, PrefixSelf
<1>12. ASSUME NEW o \in Owner
       PROVE  /\ working'[o] <= row'.generation
              /\ working'[o] = row'.generation =>
                    /\ IsPrefix(row'.log, Trail(o)')
                    /\ \A p \in Owner : working'[p] = row'.generation => p = o
  <2>1. CASE o = m
    <3>1. \A p \in Owner \ {m} : working'[p] # new
      BY <1>3, <1>4, <1>8, <1>10
    <3>2. QED
      BY <1>3, <1>8, <1>11, <2>1, <3>1
  <2>2. CASE o # m
    <3>1. working'[o] < new /\ working'[o] # new
      BY <1>3, <1>4, <1>8, <1>10, <2>2
    <3>2. QED
      BY <1>3, <1>6, <3>1
  <2>3. QED
    BY <2>1, <2>2
<1>13. ASSUME NEW r \in readings'
       PROVE  /\ r.generation <= row'.generation
              /\ r.generation = working'[r.of] => IsPrefix(r.memory, sink'[r.of])
  <2>1. /\ r \in readings /\ r.of \in Owner /\ r.generation \in Nat
        /\ r.generation <= row.generation
    BY <1>2 DEF TrailInv, TrailTypeOK
  <2>2. r.generation <= new /\ r.generation # new
    BY <1>1, <2>1 DEF new
  <2>3. CASE r.of = m
    BY <1>3, <1>8, <2>2, <2>3
  <2>4. CASE r.of # m
    BY <1>3, <1>8, <2>1, <2>2, <2>4 DEF TrailInv
  <2>5. QED
    BY <2>3, <2>4
<1>14. TrailInv'
  BY <1>1, <1>3, <1>7, <1>9, <1>12, <1>13 DEF TrailInv
<1>15. QED
  BY <1>1, <1>3, <1>14

LEMMA StopTrailInv ==
    ASSUME TrailInv, NEW m \in Owner, StopTrail(m)
    PROVE  TrailInv' /\ IsPrefix(row.log, row'.log)
<1>1. /\ row \in Checkpoints(recorded) /\ row.log \in Seq(1..recorded)
      /\ IsPrefix(row.log, row.log) /\ IsInjective(row.log)
      /\ Forget(m) /\ UNCHANGED readings
  BY TrailType, PrefixSelf DEF TrailInv, StopTrail
<1>2. CASE Has(m)
  <2> DEFINE memory == Append(sink[m], recorded + 1)
             written == Persisted(m, memory)
  <2>1. /\ written \in Seq(1..(recorded + 1)) /\ IsInjective(written)
        /\ IsPrefix(row.log, written)
        /\ \A o \in Owner \ {m} : working[o] = row.generation => written = row.log
    BY PersistedFacts
  <2>2. recorded' = recorded + 1 /\ row' = [row EXCEPT !.log = written]
    BY <1>2 DEF StopTrail
  <2> HIDE DEF written, memory
  <2>3. row' \in Checkpoints(recorded') /\ row'.log = written /\ row'.generation = row.generation
    BY <1>1, <2>1, <2>2 DEF Checkpoints
  <2>4. QED
    BY <1>1, <2>1, <2>2, <2>3, ForgetInv
<1>3. CASE ~Has(m)
  <2>1. UNCHANGED <<row, recorded>>
    BY <1>3 DEF StopTrail
  <2>2. TrailInv'
    BY <1>1, <2>1, ForgetInv
  <2>3. QED
    BY <1>1, <2>1, <2>2
<1>4. QED
  BY <1>2, <1>3

LEMMA TrailInvStep ==
    TrailInv /\ [TrailNext]_trailVars => TrailInv' /\ IsPrefix(row.log, row'.log)
<1> SUFFICES ASSUME TrailInv, [TrailNext]_trailVars
             PROVE  TrailInv' /\ IsPrefix(row.log, row'.log)
  OBVIOUS
<1>1. \A m \in Owner : /\ row \in Checkpoints(recorded) /\ row.log \in Seq(1..recorded)
                      /\ sink[m] \in Seq(1..recorded) /\ row.generation \in Nat
  BY TrailType
<1>2. ASSUME UNCHANGED <<recorded, working, baseline, sink>>, row' \in Checkpoints(recorded),
             row'.log = row.log, row'.generation = row.generation, readings' = {} \/ UNCHANGED readings
      PROVE  TrailInv'
  BY <1>2 DEF TrailInv, TrailTypeOK, Trail, Checkpoints
<1>3. ASSUME NEW m \in Owner, Forget(m), UNCHANGED <<row, recorded, readings>> PROVE TrailInv'
  BY <1>1, <1>3, ForgetInv DEF TrailInv
<1>4. ASSUME NEW m \in Owner, CopySink(m) PROVE TrailInv' /\ UNCHANGED row
  <2> DEFINE r == [of |-> m, generation |-> working[m], memory |-> sink[m]]
  <2>1. /\ readings' = {r} /\ UNCHANGED <<row, working, baseline, sink, recorded>>
        /\ working[m] # -1
    BY <1>4 DEF CopySink, Has
  <2>2. working[m] \in Nat /\ working[m] <= row.generation /\ sink[m] \in Seq(1..recorded)
    BY <1>1, <2>1 DEF TrailInv, TrailTypeOK
  <2>3. IsPrefix(sink[m], sink[m])
    BY <2>2, PrefixSelf
  <2>4. /\ r \in [of : Owner, generation : Nat, memory : Seq(1..recorded)]
        /\ r.of = m /\ r.generation = working[m] /\ r.memory = sink[m]
    BY <2>2
  <2> HIDE DEF r
  <2>5. QED
    BY <2>1, <2>2, <2>3, <2>4 DEF TrailInv, TrailTypeOK, Trail
<1>5. CASE \E m \in Owner : \/ RecordEntry(m) \/ PauseTrail(m) \/ ResumeTrail(m) \/ StopTrail(m)
  BY <1>5, RecordEntryInv, PauseTrailInv, ResumeTrailInv, StopTrailInv
<1>6. CASE \E m \in Owner : StopSaveFails(m) \/ LeaveTrail(m)
  <2>1. TrailInv' /\ UNCHANGED row
    BY <1>3, <1>6 DEF StopSaveFails, LeaveTrail
  <2>2. QED
    BY <1>1, <1>6, <2>1, PrefixSelf
<1>7. CASE \E m \in Owner : CopySink(m)
  BY <1>1, <1>4, <1>7, PrefixSelf
<1>8. ASSUME UNCHANGED row \/ ExpireTrail
      PROVE  /\ row' \in Checkpoints(recorded) /\ row'.log = row.log
             /\ row'.generation = row.generation /\ IsPrefix(row.log, row'.log)
  <2>1. row \in Checkpoints(recorded) /\ row.log \in Seq(1..recorded)
    BY DEF TrailInv, TrailTypeOK, Checkpoints
  <2>2. row' \in Checkpoints(recorded) /\ row'.log = row.log /\ row'.generation = row.generation
    BY <1>8, <2>1 DEF ExpireTrail, Checkpoints
  <2>3. QED
    BY <2>1, <2>2, PrefixSelf
<1>9. CASE ExpireTrail \/ ReadBaseline \/ UNCHANGED trailVars
  BY <1>2, <1>8, <1>9 DEF ExpireTrail, ReadBaseline, trailVars
<1>10. QED
  BY <1>5, <1>6, <1>7, <1>9 DEF TrailNext

\* The stored trail is only ever added to, and no entry is in it twice, stored or as
\* a manager shows it (session.py:318-349, 467-480, 518-527).
THEOREM TrailOnlyGrows == TrailSpec => TrailIsKept
<1>1. TrailInv => ~Repeats
  <2> SUFFICES ASSUME TrailInv, NEW r \in readings, r.generation = working[r.of]
               PROVE  IsInjective(Shown(r))
    BY DEF TrailInv, Repeats
  <2>1. r.of \in Owner /\ r.memory \in Seq(1..recorded) /\ IsPrefix(r.memory, sink[r.of])
    BY DEF TrailInv, TrailTypeOK
  <2>2. /\ baseline[r.of] \in Seq(1..recorded) /\ sink[r.of] \in Seq(1..recorded)
        /\ IsInjective(Trail(r.of)) /\ Trail(r.of) \in Seq(1..recorded)
    BY <2>1, TrailType DEF TrailInv
  <2>3. IsPrefix(Shown(r), Trail(r.of)) /\ Shown(r) \in Seq(1..recorded)
    BY <2>1, <2>2, PrefixConcat, ConcatProperties DEF Shown, Trail
  <2>4. QED
    BY <2>2, <2>3, PrefixInjective
<1>2. TrailInv /\ [TrailNext]_trailVars => [IsPrefix(row.log, row'.log)]_trailVars
  BY TrailInvStep
<1>3. QED
  BY TrailInvInit, TrailInvStep, <1>1, <1>2, PTL DEF TrailSpec, TrailIsKept

-----------------------------------------------------------------------------
(* Telemetry. *)

LEMMA TelemetryInvInit == TelemetryInit => TelemetryInv
<1> SUFFICES ASSUME TelemetryInit PROVE TelemetryInv
  OBVIOUS
<1>1. /\ records = <<>> /\ calls = <<>> /\ maxRecords \in Nat /\ DOMAIN pricing = {}
  BY TelemetryAssumption DEF TelemetryInit
<1>2. <<>> \in Seq(Entries) /\ Len(<<>>) = 0
  BY EmptySeq
<1>3. NewestRecords(<<>>, maxRecords) = <<>>
  BY <1>1, <1>2 DEF NewestRecords
<1>4. QED
  BY <1>1, <1>2, <1>3 DEF TelemetryInv, RecordsAreNewest

\* Beyond 0, which keeps everything, the newest n are the last n.
LEMMA NewestIsLast ==
    ASSUME NEW S, NEW s \in Seq(S), NEW n \in Nat \ {0}
    PROVE  NewestRecords(s, n) = LastOf(s, n)
BY LenProperties DEF NewestRecords, LastOf

LEMMA EvictedIsNewest ==
    ASSUME NEW S, NEW s \in Seq(S), maxRecords \in Nat
    PROVE  Evicted(s) = NewestRecords(s, maxRecords)
BY LenProperties DEF Evicted, NewestRecords

LEMMA TokensAreNumbers == Token \subseteq Nat
BY TelemetryAssumption, Zenon

LEMMA RecordToolCallInv ==
    ASSUME TelemetryInv, NEW t \in Observed, NEW a \in Agent, NEW m \in Model,
           NEW i \in Token, NEW o \in Token, RecordToolCall(t, a, m, i, o)
    PROVE  TelemetryInv'
<1> DEFINE entry == [tool |-> t, agent |-> a, model |-> m, input |-> i, output |-> o,
                     cost |-> Cost(m, i + o)]
<1>1. /\ records' = Evicted(Append(records, entry)) /\ calls' = Append(calls, entry)
      /\ UNCHANGED <<maxRecords, pricing>>
  BY DEF RecordToolCall
<1>2. entry \in Entries
  <2>1. i + o \in Nat
    <3>1. i \in Nat /\ o \in Nat
      BY TokensAreNumbers
    <3>2. QED
      BY <3>1
  <2>2. Cost(m, i + o) \in Nat
    <3>1. \A x, y \in Nat : x * y \in Nat
      OBVIOUS
    <3>2. QED
      BY <2>1, <3>1 DEF TelemetryInv, Cost
  <2>3. QED
    BY <2>2 DEF Entries
<1> HIDE DEF entry
<1>3. maxRecords \in Nat /\ calls \in Seq(Entries) /\ records = NewestRecords(calls, maxRecords)
  BY DEF TelemetryInv, RecordsAreNewest
<1>4. calls' \in Seq(Entries)
  BY <1>1, <1>2, <1>3, AppendProperties
<1>5. CASE maxRecords = 0
  <2>1. \A s : NewestRecords(s, maxRecords) = s
    BY <1>5 DEF NewestRecords
  <2>2. \A s : Evicted(s) = s
    BY <2>1 DEF Evicted
  <2>3. records' = calls'
    BY <1>1, <1>3, <2>1, <2>2
  <2>4. QED
    BY <1>1, <1>4, <2>1, <2>3 DEF TelemetryInv, RecordsAreNewest
<1>6. CASE maxRecords # 0
  <2>1. records = LastOf(calls, maxRecords) /\ records \in Seq(Entries)
    BY <1>3, <1>6, NewestIsLast, LastOfElements
  <2>2. Append(records, entry) \in Seq(Entries)
    BY <1>2, <2>1, AppendProperties
  <2>3. records' = LastOf(Append(records, entry), maxRecords)
    BY <1>1, <1>3, <1>6, <2>2, EvictedIsNewest, NewestIsLast
  <2>4. records' = LastOf(calls', maxRecords)
    BY <1>1, <1>2, <1>3, <1>6, <2>1, <2>3, LastOfAppend
  <2>5. records' = NewestRecords(calls', maxRecords)
    BY <1>3, <1>4, <1>6, <2>4, NewestIsLast
  <2>6. QED
    BY <1>1, <1>3, <1>4, <2>5 DEF TelemetryInv, RecordsAreNewest
<1>7. QED
  BY <1>5, <1>6

LEMMA TelemetryInvStep == TelemetryInv /\ [TelemetryNext]_telemetryVars => TelemetryInv'
<1> SUFFICES ASSUME TelemetryInv, [TelemetryNext]_telemetryVars PROVE TelemetryInv'
  OBVIOUS
<1>1. ASSUME NEW m \in Model \ {""}, NEW p \in Price, SetModel(m, p) PROVE TelemetryInv'
  <2>1. \A l \in DOMAIN pricing' : pricing'[l] \in Nat
    BY <1>1, TelemetryAssumption DEF SetModel, TelemetryInv
  <2>2. QED
    BY <1>1, <2>1 DEF SetModel, TelemetryInv, RecordsAreNewest
<1>2. CASE UNCHANGED telemetryVars
  BY <1>2 DEF telemetryVars, TelemetryInv, RecordsAreNewest
<1>3. QED
  BY <1>1, <1>2, RecordToolCallInv DEF TelemetryNext

\* The Observer holds the newest max_records calls, each at the price of its moment
\* (observe.py:424-428): what the summaries add up.
THEOREM ObserverHoldsNewest == TelemetrySpec => []RecordsAreNewest
<1>1. TelemetryInv => RecordsAreNewest
  BY DEF TelemetryInv
<1>2. QED
  BY TelemetryInvInit, TelemetryInvStep, <1>1, PTL DEF TelemetrySpec

\* Induction over the naturals, of a set and not of an operator.
LEMMA LeastNatural ==
    ASSUME NEW T, T \subseteq Nat, T # {}
    PROVE  \E x \in T : \A y \in T : x <= y
<1> DEFINE R == OpToRel(<, Nat)
<1>1. \A x, y : <<y, x>> \in R <=> x \in Nat /\ y \in Nat /\ y < x
  BY DEF OpToRel
<1>2. \E x \in T : \A y \in T : <<y, x>> \notin R
  BY NatLessThanWellFounded, WFMin
<1> HIDE DEF R
<1>3. PICK x \in T : \A y \in T : <<y, x>> \notin R
  BY <1>2
<1>4. ASSUME NEW y \in T PROVE x <= y
  <2>1. <<y, x>> \notin R
    BY <1>3
  <2>2. ~(y < x)
    BY <2>1, <1>1, Zenon
  <2>3. QED
    BY <2>2
<1>5. QED
  BY <1>4

LEMMA NaturalInduction ==
    ASSUME NEW S, 0 \in S, \A n \in Nat : n \in S => n + 1 \in S
    PROVE  Nat \subseteq S
<1> DEFINE T == Nat \ S
<1>1. T \subseteq Nat
  OBVIOUS
<1>2. SUFFICES ASSUME T # {} PROVE FALSE
  OBVIOUS
<1>3. PICK x \in T : \A y \in T : x <= y
  <2> HIDE DEF T
  <2>1. QED
    BY <1>1, <1>2, LeastNatural
<1>4. x # 0 /\ x - 1 \in Nat
  OBVIOUS
<1>5. x - 1 \notin T
  BY <1>3, <1>4
<1>6. QED
  BY <1>4, <1>5

\* A family of sets that holds each finite set T once it holds what is left of T
\* without one element holds all of them.
LEMMA SubsetInduction ==
    ASSUME NEW S, IsFiniteSet(S), NEW P,
           \A T \in SUBSET S : (\A x \in T : T \ {x} \in P) => T \in P
    PROVE  SUBSET S \subseteq P
<1> DEFINE N == {n \in Nat : \A T \in SUBSET S : Cardinality(T) = n => T \in P}
<1>1. \A T \in SUBSET S : IsFiniteSet(T) /\ Cardinality(T) \in Nat
  BY FS_Subset, FS_CardinalityType
<1>2. 0 \in N
  BY <1>1, FS_EmptySet
<1>3. ASSUME NEW n \in Nat, n \in N PROVE n + 1 \in N
  <2>1. SUFFICES ASSUME NEW T \in SUBSET S, Cardinality(T) = n + 1 PROVE T \in P
    OBVIOUS
  <2>2. ASSUME NEW x \in T PROVE T \ {x} \in P
    <3>1. T \ {x} \in SUBSET S
      OBVIOUS
    <3>2. Cardinality(T \ {x}) = n
      BY <1>1, <2>1, FS_RemoveElement
    <3>3. QED
      BY <1>3, <3>1, <3>2
  <2>3. QED
    BY <2>2
<1>4. Nat \subseteq N
  <2> HIDE DEF N
  <2>1. QED
    BY <1>2, <1>3, NaturalInduction
<1>5. QED
  BY <1>1, <1>4

\* SumFunctionOnSet takes Some element of a set and sums the rest.
Some(s) == CHOOSE x \in s : TRUE

Summed(f, g, s) == IF s = {} THEN 0 ELSE f[Some(s)] + g[s \ {Some(s)}]

SumsOf(f, F, g) == g = [s \in F |-> Summed(f, g, s)]

LEMMA SumIsChosen ==
    ASSUME NEW f, NEW S
    PROVE  SumFunctionOnSet(f, S) = (CHOOSE g : SumsOf(f, SUBSET S, g))[S]
BY Zenon DEF SumFunctionOnSet, FoldFunctionOnSet, MapThenFoldSet, Some, Summed, SumsOf

LEMMA SomeOf == ASSUME NEW s, s # {} PROVE Some(s) \in s
BY DEF Some

LEMMA SumsExist ==
    ASSUME NEW f, NEW S, IsFiniteSet(S)
    PROVE  \E g : SumsOf(f, SUBSET S, g)
<1> DEFINE Small(n) == {s \in SUBSET S : Cardinality(s) <= n}
           N == {n \in Nat : \E g : SumsOf(f, Small(n), g)}
<1>1. \A T \in SUBSET S : IsFiniteSet(T) /\ Cardinality(T) \in Nat
  BY FS_Subset, FS_CardinalityType
<1>2. ASSUME NEW n \in Nat, NEW s \in Small(n), s # {}
      PROVE  s \ {Some(s)} \in Small(n) /\ (n > 0 => s \ {Some(s)} \in Small(n - 1))
  <2>1. Cardinality(s \ {Some(s)}) = Cardinality(s) - 1
    BY <1>1, <1>2, SomeOf, FS_RemoveElement
  <2>2. QED
    BY <1>1, <2>1
<1>3. 0 \in N
  <2> DEFINE g == [s \in Small(0) |-> 0]
  <2>1. ASSUME NEW s \in Small(0) PROVE s = {}
    BY <1>1, FS_EmptySet
  <2>2. SumsOf(f, Small(0), g)
    BY <2>1 DEF SumsOf, Summed
  <2>3. QED
    BY <2>2
<1>4. ASSUME NEW n \in Nat, n \in N PROVE n + 1 \in N
  <2>1. PICK g : SumsOf(f, Small(n), g)
    BY <1>4
  <2> DEFINE h == [s \in Small(n + 1) |-> Summed(f, g, s)]
  <2>2. ASSUME NEW s \in Small(n) PROVE h[s] = g[s]
    <3>1. s \in Small(n + 1)
      BY <1>1
    <3>2. h[s] = Summed(f, g, s)
      BY <3>1
    <3>3. g[s] = Summed(f, g, s)
      BY <2>1 DEF SumsOf
    <3>4. QED
      BY <3>2, <3>3
  <2>3. ASSUME NEW s \in Small(n + 1) PROVE Summed(f, g, s) = Summed(f, h, s)
    <3>1. CASE s = {}
      BY <3>1 DEF Summed
    <3>2. CASE s # {}
      <4>1. s \ {Some(s)} \in Small(n)
        BY <1>2, <3>2
      <4>2. h[s \ {Some(s)}] = g[s \ {Some(s)}]
        BY <2>2, <4>1
      <4> HIDE DEF h, Small
      <4>3. QED
        BY <3>2, <4>2 DEF Summed
    <3>3. QED
      BY <3>1, <3>2
  <2>4. SumsOf(f, Small(n + 1), h)
    BY <2>3 DEF SumsOf
  <2> HIDE DEF h, Small
  <2>5. \E k : SumsOf(f, Small(n + 1), k)
    BY <2>4
  <2>6. QED
    BY <2>5
<1>5. Cardinality(S) \in N
  <2>1. Nat \subseteq N
    <3> HIDE DEF N
    <3>1. QED
      BY <1>3, <1>4, NaturalInduction
  <2>2. QED
    BY <1>1, <2>1
<1>6. Small(Cardinality(S)) = SUBSET S
  BY FS_Subset
<1>7. QED
  BY <1>5, <1>6

LEMMA SumsAgree ==
    ASSUME NEW f, NEW S, IsFiniteSet(S), NEW T \in SUBSET S, NEW g, NEW h,
           SumsOf(f, SUBSET S, g), SumsOf(f, SUBSET T, h)
    PROVE  g[T] = h[T]
<1> DEFINE P == {U \in SUBSET T : g[U] = h[U]}
<1>1. ASSUME NEW U \in SUBSET T, \A x \in U : U \ {x} \in P PROVE U \in P
  <2>1. g[U] = Summed(f, g, U) /\ h[U] = Summed(f, h, U)
    BY DEF SumsOf
  <2>2. CASE U = {}
    BY <2>1, <2>2 DEF Summed
  <2>3. CASE U # {}
    <3>1. g[U \ {Some(U)}] = h[U \ {Some(U)}]
      BY <1>1, <2>3, SomeOf
    <3>2. g[U] = h[U]
      BY <2>1, <2>3, <3>1 DEF Summed
    <3>3. QED
      BY <3>2
  <2>4. QED
    BY <2>2, <2>3
<1>2. IsFiniteSet(T)
  BY FS_Subset
<1>3. SUBSET T \subseteq P
  <2> HIDE DEF P
  <2>1. QED
    BY <1>1, <1>2, SubsetInduction
<1>4. QED
  BY <1>3

LEMMA SumSteps ==
    ASSUME NEW f, NEW S, IsFiniteSet(S)
    PROVE  /\ S = {} => SumFunctionOnSet(f, S) = 0
           /\ S # {} => SumFunctionOnSet(f, S) =
                          f[Some(S)] + SumFunctionOnSet(f, S \ {Some(S)})
<1> DEFINE G(T) == CHOOSE g : SumsOf(f, SUBSET T, g)
<1>1. ASSUME NEW T \in SUBSET S PROVE SumsOf(f, SUBSET T, G(T)) /\ SumFunctionOnSet(f, T) = G(T)[T]
  <2>1. IsFiniteSet(T)
    BY FS_Subset
  <2>2. \E g : SumsOf(f, SUBSET T, g)
    BY <2>1, SumsExist
  <2>3. QED
    BY <2>2, SumIsChosen
<1> HIDE DEF G
<1>2. SumFunctionOnSet(f, S) = Summed(f, G(S), S)
  BY <1>1 DEF SumsOf
<1>3. CASE S = {}
  BY <1>2, <1>3 DEF Summed
<1>4. CASE S # {}
  <2>1. S \ {Some(S)} \in SUBSET S
    OBVIOUS
  <2> DEFINE T == S \ {Some(S)}
  <2>2. SumsOf(f, SUBSET S, G(S)) /\ SumsOf(f, SUBSET T, G(T)) /\ SumFunctionOnSet(f, T) = G(T)[T]
    BY <1>1, <2>1
  <2>3. G(S)[T] = G(T)[T]
    <3>1. T \in SUBSET S
      BY <2>1
    <3> HIDE DEF T
    <3>2. QED
      BY <2>2, <3>1, SumsAgree
  <2>4. QED
    BY <1>2, <1>4, <2>2, <2>3 DEF Summed
<1>5. QED
  BY <1>3, <1>4

LEMMA SumIsNatural ==
    ASSUME NEW f, NEW S, IsFiniteSet(S), \A i \in S : f[i] \in Nat
    PROVE  SumFunctionOnSet(f, S) \in Nat
<1> DEFINE Sum(T) == SumFunctionOnSet(f, T)
           P == {T \in SUBSET S : Sum(T) \in Nat}
<1>1. ASSUME NEW T \in SUBSET S, \A x \in T : T \ {x} \in P PROVE T \in P
  <2>1. IsFiniteSet(T)
    BY FS_Subset
  <2>2. /\ T = {} => Sum(T) = 0
        /\ T # {} => Sum(T) = f[Some(T)] + Sum(T \ {Some(T)})
    BY <2>1, SumSteps
  <2> HIDE DEF Sum
  <2>3. QED
    BY <1>1, <2>2, SomeOf
<1>2. SUBSET S \subseteq P
  <2> HIDE DEF P
  <2>1. QED
    BY <1>1, SubsetInduction
<1>3. QED
  BY <1>2

\* A sum does not depend on the order in which its terms are taken.
LEMMA SumTakesOut ==
    ASSUME NEW f, NEW S, IsFiniteSet(S), \A i \in S : f[i] \in Nat
    PROVE  \A x \in S : SumFunctionOnSet(f, S) = f[x] + SumFunctionOnSet(f, S \ {x})
<1> DEFINE Sum(T) == SumFunctionOnSet(f, T)
           P == {T \in SUBSET S : \A x \in T : Sum(T) = f[x] + Sum(T \ {x})}
<1>1. ASSUME NEW T \in SUBSET S PROVE Sum(T) \in Nat
  <2>1. IsFiniteSet(T)
    BY FS_Subset
  <2>2. QED
    BY <2>1, SumIsNatural
<1>2. ASSUME NEW T \in SUBSET S, \A x \in T : T \ {x} \in P PROVE T \in P
  <2>1. SUFFICES ASSUME NEW x \in T PROVE Sum(T) = f[x] + Sum(T \ {x})
    OBVIOUS
  <2> DEFINE p == Some(T)
             U == T \ {p, x}
  <2>2. p \in T
    BY SomeOf
  <2>3. Sum(T) = f[p] + Sum(T \ {p})
    <3>1. IsFiniteSet(T)
      BY FS_Subset
    <3>2. QED
      BY <3>1, SumSteps
  <2> HIDE DEF Sum, p
  <2>4. CASE x = p
    BY <2>3, <2>4
  <2>5. CASE x # p
    <3>1. (T \ {p}) \ {x} = U /\ (T \ {x}) \ {p} = U
      OBVIOUS
    <3>2. Sum(T \ {p}) = f[x] + Sum((T \ {p}) \ {x})
      BY <1>2, <2>2, <2>5
    <3>3. Sum(T \ {x}) = f[p] + Sum((T \ {x}) \ {p})
      BY <1>2, <2>2, <2>5
    <3>4. Sum(U) \in Nat /\ f[x] \in Nat /\ f[p] \in Nat
      BY <1>1, <2>2
    <3> HIDE DEF U
    <3>5. Sum(T \ {p}) = f[x] + Sum(U) /\ Sum(T \ {x}) = f[p] + Sum(U)
      BY <3>1, <3>2, <3>3
    <3>6. f[p] + (f[x] + Sum(U)) = f[x] + (f[p] + Sum(U))
      BY <3>4
    <3>7. QED
      BY <2>3, <3>5, <3>6
  <2>6. QED
    BY <2>4, <2>5
<1>3. SUBSET S \subseteq P
  <2> HIDE DEF P
  <2>1. QED
    BY <1>2, SubsetInduction
<1>4. QED
  BY <1>3

LEMMA SumSplits ==
    ASSUME NEW f, NEW S, IsFiniteSet(S), \A i \in S : f[i] \in Nat, NEW T \in SUBSET S
    PROVE  SumFunctionOnSet(f, S) = SumFunctionOnSet(f, T) + SumFunctionOnSet(f, S \ T)
<1> DEFINE Sum(U) == SumFunctionOnSet(f, U)
           P == {U \in SUBSET S : Sum(S) = Sum(U) + Sum(S \ U)}
<1>1. ASSUME NEW U \in SUBSET S
      PROVE  Sum(U) \in Nat /\ \A x \in U : Sum(U) = f[x] + Sum(U \ {x})
  <2>1. IsFiniteSet(U)
    BY FS_Subset
  <2>2. QED
    BY <2>1, SumIsNatural, SumTakesOut
<1>2. ASSUME NEW U \in SUBSET S, \A x \in U : U \ {x} \in P PROVE U \in P
  <2>1. CASE U = {}
    <3>1. Sum({}) = 0
      BY FS_EmptySet, SumSteps
    <3>2. S \ {} = S
      OBVIOUS
    <3> HIDE DEF Sum
    <3>3. QED
      BY <1>1, <2>1, <3>1, <3>2
  <2>2. CASE U # {}
    <3> HIDE DEF Sum
    <3>1. PICK x \in U : TRUE
      BY <2>2
    <3> DEFINE V == S \ (U \ {x})
    <3>2. Sum(S) = Sum(U \ {x}) + Sum(V)
      BY <1>2
    <3>3. V \in SUBSET S /\ x \in V /\ V \ {x} = S \ U
      OBVIOUS
    <3> HIDE DEF V
    <3>4. Sum(V) = f[x] + Sum(S \ U)
      BY <1>1, <3>3
    <3>5. Sum(U) = f[x] + Sum(U \ {x})
      BY <1>1
    <3>6. Sum(U \ {x}) \in Nat /\ Sum(S \ U) \in Nat /\ f[x] \in Nat
      BY <1>1
    <3>7. Sum(S) = Sum(U) + Sum(S \ U)
      BY <3>2, <3>4, <3>5, <3>6
    <3>8. QED
      BY <3>7
  <2>3. QED
    BY <2>1, <2>2
<1>3. SUBSET S \subseteq P
  <2> HIDE DEF P
  <2>1. QED
    BY <1>2, SubsetInduction
<1>4. QED
  BY <1>3

\* What a key sorts under d, and the sums of what it sorts under each.
Under(key, S, d) == {i \in S : key[i] = d}

SumsUnder(f, key, S, D) == [d \in D |-> SumFunctionOnSet(f, Under(key, S, d))]

\* What is sorted into rows by a key adds up to the whole, row by row.
LEMMA SumOfParts ==
    ASSUME NEW f, NEW S, IsFiniteSet(S), \A i \in S : f[i] \in Nat,
           NEW D, IsFiniteSet(D), NEW key, \A i \in S : key[i] \in D
    PROVE  SumFunction(SumsUnder(f, key, S, D)) = SumFunctionOnSet(f, S)
<1> DEFINE Sum(U) == SumFunctionOnSet(f, U)
           part == [d \in D |-> Sum({i \in S : key[i] = d})]
           Of(E) == {i \in S : key[i] \in E}
           P == {E \in SUBSET D : SumFunctionOnSet(part, E) = Sum(Of(E))}
<1>1. \A d \in D : part[d] \in Nat
  <2>1. SUFFICES ASSUME NEW d \in D PROVE Sum({i \in S : key[i] = d}) \in Nat
    OBVIOUS
  <2> DEFINE U == {i \in S : key[i] = d}
  <2>2. IsFiniteSet(U) /\ \A i \in U : f[i] \in Nat
    BY FS_Subset
  <2> HIDE DEF U
  <2>3. Sum(U) \in Nat
    BY <2>2, SumIsNatural
  <2>4. QED
    BY <2>3 DEF U
<1>2. ASSUME NEW E \in SUBSET D, \A x \in E : E \ {x} \in P PROVE E \in P
  <2>1. IsFiniteSet(E)
    BY FS_Subset
  <2>2. CASE E = {}
    <3>1. SumFunctionOnSet(part, E) = 0
      <4> HIDE DEF part
      <4>1. QED
        BY <2>1, <2>2, SumSteps
    <3>2. Of(E) = {}
      BY <2>2
    <3>3. Sum({}) = 0
      BY FS_EmptySet, SumSteps
    <3>4. QED
      BY <3>1, <3>2, <3>3
  <2>3. CASE E # {}
    <3>1. PICK d \in E : TRUE
      BY <2>3
    <3>2. SumFunctionOnSet(part, E) = part[d] + SumFunctionOnSet(part, E \ {d})
      <4>1. \A e \in E : part[e] \in Nat
        BY <1>1
      <4> HIDE DEF part
      <4>2. QED
        BY <2>1, <4>1, SumTakesOut
    <3>3. SumFunctionOnSet(part, E \ {d}) = Sum(Of(E \ {d}))
      BY <1>2
    <3> DEFINE T == {i \in S : key[i] = d}
    <3>4. T \in SUBSET Of(E) /\ Of(E) \ T = Of(E \ {d})
      OBVIOUS
    <3>5. IsFiniteSet(Of(E)) /\ \A i \in Of(E) : f[i] \in Nat
      BY FS_Subset
    <3>6. part[d] = Sum(T)
      OBVIOUS
    <3>7. Sum(Of(E)) = Sum(T) + Sum(Of(E \ {d}))
      <4> DEFINE W == Of(E)
      <4>1. T \in SUBSET W /\ IsFiniteSet(W) /\ \A i \in W : f[i] \in Nat
        BY <3>4, <3>5
      <4> HIDE DEF T, W, Of
      <4>2. Sum(W) = Sum(T) + Sum(W \ T)
        BY <4>1, SumSplits
      <4>3. QED
        BY <3>4, <4>2 DEF W
    <3> HIDE DEF Sum, T, part, Of
    <3>8. SumFunctionOnSet(part, E) = Sum(Of(E))
      BY <3>2, <3>3, <3>6, <3>7
    <3>9. QED
      BY <3>8
  <2>4. QED
    BY <2>2, <2>3
<1>3. SUBSET D \subseteq P
  <2> HIDE DEF P
  <2>1. QED
    BY <1>2, SubsetInduction
<1>4. Of(D) = S
  OBVIOUS
<1>5. SumFunctionOnSet(part, D) = Sum(S)
  BY <1>3, <1>4
<1>6. SumFunction(part) = SumFunctionOnSet(part, D) /\ part = SumsUnder(f, key, S, D)
  BY DEF SumFunction, SumsUnder, Under
<1>7. QED
  BY <1>5, <1>6

\* A column of the rows by a key.
Column(s, key, I, D, field) == [d \in D |-> Row(s, Under(key, I, d))[field]]

\* Rows by a key add up to the row of all that the key sorts.
LEMMA RowsAddUp ==
    ASSUME NEW s \in Seq(Entries), NEW I \in SUBSET (DOMAIN s), NEW key, NEW field \in Fields,
           Token \subseteq Nat, NEW D, D = {key[i] : i \in I}
    PROVE  SumFunction(Column(s, key, I, D, field)) = Row(s, I)[field]
<1> DEFINE f == [i \in DOMAIN s |-> Adds(s[i])[field]]
<1>1. ASSUME NEW i \in I PROVE f[i] \in Nat
  <2>1. f[i] = Adds(s[i])[field] /\ s[i] \in Entries
    BY LenProperties
  <2>2. s[i].input \in Nat /\ s[i].output \in Nat /\ s[i].cost \in Nat
    BY <2>1 DEF Entries
  <2>3. s[i].input + s[i].output \in Nat
    BY <2>2
  <2>4. QED
    BY <2>1, <2>2, <2>3 DEF Adds, Fields
<1>2. IsFiniteSet(I)
  <2>1. IsFiniteSet(DOMAIN s)
    BY LenProperties, FS_Interval
  <2>2. QED
    BY <2>1, FS_Subset
<1>3. IsFiniteSet(D)
  <2> DEFINE g == [i \in I |-> key[i]]
  <2>1. g \in Surjection(I, D)
    BY DEF Surjection
  <2> HIDE DEF g
  <2>2. QED
    BY <1>2, <2>1, FS_Surjection
<1>4. \A J : Row(s, J)[field] = SumFunctionOnSet(f, J)
  BY DEF Row
<1>5. \A i \in I : key[i] \in D
  OBVIOUS
<1> HIDE DEF f
<1>6. SumFunction(SumsUnder(f, key, I, D)) = SumFunctionOnSet(f, I)
  BY <1>1, <1>2, <1>3, <1>5, SumOfParts
<1>7. SumsUnder(f, key, I, D) = Column(s, key, I, D, field)
  BY <1>4 DEF SumsUnder, Column
<1>8. QED
  BY <1>4, <1>6, <1>7

LEMMA SumsOfTheNewest == TelemetryInv => SummariesAddUp
<1> SUFFICES ASSUME TelemetryInv PROVE SummariesAddUp
  OBVIOUS
<1>1. records = NewestRecords(calls, maxRecords) /\ records \in Seq(Entries)
  <2>1. calls \in Seq(Entries) /\ maxRecords \in Nat /\ records = NewestRecords(calls, maxRecords)
    BY DEF TelemetryInv, RecordsAreNewest
  <2>2. CASE maxRecords = 0 \/ maxRecords >= Len(calls)
    BY <2>1, <2>2 DEF NewestRecords
  <2>3. CASE ~(maxRecords = 0 \/ maxRecords >= Len(calls))
    <3>1. records = SubSeq(calls, Len(calls) - maxRecords + 1, Len(calls))
      BY <2>1, <2>3 DEF NewestRecords
    <3>2. Len(calls) \in Nat /\ Len(calls) - maxRecords + 1 \in 1..(Len(calls) + 1)
      BY <2>1, <2>3, LenProperties
    <3>3. QED
      BY <2>1, <3>1, <3>2, SubSeqProperties
  <2>4. QED
    BY <2>1, <2>2, <2>3
<1>2. Token \subseteq Nat
  BY TokensAreNumbers
<1> SUFFICES ASSUME NEW field \in Fields
             PROVE  /\ SumFunction([k \in DOMAIN CostByAgent |-> CostByAgent[k][field]])
                          = Row(records, DOMAIN records)[field]
                    /\ SumFunction([k \in DOMAIN CostByTool |-> CostByTool[k][field]])
                          = Row(records, DOMAIN records)[field]
                    /\ SumFunction([k \in DOMAIN CostByModel |-> CostByModel[k][field]])
                          = Row(records, WithModel(records))[field]
  BY <1>1 DEF SummariesAddUp
<1>3. SumFunction([k \in DOMAIN CostByAgent |-> CostByAgent[k][field]])
        = Row(records, DOMAIN records)[field]
  <2> DEFINE key == [i \in DOMAIN records |-> Name(records[i].agent)]
             D == {key[i] : i \in DOMAIN records}
  <2>1. CostByAgent = [n \in D |-> Row(records, {i \in DOMAIN records : key[i] = n})]
    BY DEF CostByAgent
  <2>2. D = {key[i] : i \in DOMAIN records}
    OBVIOUS
  <2> HIDE DEF key, D
  <2>3. SumFunction(Column(records, key, DOMAIN records, D, field))
          = Row(records, DOMAIN records)[field]
    BY <1>1, <1>2, <2>2, RowsAddUp
  <2>4. [k \in DOMAIN CostByAgent |-> CostByAgent[k][field]]
          = Column(records, key, DOMAIN records, D, field)
    BY <2>1 DEF Column, Under
  <2>5. QED
    BY <2>3, <2>4
<1>4. SumFunction([k \in DOMAIN CostByTool |-> CostByTool[k][field]])
        = Row(records, DOMAIN records)[field]
  <2> DEFINE key == [i \in DOMAIN records |-> records[i].tool]
             D == {key[i] : i \in DOMAIN records}
  <2>1. CostByTool = [n \in D |-> Row(records, {i \in DOMAIN records : key[i] = n})]
    BY DEF CostByTool, ToolSummary
  <2>2. D = {key[i] : i \in DOMAIN records}
    OBVIOUS
  <2> HIDE DEF key, D
  <2>3. SumFunction(Column(records, key, DOMAIN records, D, field))
          = Row(records, DOMAIN records)[field]
    BY <1>1, <1>2, <2>2, RowsAddUp
  <2>4. [k \in DOMAIN CostByTool |-> CostByTool[k][field]]
          = Column(records, key, DOMAIN records, D, field)
    BY <2>1 DEF Column, Under
  <2>5. QED
    BY <2>3, <2>4
<1>5. SumFunction([k \in DOMAIN CostByModel |-> CostByModel[k][field]])
        = Row(records, WithModel(records))[field]
  <2> DEFINE key == [i \in DOMAIN records |-> records[i].model]
             I == WithModel(records)
             D == {key[i] : i \in I}
  <2>1. I \in SUBSET (DOMAIN records)
    BY DEF WithModel
  <2>2. CostByModel = [n \in D |-> Row(records, {i \in I : key[i] = n})]
    BY <2>1 DEF CostByModel
  <2>3. D = {key[i] : i \in I}
    OBVIOUS
  <2> HIDE DEF key, I, D
  <2>4. SumFunction(Column(records, key, I, D, field)) = Row(records, I)[field]
    BY <1>1, <1>2, <2>1, <2>3, RowsAddUp
  <2>5. [k \in DOMAIN CostByModel |-> CostByModel[k][field]]
          = Column(records, key, I, D, field)
    BY <2>2 DEF Column, Under
  <2>6. QED
    BY <2>4, <2>5 DEF I
<1>6. QED
  BY <1>3, <1>4, <1>5

\* The dashboard's rows add up (observe.py:480-563).
THEOREM SummariesAreSums == TelemetrySpec => []SummariesAddUp
BY TelemetryInvInit, TelemetryInvStep, SumsOfTheNewest, PTL DEF TelemetrySpec

-----------------------------------------------------------------------------
(* PipelineLanguage: any documents, tests, outputs and tools. *)

\* The truths of a test are there: those of its first n nodes are, for every n.
LEMMA SameOperands ==
    ASSUME NEW e, NEW g, NEW h, NEW output,
           e.op = "not" => g[e.of] = h[e.of],
           e.op \in {"and", "or"} => g[e.left] = h[e.left] /\ g[e.right] = h[e.right]
    PROVE  NodeTruth(e, g, output) = NodeTruth(e, h, output)
BY DEF NodeTruth

TruthsOf(test, I, output, g) == g = [i \in I |-> NodeTruth(test[i], g, output)]

LEMMA TruthsExist ==
    ASSUME NEW test, Len(test) \in Nat, DOMAIN test = 1..Len(test), Tree(test), NEW output
    PROVE  \E g : TruthsOf(test, DOMAIN test, output, g)
<1> DEFINE N == {n \in Nat : n <= Len(test) => \E g : TruthsOf(test, 1..n, output, g)}
<1>1. 0 \in N
  <2> DEFINE g == [i \in 1..0 |-> "raise"]
  <2>1. TruthsOf(test, 1..0, output, g)
    BY DEF TruthsOf
  <2>2. QED
    BY <2>1
<1>2. ASSUME NEW n \in Nat, n \in N PROVE n + 1 \in N
  <2>1. SUFFICES ASSUME n + 1 <= Len(test) PROVE \E h : TruthsOf(test, 1..(n + 1), output, h)
    OBVIOUS
  <2>2. PICK g : TruthsOf(test, 1..n, output, g)
    BY <1>2, <2>1
  <2> DEFINE h == [i \in 1..(n + 1) |-> NodeTruth(test[i], g, output)]
  <2>3. ASSUME NEW i \in 1..n PROVE h[i] = g[i]
    <3>1. g[i] = NodeTruth(test[i], g, output)
      BY <2>2 DEF TruthsOf
    <3>2. QED
      BY <3>1
  <2>4. ASSUME NEW i \in 1..(n + 1) PROVE NodeTruth(test[i], g, output) = NodeTruth(test[i], h, output)
    <3>1. i \in DOMAIN test /\ 1..(i - 1) \subseteq 1..n
      BY <2>1
    <3>2. test[i].op = "not" => test[i].of \in 1..n
      BY <3>1 DEF Tree
    <3>3. test[i].op \in {"and", "or"} => test[i].left \in 1..n /\ test[i].right \in 1..n
      BY <3>1 DEF Tree
    <3> HIDE DEF h
    <3>4. QED
      BY <2>3, <3>2, <3>3, SameOperands
  <2>5. TruthsOf(test, 1..(n + 1), output, h)
    BY <2>4 DEF TruthsOf
  <2> HIDE DEF h
  <2>6. QED
    BY <2>5
<1>3. Nat \subseteq N
  <2> HIDE DEF N
  <2>1. QED
    BY <1>1, <1>2, NaturalInduction
<1>4. QED
  BY <1>3

LEMMA TruthsAre ==
    ASSUME NEW test, Len(test) \in Nat, DOMAIN test = 1..Len(test), Tree(test), NEW output,
           NEW i \in DOMAIN test
    PROVE  Truths(test, output)[i] = NodeTruth(test[i], Truths(test, output), output)
<1>1. Truths(test, output) = CHOOSE g : TruthsOf(test, DOMAIN test, output, g)
  BY Zenon DEF Truths, TruthsOf
<1>2. TruthsOf(test, DOMAIN test, output, Truths(test, output))
  BY <1>1, TruthsExist
<1>3. QED
  BY <1>2 DEF TruthsOf

LEMMA FirstOfLinks ==
    ASSUME NEW links, DOMAIN links \subseteq Nat
    PROVE  FirstOf(links) = "true" <=> \A i \in DOMAIN links : links[i] = "true"
<1> DEFINE stops == {i \in DOMAIN links : links[i] # "true"}
<1>1. CASE stops = {}
  BY <1>1 DEF FirstOf
<1>2. CASE stops # {}
  <2>1. \E x \in stops : \A y \in stops : x <= y
    <3>1. stops \subseteq Nat
      OBVIOUS
    <3> HIDE DEF stops
    <3>2. QED
      BY <1>2, <3>1, LeastNatural
  <2>2. Min(stops) \in stops
    BY <2>1 DEF Min
  <2>3. FirstOf(links) = links[Min(stops)]
    BY <1>2 DEF FirstOf
  <2>4. QED
    BY <2>2, <2>3
<1>3. QED
  BY <1>1, <1>2

\* A comparison evaluates to true exactly when Python would have it so.
LEMMA ComparisonMeans ==
    ASSUME NEW e, NEW g, NEW output, e.op = "compare", DOMAIN e.ops \subseteq Nat,
           \A k \in DOMAIN e.ops : {k, k + 1} \subseteq DOMAIN e.terms
    PROVE  NodeTruth(e, g, output) = "true" <=> Means(e, output)
<1> DEFINE vals == [i \in DOMAIN e.terms |-> Operand(e.terms[i], output)]
           links == [i \in DOMAIN e.ops |-> Compared(e.ops[i], vals[i], vals[i + 1])]
<1>1. NodeTruth(e, g, output) = FirstOf(links)
  BY DEF NodeTruth, Chain
<1>2. \A i \in DOMAIN e.ops : links[i] =
         Compared(e.ops[i], Operand(e.terms[i], output), Operand(e.terms[i + 1], output))
  OBVIOUS
<1>3. DOMAIN links = DOMAIN e.ops
  OBVIOUS
<1> HIDE DEF links
<1>4. FirstOf(links) = "true" <=> \A i \in DOMAIN e.ops : links[i] = "true"
  BY <1>3, FirstOfLinks
<1>5. QED
  BY <1>1, <1>2, <1>4 DEF Means

\* What a condition holds for, by the root of its test.
LEMMA HoldsAsMeant ==
    ASSUME NEW test, Len(test) \in Nat, DOMAIN test = 1..Len(test), Tree(test), NEW output
    PROVE  LET root == test[Len(test)]
               Plain(i) == test[i].op = "compare"
               Met(i) == Means(test[i], output)
               holds == Holds(test, output)
           IN  /\ root.op = "compare" => (holds <=> Means(root, output))
               /\ root.op = "not" => (Plain(root.of) /\ Met(root.of) => ~holds)
               /\ root.op = "and" /\ Plain(root.left) /\ Plain(root.right) =>
                     (holds <=> Met(root.left) /\ Met(root.right))
               /\ root.op = "or" /\ Plain(root.left) /\ Plain(root.right) =>
                     /\ Met(root.left) => holds
                     /\ ~Met(root.left) /\ ~Met(root.right) => ~holds
<1> DEFINE root == test[Len(test)]
           truth == Truths(test, output)
<1>1. Len(test) \in DOMAIN test
  BY DEF Tree
<1>2. truth[Len(test)] = NodeTruth(root, truth, output)
  BY <1>1, TruthsAre
<1>3. ASSUME NEW i \in DOMAIN test, test[i].op = "compare"
      PROVE  truth[i] = "true" <=> Means(test[i], output)
  <2>1. truth[i] = NodeTruth(test[i], truth, output)
    BY TruthsAre
  <2>2. QED
    BY <1>3, <2>1, ComparisonMeans DEF Tree
<1>4. root.op = "not" => root.of \in DOMAIN test
  BY <1>1 DEF Tree
<1>5. root.op \in {"and", "or"} => root.left \in DOMAIN test /\ root.right \in DOMAIN test
  BY <1>1 DEF Tree
<1>6. Holds(test, output) <=> NodeTruth(root, truth, output) = "true"
  BY <1>2 DEF Holds
<1> HIDE DEF root, truth
<1>7. root.op = "compare" => (Holds(test, output) <=> Means(root, output))
  BY <1>1, <1>2, <1>3, <1>6 DEF root
<1>8. root.op = "not" /\ truth[root.of] = "true" => ~Holds(test, output)
  BY <1>6 DEF NodeTruth
<1>9. root.op = "and" => (Holds(test, output) <=> truth[root.left] = "true" /\ truth[root.right] = "true")
  BY <1>6 DEF NodeTruth
<1>10. root.op = "or" => /\ truth[root.left] = "true" => Holds(test, output)
                         /\ truth[root.left] # "true" /\ truth[root.right] # "true" => ~Holds(test, output)
  BY <1>6 DEF NodeTruth
<1>11. QED
  BY <1>3, <1>4, <1>5, <1>7, <1>8, <1>9, <1>10 DEF root

\* The two lookups of a path agree: that of a threshold and that of a condition.
LEMMA AboveAsMeant ==
    ASSUME NEW output, NEW key, NEW value, Look(output, key).kind # "numeral"
    PROVE  Above(output, key, value) <=> Means(AtLeast(key, value), output)
<1> DEFINE val == Look(output, key)
           e == AtLeast(key, value)
<1>1. DOMAIN e.ops = {1} /\ e.ops[1] = ">="
  BY DEF AtLeast
<1>2. Operand(e.terms[1], output) = Literal(val)
  BY DEF AtLeast, Operand
<1>3. Operand(e.terms[2], output) = Number(value)
  BY DEF AtLeast, Operand
<1>4. Means(e, output) <=> Compared(">=", Literal(val), Number(value)) = "true"
  BY <1>1, <1>2, <1>3 DEF Means
<1> HIDE DEF val, e
<1>5. Above(output, key, value) <=> val.kind = "number" /\ val.n >= value
  BY DEF Above, val
<1>6. CASE val.kind = "number"
  BY <1>4, <1>5, <1>6 DEF Literal, Compared, Number, Failed, Truth, e
<1>7. CASE val.kind # "number"
  <2>1. Literal(val) = Failed \/ Literal(val).kind # "number"
    BY <1>7 DEF Literal, NoValue
  <2>2. Compared(">=", Literal(val), Number(value)) = "raise"
    <3> DEFINE l == Literal(val)
    <3>1. l = Failed \/ l.kind # "number"
      BY <2>1
    <3> HIDE DEF l
    <3>2. Compared(">=", l, Number(value)) = "raise"
      BY <3>1 DEF Compared
    <3>3. QED
      BY <3>2 DEF l
  <2>3. QED
    BY <1>4, <1>5, <1>7, <2>2 DEF e
<1>8. QED
  BY <1>6, <1>7

\* A branch's tools are its first child's and, if there is one, its second child's.
LEMMA ChildTools ==
    ASSUME NEW element, NEW tag
    PROVE  Child(element, tag) = <<>> \/ \E tool : Child(element, tag) = <<tool>>
BY DEF Child

LEMMA BranchTools ==
    ASSUME NEW element, NEW first, NEW second, NEW test, Child(element, first) # <<>>
    PROVE  LET tools == BranchOf(element, first, second, test).tools
           IN  /\ <<tools[1]>> = Child(element, first)
               /\ Len(tools) > 1 => <<tools[2]>> = Child(element, second)
               /\ ~(Len(tools) > 1) => Child(element, second) = <<>>
<1>1. PICK a : Child(element, first) = <<a>>
  BY ChildTools
<1>2. BranchOf(element, first, second, test).tools = <<a>> \o Child(element, second)
  BY <1>1 DEF BranchOf
<1>3. CASE Child(element, second) = <<>>
  <2>1. <<a>> \in Seq({a})
    OBVIOUS
  <2>2. <<a>> \o <<>> = <<a>>
    BY <2>1
  <2>3. QED
    BY <1>1, <1>2, <1>3, <2>2
<1>4. ASSUME NEW b, Child(element, second) = <<b>>
      PROVE  LET tools == <<a>> \o <<b>>
             IN  tools[1] = a /\ tools[2] = b /\ Len(tools) = 2
  <2>1. <<a>> \in Seq({a, b}) /\ <<b>> \in Seq({a, b})
    OBVIOUS
  <2>2. QED
    BY <2>1
<1>5. QED
  BY <1>1, <1>2, <1>3, <1>4, ChildTools

\* The branch that a node takes is the one its element writes.
LEMMA ThresholdTaken ==
    ASSUME NEW e, e.tag = "threshold", Accepts(e), NEW output
    PROVE  ToolTaken(NodeOf(e), output) =
             IF Above(output, e.key, e.value) THEN Child(e, "above") ELSE Child(e, "below")
<1> DEFINE test == [key |-> e.key, value |-> e.value]
           node == BranchOf(e, "above", "below", test)
<1>1. NodeOf(e) = node
  BY DEF NodeOf
<1>2. node.kind = "threshold" /\ node.test = test
  BY DEF BranchOf
<1>3. Takes(node, output) <=> Above(output, e.key, e.value)
  BY <1>2 DEF Takes
<1>4. Child(e, "above") # <<>>
  BY DEF Accepts, Branching
<1>5. /\ <<node.tools[1]>> = Child(e, "above")
      /\ Len(node.tools) > 1 => <<node.tools[2]>> = Child(e, "below")
      /\ ~(Len(node.tools) > 1) => Child(e, "below") = <<>>
  BY <1>4, BranchTools
<1> HIDE DEF node
<1>6. QED
  BY <1>1, <1>3, <1>5 DEF ToolTaken

LEMMA ConditionTaken ==
    ASSUME NEW e, e.tag = "condition", Accepts(e), NEW output
    PROVE  ToolTaken(NodeOf(e), output) =
             IF Holds(e.test, output) THEN Child(e, "then") ELSE Child(e, "else")
<1> DEFINE node == BranchOf(e, "then", "else", e.test)
<1>1. NodeOf(e) = node
  BY DEF NodeOf
<1>2. node.kind = "condition" /\ node.test = e.test
  BY DEF BranchOf
<1>3. Takes(node, output) <=> Holds(e.test, output)
  BY <1>2 DEF Takes
<1>4. Child(e, "then") # <<>>
  BY DEF Accepts, Branching
<1>5. /\ <<node.tools[1]>> = Child(e, "then")
      /\ Len(node.tools) > 1 => <<node.tools[2]>> = Child(e, "else")
      /\ ~(Len(node.tools) > 1) => Child(e, "else") = <<>>
  BY <1>4, BranchTools
<1> HIDE DEF node
<1>6. QED
  BY <1>1, <1>3, <1>5 DEF ToolTaken

\* A step of the parser appends the node of the element it is at.
LEMMA ParseElementInv == LanguageInv /\ ParseElement => LanguageInv'
<1> SUFFICES ASSUME LanguageInv, ParseElement PROVE LanguageInv'
  OBVIOUS
<1> USE DEF LanguageInv
<1>1. ~Routed
  BY DEF ParseElement
<1>2. ~Routed'
  BY <1>1 DEF ParseElement, Routed
<1>3. CASE nodes' = <<>> /\ parse' \in {"refused", "raised"}
  <2>1. Len(document'.elements) \in Nat
    BY LanguageAssumption DEF ParseElement
  <2>2. QED
    BY <1>2, <1>3, <2>1 DEF ParseElement
<1>4. CASE Accepts(Element) /\ nodes' = Append(nodes, NodeOf(Element)) /\ parse' = parse
  <2> DEFINE e(i) == document.elements[i]
             S == {NodeOf(e(i)) : i \in 1..(Len(nodes) + 1)}
  <2>1. Len(nodes) \in Nat /\ DOMAIN nodes = 1..Len(nodes)
    OBVIOUS
  <2>2. NodeOf(Element) \in S
    BY <2>1 DEF Element
  <2>3. nodes \in Seq(S)
    BY <2>1
  <2>4. /\ nodes' \in Seq(S) /\ Len(nodes') = Len(nodes) + 1
        /\ \A i \in 1..Len(nodes) : nodes'[i] = nodes[i]
        /\ nodes'[Len(nodes) + 1] = NodeOf(Element)
    <3> HIDE DEF S
    <3>1. QED
      BY <1>4, <2>2, <2>3
  <2>5. DOMAIN nodes' = 1..(Len(nodes) + 1)
    BY <2>4
  <2>6. document' = document /\ parse' = parse /\ Len(nodes) < Len(document.elements)
    BY <1>4 DEF ParseElement
  <2>7. Len(nodes') <= Len(document.elements)
    BY <2>1, <2>4, <2>6, LanguageAssumption
  <2>8. \A i \in DOMAIN nodes' : nodes'[i] = NodeOf(e(i)) /\ Accepts(e(i))
    BY <1>4, <2>1, <2>4, <2>5 DEF Element
  <2>9. nodes' \in Seq({NodeOf(document'.elements[i]) : i \in DOMAIN nodes'})
    BY <2>4, <2>5, <2>6
  <2>10. parse' = "parsing"
    BY <2>6 DEF ParseElement
  <2>11. QED
    BY <1>2, <2>6, <2>7, <2>8, <2>9, <2>10
<1>5. QED
  BY <1>3, <1>4 DEF ParseElement

LEMMA LanguageInvStep == LanguageInv /\ [LanguageNext]_languageVars => LanguageInv'
<1> SUFFICES ASSUME LanguageInv, [LanguageNext]_languageVars PROVE LanguageInv'
  OBVIOUS
<1> USE DEF LanguageInv
<1>1. CASE Review
  BY <1>1 DEF Review, Routed
<1>2. CASE Refine
  <2>1. nodes = <<>> /\ nodes' = <<>> /\ ~Routed' /\ parse' = "no" /\ document' \in Document
    BY <1>2 DEF Refine, Routed
  <2>2. Len(document'.elements) \in Nat
    BY <2>1, LanguageAssumption
  <2>3. QED
    BY <2>1, <2>2
<1>3. CASE BeginParse
  BY <1>3 DEF BeginParse, Routed
<1>4. CASE ParseElement
  BY <1>4, ParseElementInv
<1>5. CASE EndParse
  BY <1>5 DEF EndParse, Routed
<1>6. ASSUME NEW i \in DOMAIN nodes, NEW output \in Output \cup {Undecided}, Route(i, output)
      PROVE  LanguageInv'
  <2>1. routed'.node = i /\ routed'.output = output /\ routed'.taken = ToolTaken(nodes[i], output)
    BY <1>6 DEF Route
  <2>2. QED
    BY <1>6, <2>1 DEF Route
<1>7. CASE UNCHANGED languageVars
  BY <1>7 DEF languageVars, Routed
<1>8. QED
  BY <1>1, <1>2, <1>3, <1>4, <1>5, <1>6, <1>7 DEF LanguageNext

LEMMA LanguageInvInit == LanguageInit => LanguageInv
<1> SUFFICES ASSUME LanguageInit PROVE LanguageInv
  OBVIOUS
<1>1. Len(document.elements) \in Nat
  BY LanguageAssumption DEF LanguageInit
<1>2. QED
  BY <1>1 DEF LanguageInit, LanguageInv, Routed

LEMMA TakenAsWritten == LanguageInv => BranchesAreAsWritten
<1> SUFFICES ASSUME LanguageInv, Routed PROVE BranchesAreAsWritten
  BY DEF BranchesAreAsWritten
<1> DEFINE e == RoutedElement
           out == routed.output
<1>1. /\ routed.node \in DOMAIN document.elements /\ Accepts(e)
      /\ routed.taken = ToolTaken(NodeOf(e), out)
  BY LanguageAssumption DEF LanguageInv, RoutedElement
<1>2. ASSUME e.tag = "condition" PROVE ConditionAsWritten(e.test, out, routed.taken)
  <2>1. Len(e.test) \in Nat /\ DOMAIN e.test = 1..Len(e.test) /\ Tree(e.test)
    BY <1>1, <1>2, LanguageAssumption DEF LanguageInv, RoutedElement
  <2>2. routed.taken = IF Holds(e.test, out) THEN Written("then") ELSE Written("else")
    BY <1>1, <1>2, ConditionTaken DEF Written
  <2> HIDE DEF e, out
  <2>3. QED
    BY <2>1, <2>2, HoldsAsMeant DEF ConditionAsWritten
<1>3. ASSUME e.tag = "threshold" PROVE ThresholdAsWritten(e, out, routed.taken)
  <2>1. routed.taken = IF Above(out, e.key, e.value) THEN Written("above") ELSE Written("below")
    BY <1>1, <1>3, ThresholdTaken DEF Written
  <2> HIDE DEF e, out
  <2>2. QED
    BY <2>1, AboveAsMeant DEF ThresholdAsWritten
<1>4. QED
  BY <1>2, <1>3 DEF BranchesAreAsWritten

\* A branch is taken as the document writes it (pipeline_poml.py:297-357,
\* pipeline.py:257-274 and 446-466).
THEOREM BranchesAreTakenAsWritten == LanguageSpec => []BranchesAreAsWritten
BY LanguageInvInit, LanguageInvStep, TakenAsWritten, PTL DEF LanguageSpec

-----------------------------------------------------------------------------
(* CheckpointStore: any threads and instances, either backend, and any
   number of transactions. *)

USE StoreAssumption

\* Locks exclude: whoever finds the locks free is the only one in the store.
LEMMA AloneFacts ==
    ASSUME StoreTypeOK, Locked, writer = NoThread,
           NEW t \in Thread, owner[home[t]] = NoThread, NEW u \in Thread
    PROVE  ~InStore(u, "loaded") /\ (backend = "sqlite" => ~Inside(u))
<1>1. CASE backend = "sqlite"
  BY <1>1 DEF Locked, Inside, InStore
<1>2. CASE backend = "memory"
  <2>1. owner[home[u]] = NoThread
    BY <1>2 DEF Locked
  <2>2. QED
    BY <1>2, <2>1 DEF Locked, InStore
<1>3. QED
  BY <1>1, <1>2 DEF StoreTypeOK

\* A transaction that has begun excludes the others.
LEMMA InsideFacts ==
    ASSUME StoreTypeOK, Locked, NEW t \in Thread, Inside(t), NEW u \in Thread, u # t
    PROVE  ~Inside(u)
<1>1. CASE backend = "sqlite"
  BY <1>1 DEF Locked
<1>2. CASE backend = "memory"
  <2>1. home[u] = home[t] /\ owner[home[t]] = t
    BY <1>2 DEF Locked, Inside, InStore
  <2>2. QED
    BY <2>1 DEF Locked, Inside, InStore
<1>3. QED
  BY <1>1, <1>2 DEF StoreTypeOK

LEMMA StoreInitInv == StoreInit => StoreInv
BY DEF StoreInit, StoreInv, StoreTypeOK, Locked, Fresh, NoUpdateIsLost, Rows, Txns, NewRow,
       Idle, InStore, Inside

\* An operation that changes no row but may change who holds which lock.
LEMMA EnterInv ==
    ASSUME StoreInv, NEW t \in Thread, Enter(t)
    PROVE  StoreInv'
<1> USE DEF StoreInv, Enter, InStore, Locks
<1>1. txn' \in [Thread -> Txns] /\ owner' \in [Instance -> Thread \cup {NoThread}]
  BY DEF StoreTypeOK, Txns
<1>2. /\ txn'[t].at = "entered" /\ txn[t].at = "idle"
      /\ \A u \in Thread \ {t} : txn'[u] = txn[u]
  BY DEF StoreTypeOK
<1>3. Locked'
  <2>1. owner'[home[t]] = t /\ \A i \in Instance \ {home[t]} : owner'[i] = owner[i]
    BY DEF StoreTypeOK
  <2>2. \A u \in Thread : txn'[u].at = "idle" \/ owner'[home[u]] = u
    BY <1>2, <2>1 DEF StoreTypeOK, Locked
  <2>3. QED
    BY <1>2, <2>2 DEF Locked, Inside
<1>4. Fresh'
  BY <1>2 DEF Fresh
<1>5. QED
  BY <1>1, <1>3, <1>4 DEF StoreTypeOK, NoUpdateIsLost

LEMMA BeginInv ==
    ASSUME StoreInv, NEW t \in Thread, Begin(t)
    PROVE  StoreInv'
<1> USE DEF StoreInv, Begin, InStore
<1>1. txn' \in [Thread -> Txns] /\ writer' \in Thread \cup {NoThread}
  BY DEF StoreTypeOK, Txns
<1>2. /\ txn'[t] = [at |-> "inside", row |-> committed] /\ txn[t].at = "entered"
      /\ \A u \in Thread \ {t} : txn'[u] = txn[u]
  BY DEF StoreTypeOK
<1>3. Locked'
  <2>1. \A u \in Thread : txn'[u].at = "idle" \/ owner[home[u]] = u
    BY <1>2 DEF Locked
  <2>2. backend = "sqlite" => \A u \in Thread : Inside(u)' => writer' = u
    BY <1>2 DEF Locked, Inside
  <2>3. QED
    BY <2>1, <2>2 DEF Locked, StoreTypeOK
<1>4. Fresh'
  BY <1>2 DEF Fresh
<1>5. QED
  BY <1>1, <1>3, <1>4 DEF StoreTypeOK, NoUpdateIsLost

LEMMA BusyInv ==
    ASSUME StoreInv, NEW t \in Thread, Busy(t)
    PROVE  StoreInv'
<1> USE DEF StoreInv, Busy, InStore, Unlocks
<1>1. txn' \in [Thread -> Txns] /\ owner' \in [Instance -> Thread \cup {NoThread}]
  BY DEF StoreTypeOK, Txns, Idle, NewRow, Rows
<1>2. txn'[t].at = "idle" /\ \A u \in Thread \ {t} : txn'[u] = txn[u]
  BY DEF StoreTypeOK, Idle
<1>3. Locked'
  <2>1. \A u \in Thread \ {t} : txn[u].at = "idle" \/ owner'[home[u]] = u
    BY DEF StoreTypeOK, Locked
  <2>2. QED
    BY <1>2, <2>1 DEF Locked, Inside
<1>4. Fresh'
  BY <1>2 DEF Fresh
<1>5. QED
  BY <1>1, <1>3, <1>4 DEF StoreTypeOK, NoUpdateIsLost

LEMMA LoadInv ==
    ASSUME StoreInv, NEW t \in Thread, Load(t)
    PROVE  StoreInv'
<1> USE DEF StoreInv, Load, InStore
<1>1. Sees(t) = committed
  BY DEF Sees, Fresh, StoreTypeOK
<1>2. txn' \in [Thread -> Txns]
  BY <1>1 DEF StoreTypeOK, Txns
<1>3. /\ txn'[t] = [at |-> "loaded", row |-> committed] /\ txn[t].at = "inside"
      /\ committed.there /\ \A u \in Thread \ {t} : txn'[u] = txn[u]
  BY <1>1 DEF StoreTypeOK
<1>4. Locked'
  BY <1>3 DEF Locked, Inside
<1>5. Fresh'
  BY <1>3 DEF Fresh
<1>6. QED
  BY <1>2, <1>4, <1>5 DEF StoreTypeOK, NoUpdateIsLost

LEMMA SaveInv ==
    ASSUME StoreInv, NEW t \in Thread, Save(t)
    PROVE  StoreInv'
<1> DEFINE new == [txn[t].row EXCEPT !.edits = @ + 1]
<1> USE DEF StoreInv, InStore
<1>1. /\ txn[t].at = "loaded" /\ txn' = [txn EXCEPT ![t] = [at |-> "saved", row |-> new]]
      /\ IF backend = "memory" THEN committed' = new /\ kept' = [kept EXCEPT !.edits = @ + 1]
         ELSE UNCHANGED <<committed, kept>>
      /\ UNCHANGED <<backend, home, owner, writer>>
  BY DEF Save
<1>2. txn[t].row = committed /\ committed.there
  BY <1>1 DEF Fresh
<1>3. new = [committed EXCEPT !.edits = @ + 1] /\ new \in Rows /\ new.there
  BY <1>2 DEF StoreTypeOK, Rows
<1>4. txn' \in [Thread -> Txns]
  BY <1>1, <1>3 DEF StoreTypeOK, Txns
<1>5. /\ txn'[t] = [at |-> "saved", row |-> new]
      /\ \A u \in Thread \ {t} : txn'[u] = txn[u]
  BY <1>1 DEF StoreTypeOK
<1>6. \A u \in Thread \ {t} : ~Inside(u)
  BY <1>1, InsideFacts DEF Inside
<1> HIDE DEF new
<1>7. Locked'
  BY <1>1, <1>5 DEF Locked, Inside
<1>8. Fresh'
  BY <1>1, <1>2, <1>3, <1>5, <1>6 DEF Fresh, Inside, StoreTypeOK
<1>9. StoreTypeOK' /\ NoUpdateIsLost'
  BY <1>1, <1>2, <1>3, <1>4 DEF StoreTypeOK, NoUpdateIsLost, Rows
<1>10. QED
  BY <1>7, <1>8, <1>9

\* The end of a transaction of t, in which nothing but t's own place and its
\* locks changed.
LEMMA LeavesFacts ==
    ASSUME StoreTypeOK, Locked, NEW t \in Thread, Inside(t), Leaves(t),
           UNCHANGED <<backend, home>>
    PROVE  /\ txn' \in [Thread -> Txns] /\ writer' \in Thread \cup {NoThread}
           /\ owner' \in [Instance -> Thread \cup {NoThread}]
           /\ txn'[t] = Idle /\ \A u \in Thread \ {t} : txn'[u] = txn[u] /\ ~Inside(u)
           /\ Locked'
<1> USE DEF Leaves, Unlocks, InStore
<1>1. txn' \in [Thread -> Txns] /\ writer' \in Thread \cup {NoThread}
      /\ owner' \in [Instance -> Thread \cup {NoThread}]
  BY DEF StoreTypeOK, Txns, Idle, NewRow, Rows
<1>2. txn'[t] = Idle /\ \A u \in Thread \ {t} : txn'[u] = txn[u]
  BY DEF StoreTypeOK
<1>3. \A u \in Thread \ {t} : ~Inside(u)
  BY InsideFacts
<1>4. \A u \in Thread : txn'[u].at = "idle" \/ owner'[home[u]] = u
  <2>1. \A u \in Thread \ {t} : txn[u].at = "idle" \/ owner'[home[u]] = u
    BY DEF StoreTypeOK, Locked, Inside
  <2>2. QED
    BY <1>2, <2>1 DEF Idle
<1>5. \A u \in Thread : ~Inside(u)'
  BY <1>2, <1>3 DEF Inside, Idle
<1>6. Locked'
  BY <1>4, <1>5 DEF Locked
<1>7. QED
  BY <1>1, <1>2, <1>3, <1>6

LEMMA CommitInv ==
    ASSUME StoreInv, NEW t \in Thread, Commit(t)
    PROVE  StoreInv'
<1> USE DEF StoreInv, InStore
<1>1. Inside(t) /\ Leaves(t) /\ UNCHANGED <<backend, home>>
  BY DEF Commit
<1>2. /\ txn' \in [Thread -> Txns] /\ writer' \in Thread \cup {NoThread}
      /\ owner' \in [Instance -> Thread \cup {NoThread}]
      /\ txn'[t] = Idle /\ \A u \in Thread \ {t} : txn'[u] = txn[u] /\ ~Inside(u)
      /\ Locked'
  BY <1>1, LeavesFacts
<1>3. Fresh'
  BY <1>2 DEF Fresh, Inside, Idle
<1>4. CASE backend = "sqlite" /\ txn[t].at = "saved"
  <2>1. committed' = txn[t].row /\ kept' = [kept EXCEPT !.edits = @ + 1]
    BY <1>4 DEF Commit
  <2>2. committed.there /\ txn[t].row = [committed EXCEPT !.edits = @ + 1]
    BY <1>4 DEF Fresh
  <2>3. StoreTypeOK' /\ NoUpdateIsLost'
    BY <1>1, <1>2, <2>1, <2>2 DEF StoreTypeOK, NoUpdateIsLost, Rows
  <2>4. QED
    BY <1>2, <1>3, <2>3
<1>5. CASE ~(backend = "sqlite" /\ txn[t].at = "saved")
  <2>1. UNCHANGED <<committed, kept>>
    BY <1>5 DEF Commit
  <2>2. QED
    BY <1>1, <1>2, <1>3, <2>1 DEF StoreTypeOK, NoUpdateIsLost
<1>6. QED
  BY <1>4, <1>5

LEMMA AbortInv ==
    ASSUME StoreInv, NEW t \in Thread, Abort(t)
    PROVE  StoreInv'
<1> USE DEF StoreInv, Abort
<1>1. /\ txn' \in [Thread -> Txns] /\ writer' \in Thread \cup {NoThread}
      /\ owner' \in [Instance -> Thread \cup {NoThread}]
      /\ txn'[t] = Idle /\ \A u \in Thread \ {t} : txn'[u] = txn[u] /\ ~Inside(u)
      /\ Locked'
  BY LeavesFacts
<1>2. Fresh'
  BY <1>1 DEF Fresh, Inside, Idle, InStore
<1>3. QED
  BY <1>1, <1>2 DEF StoreTypeOK, NoUpdateIsLost

LEMMA AloneInv ==
    ASSUME StoreInv, NEW t \in Thread, Expire(t) \/ \E n \in Usage : ReportUsage(t, n)
    PROVE  StoreInv'
<1> USE DEF StoreInv
<1>1. Alone(t) /\ UNCHANGED <<backend, home, owner, writer, txn>>
  BY DEF Expire, ReportUsage
<1>2. \A u \in Thread : ~InStore(u, "loaded") /\ (backend = "sqlite" => ~Inside(u))
  BY <1>1, AloneFacts DEF Alone
<1>3. Locked' /\ Fresh'
  BY <1>1, <1>2 DEF Locked, Fresh, Inside, InStore
<1>4. StoreTypeOK' /\ NoUpdateIsLost'
  <2>1. CASE Expire(t)
    BY <2>1 DEF Expire, StoreTypeOK, NoUpdateIsLost, Rows
  <2>2. CASE \E n \in Usage : ReportUsage(t, n)
    <3>1. PICK n \in Usage : ReportUsage(t, n)
      BY <2>2
    <3>2. Higher(committed.usage, n) \in Nat /\ Higher(kept.usage, n) \in Nat
      BY DEF StoreTypeOK, Rows, Higher
    <3>3. /\ committed' = [committed EXCEPT !.usage = Higher(committed.usage, n)]
          /\ kept' = [kept EXCEPT !.usage = Higher(kept.usage, n)] /\ committed.there
      BY <3>1 DEF ReportUsage
    <3>4. QED
      BY <1>1, <3>2, <3>3 DEF StoreTypeOK, NoUpdateIsLost, Rows
  <2>3. QED
    BY <2>1, <2>2
<1>5. QED
  BY <1>3, <1>4

LEMMA CrashInv ==
    ASSUME StoreInv, NEW i \in Instance, backend = "memory" => \A t \in Thread : home[t] = i,
           Crash(i)
    PROVE  StoreInv'
<1> USE DEF StoreInv, InStore
<1>1. /\ txn' = [t \in Thread |-> IF home[t] = i THEN Idle ELSE txn[t]]
      /\ owner' = [owner EXCEPT ![i] = NoThread] /\ UNCHANGED <<backend, home>>
      /\ writer' = IF writer # NoThread /\ home[writer] = i THEN NoThread ELSE writer
  BY DEF Crash
<1>2. /\ txn' \in [Thread -> Txns] /\ writer' \in Thread \cup {NoThread}
      /\ owner' \in [Instance -> Thread \cup {NoThread}]
  BY <1>1 DEF StoreTypeOK, Txns, Idle, NewRow, Rows
<1>3. \A t \in Thread : txn'[t] = Idle \/ (home[t] # i /\ txn'[t] = txn[t])
  BY <1>1
<1>4. Locked'
  <2>1. \A t \in Thread : txn'[t].at = "idle" \/ owner'[home[t]] = t
    BY <1>1, <1>3 DEF StoreTypeOK, Locked, Idle
  <2>2. \A t \in Thread : backend = "sqlite" /\ Inside(t)' => writer' = t
    BY <1>1, <1>3 DEF Locked, Inside, Idle
  <2>3. backend = "memory" => writer' = NoThread
    BY <1>1 DEF Locked
  <2>4. QED
    BY <1>1, <2>1, <2>2, <2>3 DEF Locked
<1>5. CASE backend = "memory"
  <2>1. committed' = NewRow /\ kept' = [edits |-> 0, usage |-> 0] /\ \A t \in Thread : txn'[t] = Idle
    BY <1>1, <1>3, <1>5 DEF Crash
  <2>2. QED
    BY <1>1, <1>2, <1>4, <2>1 DEF StoreTypeOK, Fresh, NoUpdateIsLost, NewRow, Rows, Idle
<1>6. CASE backend = "sqlite"
  <2>1. UNCHANGED <<committed, kept>>
    BY <1>6 DEF Crash
  <2>2. Fresh'
    BY <1>1, <1>3, <2>1 DEF Fresh, Idle
  <2>3. QED
    BY <1>1, <1>2, <1>4, <2>1, <2>2 DEF StoreTypeOK, NoUpdateIsLost
<1>7. QED
  BY <1>5, <1>6 DEF StoreTypeOK

LEMMA StoreStepInv == StoreInv /\ [StoreNext]_storeVars => StoreInv'
<1> SUFFICES ASSUME StoreInv, [StoreNext]_storeVars PROVE StoreInv'
  OBVIOUS
<1>1. CASE UNCHANGED storeVars
  BY <1>1 DEF storeVars, StoreInv, StoreTypeOK, Locked, Fresh, NoUpdateIsLost, InStore, Inside
<1>2. CASE \E t \in Thread : Enter(t) \/ Begin(t) \/ Busy(t) \/ Load(t) \/ Save(t)
  BY <1>2, EnterInv, BeginInv, BusyInv, LoadInv, SaveInv
<1>3. CASE \E t \in Thread : Commit(t) \/ Abort(t) \/ Expire(t) \/ \E n \in Usage : ReportUsage(t, n)
  BY <1>3, CommitInv, AbortInv, AloneInv
<1>4. CASE \E i \in Instance :
              (backend = "memory" => \A t \in Thread : home[t] = i) /\ Crash(i)
  BY <1>4, CrashInv
<1>5. QED
  BY <1>1, <1>2, <1>3, <1>4 DEF StoreNext

LEMMA StoreInvHolds == StoreSpec => []StoreInv
BY StoreInitInv, StoreStepInv, PTL DEF StoreSpec

-----------------------------------------------------------------------------
\* The row holds every committed save and every reported usage, and nothing of
\* a transaction that did not commit, with either backend
\* (SqliteStore.session_transaction, update_supervisor_checkpoint).
THEOREM UpdatesAreKept == StoreSpec => []NoUpdateIsLost
<1>1. StoreInv => NoUpdateIsLost
  BY DEF StoreInv
<1>2. QED
  BY <1>1, StoreInvHolds, PTL

\* A transaction that loaded the row is the only one inside the store, and the
\* row it works on is still the one that is there when it saves.
THEOREM TransactionsExclude ==
    StoreSpec => [](/\ \A t, u \in Thread : Inside(t) /\ Inside(u) => t = u
                    /\ \A t \in Thread : InStore(t, "loaded") => txn[t].row = committed)
<1>1. StoreInv => /\ \A t, u \in Thread : Inside(t) /\ Inside(u) => t = u
                  /\ \A t \in Thread : InStore(t, "loaded") => txn[t].row = committed
  <2>1. StoreInv => \A t, u \in Thread : Inside(t) /\ Inside(u) => t = u
    BY InsideFacts DEF StoreInv
  <2>2. QED
    BY <2>1 DEF StoreInv, Fresh
<1>2. QED
  BY <1>1, StoreInvHolds, PTL
=============================================================================
