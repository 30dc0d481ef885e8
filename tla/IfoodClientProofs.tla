-------------------------- MODULE IfoodClientProofs --------------------------
(***************************************************************************)
(* Proofs about IfoodClient, for any calls, orders, profiles, intervals    *)
(* and time limits: the types, the pace of the sends, what an accepted     *)
(* cancellation means, and that no token ends while a request carries it.  *)
(***************************************************************************)
EXTENDS IfoodClient, FiniteSetTheorems, TLAPS

-----------------------------------------------------------------------------
(* The pace                                                                *)

Waits(c) == \E k \in DOMAIN queue[Asked(c)] : queue[Asked(c)][k] = c

PaceTyped ==
  /\ now \in Nat
  /\ phase \in [Call -> Phase]
  /\ DOMAIN stage = Call /\ DOMAIN token = Call /\ DOMAIN wake = Call
  /\ queue \in [Endpoint -> Seq(Call)]
  /\ lastRequestAt \in [Endpoint -> Nat]

(* The turn is with the head of the queue, which is taken off as it sends: *)
(* nobody else sends to the endpoint while it waits for its moment.        *)
PaceInv ==
  /\ PaceTyped
  /\ \A e \in Endpoint : lastRequestAt[e] <= now
  /\ \A c \in Call : phase[c] \notin {"idle", "ended"} => stage[c] \in {"reasons", "cancel"}
  /\ \A c \in Call : phase[c] \in {"queued", "paced"} => Waits(c)
  /\ \A c \in Call :
       phase[c] = "paced" =>
         /\ MyTurn(c) /\ wake[c] \in Int
         /\ wake[c] >= lastRequestAt[Asked(c)] + MinInterval[Asked(c)]

LEMMA AskedIsEndpoint ==
  ASSUME PaceInv, NEW c \in Call, phase[c] \notin {"idle", "ended"}
  PROVE  Asked(c) \in Endpoint /\ MinInterval[Asked(c)] \in Nat
         /\ lastRequestAt[Asked(c)] \in Nat /\ queue[Asked(c)] \in Seq(Call)
BY ClientAssumption DEF PaceInv, PaceTyped, Asked, Endpoint

OthersStay(c) ==
  \A b \in Call \ {c} :
    phase'[b] = phase[b] /\ stage'[b] = stage[b] /\ token'[b] = token[b] /\ wake'[b] = wake[b]

(* A call moves, and not into the queue.                                   *)
LEMMA CallMoves ==
  ASSUME PaceInv, NEW c \in Call, OthersStay(c), UNCHANGED <<now, pace>>,
         phase' \in [Call -> Phase], DOMAIN stage' = Call, DOMAIN token' = Call, DOMAIN wake' = Call,
         phase'[c] \notin {"queued", "paced"},
         phase'[c] \notin {"idle", "ended"} => stage'[c] \in {"reasons", "cancel"}
  PROVE  PaceInv'
<1>1. PaceTyped'
  BY DEF PaceInv, PaceTyped, pace
<1>2. ASSUME NEW b \in Call \ {c}
      PROVE  Asked(b)' = Asked(b)
  BY <1>2 DEF Asked, OthersStay
<1>3. \A e \in Endpoint : (lastRequestAt[e] <= now)'
  BY DEF PaceInv, pace
<1>4. \A b \in Call : (phase[b] \notin {"idle", "ended"} => stage[b] \in {"reasons", "cancel"})'
  BY DEF PaceInv, OthersStay
<1>5. \A b \in Call : (phase[b] \in {"queued", "paced"} => Waits(b))'
  BY <1>2 DEF PaceInv, OthersStay, Waits, pace
<1>6. ASSUME NEW b \in Call, phase'[b] = "paced"
      PROVE  (/\ MyTurn(b) /\ wake[b] \in Int
              /\ wake[b] >= lastRequestAt[Asked(b)] + MinInterval[Asked(b)])'
  <2>1. b # c /\ phase[b] = "paced" /\ wake'[b] = wake[b] /\ Asked(b)' = Asked(b)
    BY <1>2, <1>6 DEF OthersStay
  <2>. QED
    BY <2>1 DEF PaceInv, MyTurn, pace
<1>. QED
  BY <1>1, <1>3, <1>4, <1>5, <1>6 DEF PaceInv

LEMMA EndMoves ==
  ASSUME PaceInv, NEW c \in Call, NEW r, End(c, r)
  PROVE  /\ OthersStay(c) /\ phase' \in [Call -> Phase] /\ phase'[c] = "ended"
         /\ DOMAIN stage' = Call /\ DOMAIN token' = Call /\ DOMAIN wake' = Call
BY DEF End, PaceInv, PaceTyped, OthersStay, Phase

LEMMA RetryMoves ==
  ASSUME PaceInv, NEW c \in Call, phase[c] = "sent", Retry(c)
  PROVE  /\ OthersStay(c) /\ phase' \in [Call -> Phase] /\ phase'[c] = "backoff"
         /\ stage'[c] \in {"reasons", "cancel"}
         /\ DOMAIN stage' = Call /\ DOMAIN token' = Call /\ DOMAIN wake' = Call
<1>1. phase' = [phase EXCEPT ![c] = "backoff"] /\ UNCHANGED <<stage, token>>
  BY DEF Retry
<1>2. PICK w : wake' = [wake EXCEPT ![c] = w]
  BY DEF Retry
<1>. QED
  BY <1>1, <1>2 DEF PaceInv, PaceTyped, OthersStay, Phase

(* The steps that neither join the queue nor leave it.                     *)
LEMMA QuietSteps ==
  ASSUME PaceInv, NEW c \in Call,
         \/ Start(c) \/ GetAccessToken(c) \/ TimesOut(c) \/ Fails(c) \/ IsRefused(c)
         \/ Resume(c) \/ TokenAnswer(c) \/ ReasonsAnswer(c) \/ CancelAnswer(c)
  PROVE  PaceInv'
<1>1. CASE Start(c)
  <2>1. OthersStay(c) /\ phase' \in [Call -> Phase] /\ phase'[c] = "token"
        /\ stage'[c] \in {"reasons", "cancel"}
        /\ DOMAIN stage' = Call /\ DOMAIN token' = Call /\ DOMAIN wake' = Call
        /\ UNCHANGED <<now, pace>>
    BY <1>1 DEF Start, PaceInv, PaceTyped, OthersStay, Phase
  <2>. QED
    BY <2>1, CallMoves
<1>2. CASE GetAccessToken(c) \/ TokenAnswer(c) \/ Resume(c)
  <2>1. phase' = [phase EXCEPT ![c] = "attempt"] /\ phase[c] \in {"token", "sent", "backoff"}
        /\ UNCHANGED <<now, stage, pace>>
    BY <1>2 DEF GetAccessToken, TokenAnswer, Resume
  <2>2. OthersStay(c) /\ DOMAIN token' = Call /\ DOMAIN wake' = Call
    <3>1. \/ UNCHANGED token
          \/ \E t : token' = [token EXCEPT ![c] = t]
      BY <1>2 DEF GetAccessToken, TokenAnswer, Resume
    <3>2. \/ UNCHANGED wake
          \/ wake' = [wake EXCEPT ![c] = 0]
      BY <1>2 DEF GetAccessToken, TokenAnswer, Resume
    <3>. QED
      BY <2>1, <3>1, <3>2 DEF PaceInv, PaceTyped, OthersStay
  <2>3. phase' \in [Call -> Phase] /\ phase'[c] = "attempt" /\ stage'[c] \in {"reasons", "cancel"}
        /\ DOMAIN stage' = Call
    BY <2>1 DEF PaceInv, PaceTyped, Phase
  <2>. QED
    BY <2>1, <2>2, <2>3, CallMoves
<1>3. CASE TimesOut(c) \/ Fails(c)
  <2>1. phase[c] = "sent" /\ UNCHANGED <<now, pace>> /\ (Retry(c) \/ End(c, "error"))
    BY <1>3 DEF TimesOut, Fails, GiveUp
  <2>. QED
    BY <2>1, RetryMoves, EndMoves, CallMoves
<1>4. CASE IsRefused(c) \/ CancelAnswer(c)
  <2>1. UNCHANGED <<now, pace>> /\ \E r : End(c, r)
    BY <1>4 DEF IsRefused, CancelAnswer
  <2>. QED
    BY <2>1, EndMoves, CallMoves
<1>5. CASE ReasonsAnswer(c)
  <2>1. CASE End(c, "refused")
    BY <1>5, <2>1, EndMoves, CallMoves DEF ReasonsAnswer
  <2>2. CASE /\ stage' = [stage EXCEPT ![c] = "cancel"] /\ phase' = [phase EXCEPT ![c] = "token"]
             /\ token' = [token EXCEPT ![c] = None] /\ wake' = [wake EXCEPT ![c] = 0]
    <3>1. OthersStay(c) /\ phase' \in [Call -> Phase] /\ phase'[c] = "token"
          /\ stage'[c] \in {"reasons", "cancel"}
          /\ DOMAIN stage' = Call /\ DOMAIN token' = Call /\ DOMAIN wake' = Call
      BY <2>2 DEF PaceInv, PaceTyped, OthersStay, Phase
    <3>. QED
      BY <1>5, <3>1, CallMoves DEF ReasonsAnswer
  <2>. QED
    BY <1>5, <2>1, <2>2 DEF ReasonsAnswer
<1>. QED
  BY <1>1, <1>2, <1>3, <1>4, <1>5

(* The steps of the queue.                                                 *)
LEMMA AttemptKeepsPace ==
  ASSUME PaceInv, NEW c \in Call, Attempt(c)
  PROVE  PaceInv'
<1>. DEFINE e == Asked(c)
<1>1. phase[c] = "attempt" /\ stage[c] \in {"reasons", "cancel"}
      /\ UNCHANGED <<now, stage, token, lastRequestAt>>
  BY DEF Attempt, PaceInv
<1>2. CASE MinInterval[e] = 0
  <2>1. phase' = [phase EXCEPT ![c] = "sent"] /\ wake' = [wake EXCEPT ![c] = now + Timeout]
        /\ UNCHANGED queue
    BY <1>2 DEF Attempt
  <2>2. OthersStay(c) /\ phase' \in [Call -> Phase] /\ phase'[c] = "sent"
        /\ DOMAIN stage' = Call /\ DOMAIN token' = Call /\ DOMAIN wake' = Call
    BY <1>1, <2>1 DEF PaceInv, PaceTyped, OthersStay, Phase
  <2>. QED
    BY <1>1, <2>1, <2>2, CallMoves DEF pace
<1>3. CASE MinInterval[e] # 0
  <2>1. phase' = [phase EXCEPT ![c] = "queued"] /\ UNCHANGED wake
        /\ queue' = [queue EXCEPT ![e] = Append(@, c)]
    BY <1>3 DEF Attempt
  <2>2. e \in Endpoint /\ queue[e] \in Seq(Call)
    BY <1>1, AskedIsEndpoint
  <2>3. \A b \in Call : Asked(b)' = Asked(b)
    BY <1>1 DEF Asked
  <2>4. queue' \in [Endpoint -> Seq(Call)] /\ queue'[e] = Append(queue[e], c)
        /\ \A f \in Endpoint \ {e} : queue'[f] = queue[f]
    BY <2>1, <2>2 DEF PaceInv, PaceTyped
  <2>5. PaceTyped'
    BY <1>1, <2>1, <2>4 DEF PaceInv, PaceTyped, Phase
  <2>6. \A b \in Call \ {c} : phase'[b] = phase[b]
    BY <2>1 DEF PaceInv, PaceTyped
  <2>7. phase'[c] = "queued"
    BY <2>1 DEF PaceInv, PaceTyped
  <2>8. ASSUME NEW f \in Endpoint, NEW k \in DOMAIN queue[f]
        PROVE  k \in DOMAIN queue'[f] /\ queue'[f][k] = queue[f][k]
    <3>1. CASE f = e
      BY <2>2, <2>4, <3>1
    <3>2. CASE f # e
      BY <2>4, <3>2
    <3>. QED
      BY <3>1, <3>2
  <2>9. ASSUME NEW b \in Call, phase'[b] \in {"queued", "paced"}
        PROVE  Waits(b)'
    <3>1. CASE b = c
      <4>1. Len(queue[e]) + 1 \in DOMAIN queue'[e] /\ queue'[e][Len(queue[e]) + 1] = c
        BY <2>2, <2>4
      <4>. QED
        BY <2>3, <3>1, <4>1 DEF Waits
    <3>2. CASE b # c
      <4>1. phase[b] \in {"queued", "paced"} /\ Waits(b)
        BY <2>6, <2>9, <3>2 DEF PaceInv
      <4>2. Asked(b) \in Endpoint
        BY <4>1, AskedIsEndpoint
      <4>3. PICK k \in DOMAIN queue[Asked(b)] : queue[Asked(b)][k] = b
        BY <4>1 DEF Waits
      <4>4. k \in DOMAIN queue'[Asked(b)] /\ queue'[Asked(b)][k] = b
        BY <2>8, <4>2, <4>3
      <4>. QED
        BY <2>3, <4>4 DEF Waits
    <3>. QED
      BY <3>1, <3>2
  <2>10. ASSUME NEW b \in Call, phase'[b] = "paced"
         PROVE  (/\ MyTurn(b) /\ wake[b] \in Int
                 /\ wake[b] >= lastRequestAt[Asked(b)] + MinInterval[Asked(b)])'
    <3>1. b # c /\ phase[b] = "paced"
      BY <2>6, <2>7, <2>10
    <3>2. Asked(b) \in Endpoint /\ queue[Asked(b)] \in Seq(Call)
      BY <3>1, AskedIsEndpoint
    <3>3. Waits(b) /\ Head(queue[Asked(b)]) = b
      BY <3>1 DEF PaceInv, MyTurn
    <3>4. PICK k \in DOMAIN queue[Asked(b)] : queue[Asked(b)][k] = b
      BY <3>3 DEF Waits
    <3>5. Len(queue[Asked(b)]) >= 1 /\ 1 \in DOMAIN queue[Asked(b)] /\ queue[Asked(b)][1] = b
      BY <3>2, <3>3, <3>4
    <3>6. 1 \in DOMAIN queue'[Asked(b)] /\ queue'[Asked(b)][1] = b
      BY <2>8, <3>2, <3>5
    <3>7. queue'[Asked(b)] \in Seq(Call)
      BY <2>4, <3>2
    <3>8. Head(queue'[Asked(b)]) = b
      BY <3>6, <3>7
    <3>. QED
      BY <1>1, <2>1, <2>3, <3>1, <3>8 DEF PaceInv, MyTurn
  <2>11. \A b \in Call : (phase[b] \notin {"idle", "ended"} => stage[b] \in {"reasons", "cancel"})'
    BY <1>1, <2>6 DEF PaceInv
  <2>. QED
    BY <1>1, <2>5, <2>9, <2>10, <2>11 DEF PaceInv
<1>. QED
  BY <1>2, <1>3

LEMMA PaceKeepsPace ==
  ASSUME PaceInv, NEW c \in Call, Pace(c)
  PROVE  PaceInv'
<1>. DEFINE next == lastRequestAt[Asked(c)] + MinInterval[Asked(c)]
            w == IF next > now THEN next ELSE now
<1>1. /\ phase[c] = "queued" /\ MyTurn(c)
      /\ wake' = [wake EXCEPT ![c] = w] /\ phase' = [phase EXCEPT ![c] = "paced"]
      /\ UNCHANGED <<now, stage, token, queue, lastRequestAt>>
  BY DEF Pace, pace
<1>2. next \in Int /\ w \in Int /\ w >= next
  BY <1>1, AskedIsEndpoint DEF PaceInv, PaceTyped
<1>. HIDE DEF w
<1>3. wake'[c] = w /\ phase'[c] = "paced"
      /\ \A b \in Call \ {c} : wake'[b] = wake[b] /\ phase'[b] = phase[b]
  BY <1>1 DEF PaceInv, PaceTyped
<1>4. \A b \in Call : Asked(b)' = Asked(b)
  BY <1>1 DEF Asked
<1>5. PaceTyped'
  BY <1>1 DEF PaceInv, PaceTyped, Phase
<1>6. \A b \in Call : (phase[b] \notin {"idle", "ended"} => stage[b] \in {"reasons", "cancel"})'
  BY <1>1, <1>3 DEF PaceInv
<1>7. \A b \in Call : (phase[b] \in {"queued", "paced"} => Waits(b))'
  BY <1>1, <1>3, <1>4 DEF PaceInv, Waits
<1>8. ASSUME NEW b \in Call, phase'[b] = "paced"
      PROVE  (/\ MyTurn(b) /\ wake[b] \in Int
              /\ wake[b] >= lastRequestAt[Asked(b)] + MinInterval[Asked(b)])'
  <2>1. CASE b = c
    BY <1>1, <1>2, <1>3, <1>4, <2>1 DEF MyTurn
  <2>2. CASE b # c
    BY <1>1, <1>3, <1>4, <1>8, <2>2 DEF PaceInv, MyTurn
  <2>. QED
    BY <2>1, <2>2
<1>. QED
  BY <1>1, <1>5, <1>6, <1>7, <1>8 DEF PaceInv

LEMMA SendKeepsPace ==
  ASSUME PaceInv, NEW c \in Call, Send(c)
  PROVE  PaceInv'
<1>. DEFINE e == Asked(c)
<1>1. /\ phase[c] = "paced"
      /\ lastRequestAt' = [lastRequestAt EXCEPT ![e] = now]
      /\ queue' = [queue EXCEPT ![e] = Tail(@)]
      /\ phase' = [phase EXCEPT ![c] = "sent"]
      /\ wake' = [wake EXCEPT ![c] = now + Timeout]
      /\ UNCHANGED <<now, stage, token>>
  BY DEF Send, Released
<1>2. e \in Endpoint /\ queue[e] \in Seq(Call) /\ MyTurn(c) /\ Waits(c)
  BY <1>1, AskedIsEndpoint DEF PaceInv
<1>3. queue[e] # <<>> /\ Head(queue[e]) = c /\ Tail(queue[e]) \in Seq(Call)
  BY <1>2 DEF Waits, MyTurn
<1>4. \A b \in Call : Asked(b)' = Asked(b)
  BY <1>1 DEF Asked
<1>5. phase'[c] = "sent" /\ \A b \in Call \ {c} : wake'[b] = wake[b] /\ phase'[b] = phase[b]
  BY <1>1 DEF PaceInv, PaceTyped
<1>6. /\ queue'[e] = Tail(queue[e]) /\ lastRequestAt'[e] = now
      /\ \A f \in Endpoint \ {e} : queue'[f] = queue[f] /\ lastRequestAt'[f] = lastRequestAt[f]
  BY <1>1, <1>2 DEF PaceInv, PaceTyped
<1>7. PaceTyped'
  BY <1>1, <1>3 DEF PaceInv, PaceTyped, Phase
<1>8. \A f \in Endpoint : (lastRequestAt[f] <= now)'
  BY <1>1, <1>6 DEF PaceInv, PaceTyped
<1>9. \A b \in Call : (phase[b] \notin {"idle", "ended"} => stage[b] \in {"reasons", "cancel"})'
  BY <1>1, <1>5 DEF PaceInv
<1>10. ASSUME NEW b \in Call, phase'[b] \in {"queued", "paced"}
       PROVE  Waits(b)'
  <2>1. b # c /\ Waits(b) /\ Asked(b) \in Endpoint
    BY <1>5, <1>10, AskedIsEndpoint DEF PaceInv
  <2>2. PICK k \in DOMAIN queue[Asked(b)] : queue[Asked(b)][k] = b
    BY <2>1 DEF Waits
  <2>3. CASE Asked(b) # e
    BY <1>4, <1>6, <2>1, <2>2, <2>3 DEF Waits
  <2>4. CASE Asked(b) = e
    <3>1. k \in 1..Len(queue[e]) /\ queue[e][1] = c /\ queue[e][k] = b
      BY <1>2, <1>3, <2>2, <2>4
    <3>2. k # 1
      BY <2>1, <3>1
    <3>3. k - 1 \in DOMAIN Tail(queue[e]) /\ Tail(queue[e])[k - 1] = b
      BY <1>2, <1>3, <3>1, <3>2
    <3>. QED
      BY <1>4, <1>6, <2>4, <3>3 DEF Waits
  <2>. QED
    BY <2>3, <2>4
<1>11. ASSUME NEW b \in Call, phase'[b] = "paced"
       PROVE  (/\ MyTurn(b) /\ wake[b] \in Int
               /\ wake[b] >= lastRequestAt[Asked(b)] + MinInterval[Asked(b)])'
  <2>1. b # c /\ phase[b] = "paced" /\ Asked(b) \in Endpoint
    BY <1>5, <1>11, AskedIsEndpoint
  <2>2. MyTurn(b) /\ wake[b] \in Int
        /\ wake[b] >= lastRequestAt[Asked(b)] + MinInterval[Asked(b)]
    BY <2>1 DEF PaceInv
  <2>3. Asked(b) # e
    BY <1>3, <2>1, <2>2 DEF MyTurn
  <2>. QED
    BY <1>4, <1>5, <1>6, <2>1, <2>2, <2>3 DEF MyTurn
<1>. QED
  BY <1>7, <1>8, <1>9, <1>10, <1>11 DEF PaceInv

(* Time, and what arrives late.                                            *)
LEMMA ClockKeepsPace ==
  ASSUME PaceInv, UNCHANGED <<call, pace>>, now' = now \/ now' = now + 1
  PROVE  PaceInv'
<1>1. PaceTyped' /\ \A e \in Endpoint : (lastRequestAt[e] <= now)'
  BY DEF PaceInv, PaceTyped, call, pace
<1>2. \A b \in Call : Asked(b)' = Asked(b)
  BY DEF Asked, call
<1>3. \A b \in Call : (phase[b] \notin {"idle", "ended"} => stage[b] \in {"reasons", "cancel"})'
  BY DEF PaceInv, call
<1>4. \A b \in Call : (phase[b] \in {"queued", "paced"} => Waits(b))'
  BY <1>2 DEF PaceInv, Waits, call, pace
<1>5. ASSUME NEW b \in Call, phase'[b] = "paced"
      PROVE  (/\ MyTurn(b) /\ wake[b] \in Int
              /\ wake[b] >= lastRequestAt[Asked(b)] + MinInterval[Asked(b)])'
  BY <1>2, <1>5 DEF PaceInv, MyTurn, call, pace
<1>. QED
  BY <1>1, <1>3, <1>4, <1>5 DEF PaceInv

LEMMA PaceStep == PaceInv /\ [Next]_vars => PaceInv'
<1>. SUFFICES ASSUME PaceInv, [Next]_vars
              PROVE  PaceInv'
  OBVIOUS
<1>1. ASSUME NEW c \in Call, Start(c) \/ GoesOn(c) \/ Fails(c) \/ IsRefused(c)
      PROVE  PaceInv'
  BY <1>1, QuietSteps, AttemptKeepsPace, PaceKeepsPace, SendKeepsPace DEF GoesOn
<1>2. CASE LateCancel \/ Tick \/ UNCHANGED vars
  BY <1>2, ClockKeepsPace DEF LateCancel, Tick, vars
<1>. QED
  BY <1>1, <1>2 DEF Next

LEMMA PaceStarts == Init => PaceInv
BY ClientAssumption DEF Init, PaceInv, PaceTyped, Phase, Endpoint

(* The reservations of an endpoint and its sends stay in their order, from *)
(* waitForEndpointRateLimit to the last retry of request.                  *)
THEOREM PaceInvariant == Spec => []PaceInv
BY PaceStarts, PaceStep, PTL DEF Spec

(* A step that sends keeps its distance from the send before.              *)
LEMMA SendsApart ==
  ASSUME PaceInv, Next, NEW c \in Call, phase[c] # "sent", phase'[c] = "sent"
  PROVE  now - lastRequestAt[Asked(c)] >= MinInterval[Asked(c)]
<1>1. Attempt(c) \/ Send(c)
  <2>1. ASSUME NEW b \in Call, Start(b) \/ GoesOn(b) \/ Fails(b) \/ IsRefused(b)
        PROVE  Attempt(c) \/ Send(c)
    <3>1. \/ Attempt(b) \/ Send(b)
          \/ \E to \in Phase \ {"sent"} : phase' = [phase EXCEPT ![b] = to]
      BY <2>1 DEF GoesOn, Start, GetAccessToken, Pace, TimesOut, Fails, IsRefused, Resume,
         TokenAnswer, ReasonsAnswer, CancelAnswer, Retry, GiveUp, End, Phase
    <3>2. ~ \E to \in Phase \ {"sent"} : phase' = [phase EXCEPT ![b] = to]
      BY DEF PaceInv, PaceTyped
    <3>3. Attempt(b) \/ Send(b)
      BY <3>1, <3>2
    <3>4. \E to : phase' = [phase EXCEPT ![b] = to]
      BY <3>3 DEF Attempt, Send
    <3>5. b = c
      BY <3>4 DEF PaceInv, PaceTyped
    <3>. QED
      BY <3>3, <3>5
  <2>2. ~ (LateCancel \/ Tick)
    BY DEF LateCancel, Tick, call
  <2>. QED
    BY <2>1, <2>2 DEF Next
<1>2. phase[c] \notin {"idle", "ended"} /\ now \in Nat
  BY <1>1 DEF Attempt, Send, PaceInv, PaceTyped
<1>3. /\ Asked(c) \in Endpoint /\ MinInterval[Asked(c)] \in Nat
      /\ lastRequestAt[Asked(c)] \in Nat /\ lastRequestAt[Asked(c)] <= now
  BY <1>2, AskedIsEndpoint DEF PaceInv
<1>4. CASE Attempt(c)
  <2>1. MinInterval[Asked(c)] = 0
    BY <1>4 DEF Attempt, PaceInv, PaceTyped
  <2>. QED
    BY <1>2, <1>3, <2>1
<1>5. CASE Send(c)
  <2>1. now >= wake[c] /\ wake[c] \in Int
        /\ wake[c] >= lastRequestAt[Asked(c)] + MinInterval[Asked(c)]
    BY <1>5 DEF Send, PaceInv
  <2>. QED
    BY <1>2, <1>3, <2>1
<1>. QED
  BY <1>1, <1>4, <1>5

(* Whoever asks an endpoint, however the attempts of one request fail and  *)
(* are repeated, two sends are its interval apart (SpacedOut).             *)
THEOREM SendsAreSpaced == Spec => SpacedOut
<1>. DEFINE Apart == \A c \in Call :
              phase[c] # "sent" /\ phase'[c] = "sent"
              => now - lastRequestAt[Asked(c)] >= MinInterval[Asked(c)]
<1>1. PaceInv /\ [Next]_vars => [Apart]_vars
  BY SendsApart
<1>. QED
  BY <1>1, PaceInvariant, PTL DEF Spec, SpacedOut

-----------------------------------------------------------------------------
(* What a caller is told                                                   *)

ToldInv ==
  /\ DOMAIN phase = Call /\ DOMAIN result = Call /\ DOMAIN order = Call
  /\ \A c \in Call : phase[c] # "ended" => result[c] = None
  /\ AcceptedIsCancelling

LEMMA ToldStep ==
  ASSUME ToldInv, Next
  PROVE  ToldInv'
<1>0. None # "accepted"
  BY ClientAssumption DEF Result
<1>1. cancelling \subseteq cancelling'
  BY DEF Next, Start, GoesOn, Fails, IsRefused, LateCancel, Tick, GetAccessToken, Attempt, Pace,
     Send, TimesOut, Resume, TokenAnswer, ReasonsAnswer, CancelAnswer, ifood
<1>2. CASE LateCancel \/ Tick
  <2>1. UNCHANGED <<phase, result, order>>
    BY <1>2 DEF LateCancel, Tick, call
  <2>. QED
    BY <1>1, <2>1 DEF ToldInv, AcceptedIsCancelling
<1>3. ASSUME NEW c \in Call, Start(c)
      PROVE  ToldInv'
  <2>1. /\ phase[c] = "idle" /\ phase' = [phase EXCEPT ![c] = "token"] /\ UNCHANGED result
        /\ \E o \in Order : order' = [order EXCEPT ![c] = o]
    BY <1>3 DEF Start
  <2>2. result[c] = None
    BY <2>1 DEF ToldInv
  <2>. QED
    BY <1>0, <1>1, <2>1, <2>2 DEF ToldInv, AcceptedIsCancelling
<1>4. ASSUME NEW c \in Call, GoesOn(c) \/ Fails(c) \/ IsRefused(c)
      PROVE  ToldInv'
  <2>1. UNCHANGED order
    BY <1>4 DEF GoesOn, Fails, IsRefused, GetAccessToken, Attempt, Pace, Send, TimesOut, Resume,
       TokenAnswer, ReasonsAnswer, CancelAnswer
  <2>2. \/ /\ UNCHANGED result
           /\ phase[c] # "ended"
           /\ \E to \in Phase \ {"ended"} : phase' = [phase EXCEPT ![c] = to]
        \/ \E r \in {"refused", "error"} : End(c, r)
        \/ End(c, "accepted") /\ order[c] \in cancelling'
    BY <1>4 DEF GoesOn, Fails, IsRefused, GetAccessToken, Attempt, Pace, Send, TimesOut, Resume,
       TokenAnswer, ReasonsAnswer, CancelAnswer, Retry, GiveUp, Phase
  <2>3. ASSUME UNCHANGED result, phase[c] # "ended",
               NEW to \in Phase \ {"ended"}, phase' = [phase EXCEPT ![c] = to]
        PROVE  ToldInv'
    BY <1>1, <2>1, <2>3 DEF ToldInv, AcceptedIsCancelling
  <2>4. ASSUME NEW r \in {"refused", "error"}, End(c, r)
        PROVE  ToldInv'
    BY <1>1, <2>1, <2>4 DEF ToldInv, AcceptedIsCancelling, End
  <2>5. ASSUME End(c, "accepted"), order[c] \in cancelling'
        PROVE  ToldInv'
    BY <1>1, <2>1, <2>5 DEF ToldInv, AcceptedIsCancelling, End
  <2>. QED
    BY <2>2, <2>3, <2>4, <2>5
<1>. QED
  BY <1>2, <1>3, <1>4 DEF Next

(* However attempts are lost, repeated or arrive late, a caller who is     *)
(* told that its cancellation was accepted is told the truth               *)
(* (AcceptedIsCancelling).                                                 *)
THEOREM AcceptedIsTrue == Spec => []AcceptedIsCancelling
<1>1. Init => ToldInv
  BY ClientAssumption DEF Init, ToldInv, AcceptedIsCancelling, Result
<1>2. ToldInv /\ [Next]_vars => ToldInv'
  <2>1. ToldInv /\ UNCHANGED vars => ToldInv'
    BY DEF ToldInv, AcceptedIsCancelling, vars, call, ifood
  <2>. QED
    BY <2>1, ToldStep
<1>3. ToldInv => AcceptedIsCancelling
  BY DEF ToldInv
<1>. QED
  BY <1>1, <1>2, <1>3, PTL DEF Spec

-----------------------------------------------------------------------------
(* Types                                                                   *)

(* A power of two is the number of subsets of an interval.                 *)
LEMMA PowerIsNat ==
  ASSUME NEW n \in Nat
  PROVE  2 ^ n \in Nat
<1>1. IsFiniteSet(1..n) /\ Cardinality(1..n) = n
  BY FS_Interval
<1>. QED
  BY <1>1, FS_SUBSET, FS_CardinalityType

LEMMA PowersGrow ==
  ASSUME NEW m \in Nat, NEW n \in Nat, m <= n
  PROVE  2 ^ m <= 2 ^ n
<1>1. /\ IsFiniteSet(1..m) /\ Cardinality(1..m) = m
      /\ IsFiniteSet(1..n) /\ Cardinality(1..n) = n
  BY FS_Interval
<1>2. 1..m \subseteq 1..n
  OBVIOUS
<1>3. Cardinality(SUBSET (1..m)) <= Cardinality(SUBSET (1..n))
  <2>1. SUBSET (1..m) \in SUBSET SUBSET (1..n)
    BY <1>2
  <2>2. IsFiniteSet(SUBSET (1..n))
    BY <1>1, FS_SUBSET
  <2>. QED
    BY <2>1, <2>2, FS_Subset
<1>. QED
  BY <1>1, <1>3, FS_SUBSET

(* What a call has when it needs it: an order, an attempt left, an attempt *)
(* to answer for, a time limit that is not over before it began.           *)
CallsFit ==
  \A c \in Call :
    /\ phase[c] # "idle" => order[c] \in Order
    /\ phase[c] \in {"attempt", "backoff"} => attempts[c] < MaxAttempts
    /\ phase[c] \in {"queued", "paced", "sent", "backoff"} => attempts[c] >= 1
    /\ phase[c] = "sent" => wake[c] >= Timeout

ClientInv == PaceInv /\ TypeOK /\ CallsFit

(* The backoff before the next attempt, and when it is over.               *)
LEMMA BackoffIsNat ==
  ASSUME ClientInv, NEW c \in Call, phase[c] = "sent", NEW jitter \in 0..(Base - 1)
  PROVE  now + Base * 2 ^ (attempts[c] - 1) + jitter \in Nat
<1>1. attempts[c] - 1 \in Nat /\ now \in Nat /\ Base \in Nat /\ jitter \in Nat
  BY ClientAssumption DEF ClientInv, TypeOK, CallsFit
<1>2. 2 ^ (attempts[c] - 1) \in Nat
  BY <1>1, PowerIsNat
<1>. HIDE <1>1
<1>3. ASSUME NEW n \in Nat, NEW b \in Nat, NEW p \in Nat, NEW j \in Nat
      PROVE  n + b * p + j \in Nat
  <2>1. b * p \in Nat
    OBVIOUS
  <2>. QED
    BY <2>1
<1>. QED
  BY <1>1, <1>2, <1>3

LEMMA EndKeepsTypes ==
  ASSUME ClientInv, NEW c \in Call, phase[c] = "sent", NEW r \in Result, End(c, r),
         UNCHANGED <<now, order, pace, cache>>,
         cancelling' \subseteq Order, late' \subseteq Order
  PROVE  TypeOK' /\ CallsFit'
<1>1. 0 \in 0..MaxAttempts /\ 0 \in Nat
  BY ClientAssumption
<1>2. TypeOK'
  BY <1>1 DEF ClientInv, TypeOK, End, pace, Phase
<1>3. phase'[c] = "ended" /\ \A b \in Call \ {c} :
        phase'[b] = phase[b] /\ attempts'[b] = attempts[b] /\ wake'[b] = wake[b]
  BY DEF ClientInv, TypeOK, End
<1>4. CallsFit'
  BY <1>3 DEF ClientInv, CallsFit
<1>. QED
  BY <1>2, <1>4

LEMMA RetryKeepsTypes ==
  ASSUME ClientInv, NEW c \in Call, phase[c] = "sent", Retry(c),
         UNCHANGED <<now, order, pace, cache>>,
         cancelling' \subseteq Order, late' \subseteq Order
  PROVE  TypeOK' /\ CallsFit'
<1>1. PICK jitter \in 0..(Base - 1) :
        wake' = [wake EXCEPT ![c] = now + Base * 2 ^ (attempts[c] - 1) + jitter]
  BY DEF Retry
<1>2. now + Base * 2 ^ (attempts[c] - 1) + jitter \in Nat
  BY BackoffIsNat
<1>3. wake' \in [Call -> Nat] /\ \A b \in Call \ {c} : wake'[b] = wake[b]
  BY <1>1, <1>2 DEF ClientInv, TypeOK
<1>4. /\ attempts[c] < MaxAttempts /\ phase' = [phase EXCEPT ![c] = "backoff"]
      /\ UNCHANGED <<stage, token, attempts, result>>
  BY DEF Retry, MayRetry
<1>. QED
  BY <1>3, <1>4 DEF ClientInv, TypeOK, CallsFit, pace, Phase

LEMMA ClientStep == ClientInv /\ [Next]_vars => ClientInv'
<1>. SUFFICES ASSUME ClientInv, [Next]_vars
              PROVE  TypeOK' /\ CallsFit'
  BY PaceStep DEF ClientInv
<1>. USE ClientAssumption
<1>0. \A c \in Call : phase[c] # "idle" => ProfileOf(order[c]) \in Profile /\ order[c] \in Order
  BY DEF ClientInv, CallsFit, ProfileOf
<1>1. ASSUME NEW c \in Call, Start(c)
      PROVE  TypeOK' /\ CallsFit'
  BY <1>1 DEF ClientInv, TypeOK, CallsFit, Start, pace, ifood, Phase, Endpoint
<1>2. ASSUME NEW c \in Call, GetAccessToken(c)
      PROVE  TypeOK' /\ CallsFit'
  <2>1. cache[ProfileOf(order[c])] \in Token \cup {None}
    BY <1>0, <1>2 DEF ClientInv, TypeOK, GetAccessToken
  <2>. QED
    BY <1>2, <2>1 DEF ClientInv, TypeOK, CallsFit, GetAccessToken, pace, ifood, Phase
<1>3. ASSUME NEW c \in Call, Attempt(c)
      PROVE  TypeOK' /\ CallsFit'
  <2>0. order[c] \in Order
    BY <1>0, <1>3 DEF Attempt
  <2>1. Asked(c) \in Endpoint /\ queue[Asked(c)] \in Seq(Call)
    BY <1>3, AskedIsEndpoint DEF ClientInv, Attempt
  <2>2. /\ attempts[c] < MaxAttempts /\ attempts[c] \in Nat
        /\ attempts' = [attempts EXCEPT ![c] = @ + 1]
        /\ UNCHANGED <<now, stage, order, token, result, lastRequestAt, cache, cancelling, late>>
    BY <1>3 DEF ClientInv, TypeOK, CallsFit, Attempt, ifood
  <2>3. CASE MinInterval[Asked(c)] = 0
    <3>1. /\ phase' = [phase EXCEPT ![c] = "sent"]
          /\ wake' = [wake EXCEPT ![c] = now + Timeout] /\ UNCHANGED queue
      BY <1>3, <2>3 DEF Attempt
    <3>2. now + Timeout \in Nat /\ now + Timeout >= Timeout
      BY DEF ClientInv, TypeOK
    <3>3. attempts[c] + 1 \in 0..MaxAttempts /\ attempts[c] + 1 >= 1
      BY <2>2
    <3>4. TypeOK'
      <4>1. attempts' \in [Call -> 0..MaxAttempts]
        BY <2>2, <3>3 DEF ClientInv, TypeOK
      <4>2. phase' \in [Call -> Phase] /\ wake' \in [Call -> Nat]
        BY <3>1, <3>2 DEF ClientInv, TypeOK, Phase
      <4>. QED
        BY <2>2, <3>1, <3>2, <4>1, <4>2 DEF ClientInv, TypeOK
    <3>5. CallsFit'
      <4>1. /\ phase'[c] = "sent" /\ attempts'[c] >= 1 /\ wake'[c] >= Timeout
            /\ \A b \in Call \ {c} :
                 phase'[b] = phase[b] /\ attempts'[b] = attempts[b] /\ wake'[b] = wake[b]
        BY <2>2, <3>1, <3>2, <3>3 DEF ClientInv, TypeOK
      <4>. QED
        BY <2>0, <2>2, <4>1 DEF ClientInv, CallsFit
    <3>. QED
      BY <3>4, <3>5
  <2>4. CASE MinInterval[Asked(c)] # 0
    <3>1. /\ phase' = [phase EXCEPT ![c] = "queued"] /\ UNCHANGED wake
          /\ queue' = [queue EXCEPT ![Asked(c)] = Append(@, c)]
      BY <1>3, <2>4 DEF Attempt
    <3>2. queue' \in [Endpoint -> Seq(Call)]
      BY <2>1, <3>1 DEF ClientInv, TypeOK
    <3>3. attempts[c] + 1 \in 0..MaxAttempts /\ attempts[c] + 1 >= 1
      BY <2>2
    <3>4. TypeOK'
      <4>1. attempts' \in [Call -> 0..MaxAttempts]
        BY <2>2, <3>3 DEF ClientInv, TypeOK
      <4>2. phase' \in [Call -> Phase] /\ wake' \in [Call -> Nat]
        BY <3>1, <3>2 DEF ClientInv, TypeOK, Phase
      <4>. QED
        BY <2>2, <3>1, <3>2, <4>1, <4>2 DEF ClientInv, TypeOK
    <3>5. CallsFit'
      <4>1. /\ phase'[c] = "queued" /\ attempts'[c] >= 1
            /\ \A b \in Call \ {c} :
                 phase'[b] = phase[b] /\ attempts'[b] = attempts[b] /\ wake'[b] = wake[b]
        BY <2>2, <3>1, <3>3 DEF ClientInv, TypeOK
      <4>. QED
        BY <2>0, <2>2, <4>1 DEF ClientInv, CallsFit
    <3>. QED
      BY <3>4, <3>5
  <2>. QED
    BY <2>3, <2>4
<1>4. ASSUME NEW c \in Call, Pace(c)
      PROVE  TypeOK' /\ CallsFit'
  <2>1. lastRequestAt[Asked(c)] \in Nat /\ MinInterval[Asked(c)] \in Nat
    BY <1>4, AskedIsEndpoint DEF ClientInv, Pace
  <2>. QED
    BY <1>4, <2>1 DEF ClientInv, TypeOK, CallsFit, Pace, pace, ifood, Phase
<1>5. ASSUME NEW c \in Call, Send(c)
      PROVE  TypeOK' /\ CallsFit'
  <2>1. Asked(c) \in Endpoint /\ queue[Asked(c)] \in Seq(Call) /\ queue[Asked(c)] # <<>>
    BY <1>5, AskedIsEndpoint DEF ClientInv, Send, PaceInv, Waits
  <2>2. queue' \in [Endpoint -> Seq(Call)]
    BY <1>5, <2>1 DEF ClientInv, TypeOK, Send, Released
  <2>. QED
    BY <1>5, <2>1, <2>2 DEF ClientInv, TypeOK, CallsFit, Send, ifood, Phase
<1>6. ASSUME NEW c \in Call, TimesOut(c) \/ Fails(c)
      PROVE  TypeOK' /\ CallsFit'
  <2>1. /\ phase[c] = "sent" /\ (Retry(c) \/ End(c, "error"))
        /\ UNCHANGED <<now, order, pace, cache>>
    BY <1>6 DEF TimesOut, Fails, GiveUp
  <2>2. cancelling' \subseteq Order /\ late' \subseteq Order
    BY <1>0, <1>6 DEF TimesOut, Fails, ClientInv, TypeOK
  <2>. QED
    BY <2>1, <2>2, EndKeepsTypes, RetryKeepsTypes DEF Result
<1>7. ASSUME NEW c \in Call, IsRefused(c) \/ CancelAnswer(c)
      PROVE  TypeOK' /\ CallsFit'
  <2>1. /\ phase[c] = "sent" /\ \E r \in Result : End(c, r)
        /\ UNCHANGED <<now, order, pace, cache>>
    BY <1>7 DEF IsRefused, CancelAnswer, Result
  <2>2. cancelling' \subseteq Order /\ late' \subseteq Order
    BY <1>0, <1>7 DEF IsRefused, CancelAnswer, ifood, ClientInv, TypeOK
  <2>. QED
    BY <2>1, <2>2, EndKeepsTypes
<1>8. ASSUME NEW c \in Call, Resume(c)
      PROVE  TypeOK' /\ CallsFit'
  BY <1>8 DEF ClientInv, TypeOK, CallsFit, Resume, pace, ifood, Phase
<1>9. ASSUME NEW c \in Call, TokenAnswer(c)
      PROVE  TypeOK' /\ CallsFit'
  <2>1. PICK at \in (wake[c] - Timeout)..now :
          LET t == [profile |-> ProfileOf(order[c]), until |-> at + Life,
                    expiresAt |-> now + Life]
          IN token' = [token EXCEPT ![c] = t]
             /\ cache' = [cache EXCEPT ![ProfileOf(order[c])] = t]
    BY <1>9 DEF TokenAnswer
  <2>. DEFINE t == [profile |-> ProfileOf(order[c]), until |-> at + Life,
                    expiresAt |-> now + Life]
  <2>2. wake[c] - Timeout \in Nat /\ now \in Nat
    BY <1>9 DEF TokenAnswer, ClientInv, TypeOK, CallsFit
  <2>3. at + Life \in Nat /\ now + Life \in Nat
    BY <2>2
  <2>4. t \in Token
    BY <1>0, <1>9, <2>3 DEF Token, TokenAnswer
  <2>. HIDE DEF t
  <2>5. token' \in [Call -> Token \cup {None}] /\ cache' \in [Profile -> Token \cup {None}]
    BY <2>1, <2>4 DEF ClientInv, TypeOK, t
  <2>. QED
    BY <1>9, <2>5 DEF ClientInv, TypeOK, CallsFit, TokenAnswer, pace, ifood, Phase
<1>10. ASSUME NEW c \in Call, ReasonsAnswer(c)
       PROVE  TypeOK' /\ CallsFit'
  <2>1. CASE End(c, "refused")
    BY <1>10, <2>1, EndKeepsTypes DEF ReasonsAnswer, ClientInv, TypeOK, ifood, Result
  <2>2. CASE ~ End(c, "refused")
    <3>1. /\ stage' = [stage EXCEPT ![c] = "cancel"] /\ phase' = [phase EXCEPT ![c] = "token"]
          /\ token' = [token EXCEPT ![c] = None]
          /\ attempts' = [attempts EXCEPT ![c] = 0] /\ wake' = [wake EXCEPT ![c] = 0]
          /\ UNCHANGED <<now, result, order, queue, lastRequestAt, cache, cancelling, late>>
          /\ phase[c] = "sent"
      BY <1>10, <2>2 DEF ReasonsAnswer, pace, ifood
    <3>2. 0 \in 0..MaxAttempts
      OBVIOUS
    <3>. QED
      BY <3>1, <3>2 DEF ClientInv, TypeOK, CallsFit, Phase, Endpoint
  <2>. QED
    BY <2>1, <2>2
<1>11. CASE LateCancel \/ Tick \/ UNCHANGED vars
  BY <1>11 DEF LateCancel, Tick, vars, ClientInv, TypeOK, CallsFit, call, pace, ifood
<1>. QED
  BY <1>1, <1>2, <1>3, <1>4, <1>5, <1>6, <1>7, <1>8, <1>9, <1>10, <1>11 DEF Next, GoesOn

LEMMA ClientStarts == Init => ClientInv
BY PaceStarts, ClientAssumption
   DEF Init, ClientInv, TypeOK, CallsFit, Phase, Endpoint

(* Calls, tokens, queues and timers keep their types, whatever is          *)
(* repeated, refused or late (ifood-http.service.ts, request).             *)
THEOREM ClientTypeCorrect == Spec => []TypeOK
<1>1. ClientInv => TypeOK
  BY DEF ClientInv
<1>. QED
  BY <1>1, ClientStarts, ClientStep, PTL DEF Spec

-----------------------------------------------------------------------------
(* The life of a token                                                     *)

(* What one round of a request may take: its turn at the endpoint behind   *)
(* every other call, the attempt, and the backoff before the next one.     *)
LongestBackoff == Base * 2 ^ (MaxAttempts - 1) + Base
Turns(e, k) == k * MinInterval[e]
LongestRound(e) == Turns(e, Cardinality(Call)) + Timeout + LongestBackoff
Rounds(e, n) == n * LongestRound(e)

Paid == {"reasons", "cancel"}   \* the endpoints that are asked with a token

(* The buffer, and the life of a token, cover the whole request and the    *)
(* answer that brought the token.  The values of the code do: three        *)
(* attempts of 10 s and two backoffs of at most 1 s, unpaced, and 60 s.    *)
BufferSuffices ==
  \A e \in Paid :
    /\ Timeout + Rounds(e, MaxAttempts) <= Buffer
    /\ Timeout + Rounds(e, MaxAttempts) < Life

Left(c) == Rounds(Asked(c), MaxAttempts - attempts[c])

(* When the first of a queue sends.                                        *)
Front(e) ==
  LET first == Head(queue[e])
      next == lastRequestAt[e] + MinInterval[e]
  IN IF phase[first] = "paced" THEN wake[first] ELSE IF next > now THEN next ELSE now

Fits(e, k) ==
  /\ phase[queue[e][k]] \in {"queued", "paced"} /\ Asked(queue[e][k]) = e
  /\ \A j \in DOMAIN queue[e] : queue[e][j] = queue[e][k] => j = k

Timely(c) ==
  /\ HasTimer(c) => now <= wake[c]
  /\ phase[c] = "sent" => wake[c] <= now + Timeout
  /\ phase[c] = "paced" => wake[c] <= now + MinInterval[Asked(c)]

LivesOn(c) ==
  token[c] # None =>
    /\ phase[c] = "attempt" => token[c].until > now + Left(c)
    /\ phase[c] = "sent" => token[c].until > wake[c] + LongestBackoff + Left(c)
    /\ phase[c] = "backoff" => token[c].until > wake[c] + Left(c)

LivesInQueue(e, k) ==
  token[queue[e][k]] # None =>
    token[queue[e][k]].until
      > Front(e) + Turns(e, k - 1) + Timeout + LongestBackoff + Left(queue[e][k])

QueueFits == \A e \in Endpoint : \A k \in DOMAIN queue[e] : Fits(e, k)
TimersAhead == \A c \in Call : Timely(c)
CacheHonest ==
  \A p \in Profile : cache[p] # None => cache[p].until >= cache[p].expiresAt - Timeout
LivesLong ==
  /\ \A c \in Call : LivesOn(c)
  /\ \A e \in Endpoint : \A k \in DOMAIN queue[e] : LivesInQueue(e, k)

(* A token outlives every round its request may still need, counted from   *)
(* the moment the present one ends at the latest: the timer of the call,   *)
(* or the place it has in the queue.                                       *)
TimeInv == ClientInv /\ QueueFits /\ TimersAhead /\ CacheHonest /\ LivesLong

-----------------------------------------------------------------------------
(* Arithmetic, for the operators that the steps below leave folded.        *)

LEMMA Multiples ==
  ASSUME NEW n \in Nat, NEW m \in Nat, NEW i \in Nat, m <= n
  PROVE  n * i \in Nat /\ (n + 1) * i = n * i + i /\ m * i <= n * i
<1>1. n * i \in Nat /\ (n + 1) * i = n * i + i
  OBVIOUS
<1>2. PICK d \in Nat : n = m + d
  <2>1. n - m \in Nat /\ n = m + (n - m)
    OBVIOUS
  <2>. QED
    BY <2>1
<1>3. (m + d) * i = m * i + d * i /\ d * i \in Nat /\ m * i \in Nat
  OBVIOUS
<1>. QED
  BY <1>1, <1>2, <1>3

LEMMA TurnsAdd ==
  ASSUME NEW e \in Endpoint, NEW k \in Nat, NEW n \in Nat, k <= n
  PROVE  /\ Turns(e, k) \in Nat /\ Turns(e, k + 1) = Turns(e, k) + MinInterval[e]
         /\ Turns(e, k) <= Turns(e, n)
<1>1. MinInterval[e] \in Nat
  BY ClientAssumption
<1>. QED
  BY <1>1, Multiples DEF Turns

LEMMA BackoffBound ==
  /\ LongestBackoff \in Nat
  /\ \A n \in 1..MaxAttempts : \A jitter \in 0..(Base - 1) :
       /\ Base * 2 ^ (n - 1) + jitter \in Nat
       /\ Base * 2 ^ (n - 1) + jitter <= LongestBackoff
<1>1. Base \in Nat /\ MaxAttempts \in Nat /\ MaxAttempts >= 1 /\ MaxAttempts - 1 \in Nat
  BY ClientAssumption
<1>2. 2 ^ (MaxAttempts - 1) \in Nat
  BY <1>1, PowerIsNat
<1>3. ASSUME NEW b \in Nat, NEW p \in Nat, NEW q \in Nat, p <= q
      PROVE  b * p \in Nat /\ b * q \in Nat /\ b * p <= b * q
  <2>1. p * b <= q * b /\ q * b \in Nat /\ p * b \in Nat
    BY <1>3, Multiples
  <2>2. p * b = b * p /\ q * b = b * q
    OBVIOUS
  <2>. QED
    BY <2>1, <2>2
<1>4. Base * 2 ^ (MaxAttempts - 1) \in Nat
  BY <1>1, <1>2, <1>3
<1>5. ASSUME NEW n \in 1..MaxAttempts, NEW jitter \in 0..(Base - 1)
      PROVE  /\ Base * 2 ^ (n - 1) + jitter \in Nat
             /\ Base * 2 ^ (n - 1) + jitter <= LongestBackoff
  <2>1. n - 1 \in Nat /\ n - 1 <= MaxAttempts - 1
    BY <1>1
  <2>2. 2 ^ (n - 1) \in Nat /\ 2 ^ (n - 1) <= 2 ^ (MaxAttempts - 1)
    BY <1>1, <2>1, PowerIsNat, PowersGrow
  <2>3. /\ Base * 2 ^ (n - 1) \in Nat
        /\ Base * 2 ^ (n - 1) <= Base * 2 ^ (MaxAttempts - 1)
    BY <1>1, <1>2, <1>3, <2>2
  <2>4. jitter \in Nat /\ jitter <= Base
    BY <1>1
  <2>5. ASSUME NEW x \in Nat, NEW y \in Nat, x <= y
        PROVE  x + jitter \in Nat /\ x + jitter <= y + Base
    BY <1>1, <2>4, <2>5
  <2>. QED
    BY <1>4, <2>3, <2>5 DEF LongestBackoff
<1>6. \A x \in Nat : x + Base \in Nat
  BY <1>1
<1>. QED
  BY <1>4, <1>5, <1>6 DEF LongestBackoff

LEMMA RoundsAdd ==
  ASSUME IsFiniteSet(Call), NEW e \in Endpoint, NEW n \in Nat
  PROVE  /\ Rounds(e, n) \in Nat
         /\ Rounds(e, n + 1)
              = Rounds(e, n) + Turns(e, Cardinality(Call)) + Timeout + LongestBackoff
         /\ Turns(e, Cardinality(Call)) \in Nat
<1>1. Cardinality(Call) \in Nat
  BY FS_CardinalityType
<1>2. Turns(e, Cardinality(Call)) \in Nat
  BY <1>1, TurnsAdd
<1>3. LongestRound(e) \in Nat
  BY <1>2, BackoffBound, ClientAssumption DEF LongestRound
<1>4. Rounds(e, n) \in Nat /\ Rounds(e, n + 1) = Rounds(e, n) + LongestRound(e)
  BY <1>3, Multiples DEF Rounds
<1>. QED
  BY <1>2, <1>4, BackoffBound, ClientAssumption DEF LongestRound

-----------------------------------------------------------------------------
(* Steps beside the queue.                                                 *)

LEMMA TokenTyped ==
  ASSUME ClientInv, NEW c \in Call, token[c] # None
  PROVE  token[c].until \in Nat /\ token[c].expiresAt \in Nat
BY DEF ClientInv, TypeOK, Token

LEMMA QueueTyped ==
  ASSUME TimeInv, NEW e \in Endpoint, NEW k \in DOMAIN queue[e]
  PROVE  /\ queue[e] \in Seq(Call) /\ k \in 1..Len(queue[e]) /\ queue[e][k] \in Call
         /\ 1 \in DOMAIN queue[e] /\ Head(queue[e]) = queue[e][1]
         /\ Head(queue[e]) \in Call /\ Fits(e, 1) /\ Fits(e, k)
<1>1. queue[e] \in Seq(Call)
  BY DEF TimeInv, ClientInv, TypeOK
<1>2. k \in 1..Len(queue[e]) /\ queue[e][k] \in Call
  BY <1>1
<1>3. 1 \in DOMAIN queue[e] /\ Head(queue[e]) = queue[e][1] /\ queue[e][1] \in Call
  BY <1>1, <1>2
<1>. QED
  BY <1>1, <1>2, <1>3 DEF TimeInv, QueueFits

(* Distinct calls wait: one that does not is room for its turn.            *)
LEMMA RoomInQueue ==
  ASSUME TimeInv, IsFiniteSet(Call), NEW e \in Endpoint,
         NEW c \in Call, phase[c] \notin {"queued", "paced"}
  PROVE  Len(queue[e]) \in Nat /\ Len(queue[e]) + 1 <= Cardinality(Call)
<1>. DEFINE q == queue[e]
<1>1. q \in Seq(Call)
  BY DEF TimeInv, ClientInv, TypeOK
<1>2. \A k \in DOMAIN q : q[k] \in Call \ {c} /\ \A j \in DOMAIN q : q[j] = q[k] => j = k
  BY QueueTyped DEF Fits
<1>3. Len(q) \in Nat /\ DOMAIN q = 1..Len(q)
  BY <1>1
<1>4. q \in [1..Len(q) -> Call \ {c}]
  BY <1>1, <1>2, <1>3
<1>5. q \in Injection(1..Len(q), Call \ {c})
  BY <1>2, <1>3, <1>4 DEF Injection, IsInjective
<1>6. IsFiniteSet(Call \ {c}) /\ Cardinality(Call \ {c}) = Cardinality(Call) - 1
  BY FS_RemoveElement
<1>7. Cardinality(1..Len(q)) <= Cardinality(Call \ {c})
  BY <1>5, <1>6, FS_Injection
<1>8. Cardinality(1..Len(q)) = Len(q)
  BY <1>3, FS_Interval
<1>. QED
  BY <1>3, <1>6, <1>7, <1>8, FS_CardinalityType

OthersKeep(c) ==
  \A b \in Call \ {c} :
    /\ phase'[b] = phase[b] /\ stage'[b] = stage[b] /\ token'[b] = token[b]
    /\ attempts'[b] = attempts[b] /\ wake'[b] = wake[b]

LEMMA OthersKept ==
  ASSUME NEW c \in Call, OthersKeep(c), NEW b \in Call \ {c}
  PROVE  Asked(b)' = Asked(b) /\ Left(b)' = Left(b)
<1>1. Asked(b)' = Asked(b)
  BY DEF OthersKeep, Asked
<1>. QED
  BY <1>1 DEF OthersKeep, Left

(* A call that neither joins the queue nor leaves it answers for itself.   *)
LEMMA Aside ==
  ASSUME TimeInv, ClientInv', NEW c \in Call, OthersKeep(c), UNCHANGED <<now, pace>>,
         phase[c] \notin {"queued", "paced"}, phase'[c] \notin {"queued", "paced"},
         CacheHonest', Timely(c)', LivesOn(c)'
  PROVE  TimeInv'
<1>1. UNCHANGED <<now, queue, lastRequestAt>>
  BY DEF pace
<1>2. ASSUME NEW e \in Endpoint, NEW k \in DOMAIN queue[e]
      PROVE  /\ queue[e][k] \in Call \ {c} /\ Head(queue[e]) \in Call \ {c}
             /\ Front(e)' = Front(e)
             /\ Fits(e, k)' /\ LivesInQueue(e, k)'
  <2>1. queue[e][k] \in Call \ {c} /\ Head(queue[e]) \in Call \ {c}
    BY QueueTyped DEF Fits
  <2>2. Front(e)' = Front(e)
    BY <1>1, <2>1 DEF Front, OthersKeep
  <2>3. Fits(e, k)'
    <3>1. Fits(e, k)
      BY QueueTyped
    <3>. QED
      BY <1>1, <2>1, <3>1, OthersKept DEF Fits, OthersKeep
  <2>4. LivesInQueue(e, k)'
    <3>1. LivesInQueue(e, k)
      BY DEF TimeInv, LivesLong
    <3>2. Left(queue[e][k])' = Left(queue[e][k])
      <4>. DEFINE b == queue[e][k]
      <4>1. Left(b)' = Rounds(Asked(b)', MaxAttempts - attempts'[b]) 
        BY <1>1 DEF Left
      <4>. QED
        BY <1>1, <2>1, OthersKept DEF Left, OthersKeep, Asked
    <3>. QED
      BY <1>1, <2>1, <2>2, <3>1, <3>2 DEF LivesInQueue, OthersKeep
  <2>. QED
    BY <2>1, <2>2, <2>3, <2>4
<1>3. QueueFits'
  BY <1>1, <1>2 DEF QueueFits
<1>4. ASSUME NEW b \in Call \ {c}
      PROVE  Timely(b)' /\ LivesOn(b)'
  <2>1. Timely(b) /\ LivesOn(b)
    BY DEF TimeInv, TimersAhead, LivesLong
  <2>. QED
    BY <1>1, <2>1, OthersKept DEF Timely, LivesOn, OthersKeep, HasTimer
<1>5. TimersAhead' /\ (\A b \in Call : LivesOn(b)')
  BY <1>4 DEF TimersAhead
<1>6. LivesLong'
  BY <1>1, <1>2, <1>5 DEF LivesLong
<1>. QED
  BY <1>3, <1>5, <1>6 DEF TimeInv

LEMMA EndKeepsTime ==
  ASSUME TimeInv, ClientInv', NEW c \in Call, phase[c] = "sent", NEW r, End(c, r),
         UNCHANGED <<now, pace, cache>>
  PROVE  TimeInv'
<1>1. phase'[c] = "ended" /\ OthersKeep(c)
  BY DEF End, TimeInv, ClientInv, TypeOK, OthersKeep
<1>2. Timely(c)' /\ LivesOn(c)'
  BY <1>1 DEF Timely, LivesOn, HasTimer
<1>3. CacheHonest'
  BY DEF TimeInv, CacheHonest
<1>. QED
  BY <1>1, <1>2, <1>3, Aside

LEMMA RetryKeepsTime ==
  ASSUME TimeInv, ClientInv', IsFiniteSet(Call), NEW c \in Call, phase[c] = "sent", Retry(c),
         UNCHANGED <<now, pace, cache>>
  PROVE  TimeInv'
<1>1. PICK jitter \in 0..(Base - 1) :
        wake' = [wake EXCEPT ![c] = now + Base * 2 ^ (attempts[c] - 1) + jitter]
  BY DEF Retry
<1>. DEFINE backoff == Base * 2 ^ (attempts[c] - 1) + jitter
<1>2. attempts[c] \in 1..MaxAttempts /\ now \in Nat /\ wake[c] \in Nat
  BY DEF TimeInv, ClientInv, TypeOK, CallsFit
<1>3. backoff \in Nat /\ backoff <= LongestBackoff /\ LongestBackoff \in Nat
  BY <1>2, BackoffBound
<1>4. wake'[c] = now + backoff /\ \A b \in Call \ {c} : wake'[b] = wake[b]
  <2>1. now + Base * 2 ^ (attempts[c] - 1) + jitter = now + backoff
    <3>1. Base * 2 ^ (attempts[c] - 1) \in Int
      BY ClientAssumption, <1>2
    <3>2. \A x \in Int : now + x + jitter = now + (x + jitter)
      BY <1>2
    <3>. QED
      BY <3>1, <3>2
  <2>. QED
    BY <1>1, <2>1 DEF TimeInv, ClientInv, TypeOK
<1>. HIDE DEF backoff
<1>5. /\ phase'[c] = "backoff" /\ OthersKeep(c) /\ UNCHANGED <<stage, token, attempts>>
  BY <1>4 DEF Retry, TimeInv, ClientInv, TypeOK, OthersKeep
<1>6. Timely(c)'
  BY <1>2, <1>3, <1>4, <1>5 DEF Timely, HasTimer
<1>7. LivesOn(c)'
  <2>1. SUFFICES ASSUME token[c] # None
                 PROVE  token[c].until > wake'[c] + Left(c)
    <3>1. Left(c)' = Left(c)
      BY <1>5 DEF Left, Asked
    <3>. QED
      BY <1>5, <2>1, <3>1 DEF LivesOn
  <2>2. token[c].until \in Nat /\ now <= wake[c]
        /\ token[c].until > wake[c] + LongestBackoff + Left(c)
    BY <2>1, TokenTyped DEF TimeInv, TimersAhead, LivesLong, LivesOn, Timely, HasTimer
  <2>3. Left(c) \in Int
    <3>1. Asked(c) \in Endpoint
      BY AskedIsEndpoint DEF TimeInv, ClientInv
    <3>2. MaxAttempts - attempts[c] \in Nat
      BY <1>2, ClientAssumption
    <3>. QED
      BY <3>1, <3>2, RoundsAdd DEF Left
  <2>. QED
    BY <1>2, <1>3, <1>4, <2>2, <2>3
<1>8. CacheHonest'
  BY DEF TimeInv, CacheHonest
<1>. QED
  BY <1>5, <1>6, <1>7, <1>8, Aside

LEMMA StartKeepsTime ==
  ASSUME TimeInv, ClientInv', NEW c \in Call, Start(c)
  PROVE  TimeInv'
<1>1. /\ phase[c] = "idle" /\ phase'[c] = "token" /\ OthersKeep(c)
      /\ UNCHANGED <<now, pace, cache>>
  BY DEF Start, TimeInv, ClientInv, TypeOK, OthersKeep
<1>2. Timely(c)' /\ LivesOn(c)' /\ CacheHonest'
  BY <1>1 DEF Timely, LivesOn, HasTimer, TimeInv, CacheHonest
<1>. QED
  BY <1>1, <1>2, Aside

LEMMA ResumeKeepsTime ==
  ASSUME TimeInv, ClientInv', NEW c \in Call, Resume(c)
  PROVE  TimeInv'
<1>1. /\ phase[c] = "backoff" /\ phase'[c] = "attempt" /\ OthersKeep(c) /\ now >= wake[c]
      /\ UNCHANGED <<now, pace, cache, stage, token, attempts>>
  BY DEF Resume, TimeInv, ClientInv, TypeOK, OthersKeep
<1>2. now = wake[c]
  BY <1>1 DEF TimeInv, TimersAhead, Timely, HasTimer, ClientInv, TypeOK
<1>3. Left(c)' = Left(c)
  BY <1>1 DEF Left, Asked
<1>4. LivesOn(c)
  BY DEF TimeInv, LivesLong
<1>5. Timely(c)' /\ LivesOn(c)'
  BY <1>1, <1>2, <1>3, <1>4 DEF Timely, LivesOn, HasTimer
<1>6. CacheHonest'
  BY <1>1 DEF TimeInv, CacheHonest
<1>. QED
  BY <1>1, <1>5, <1>6, Aside

LEMMA ReasonsKeepTime ==
  ASSUME TimeInv, ClientInv', NEW c \in Call, ReasonsAnswer(c)
  PROVE  TimeInv'
<1>1. CASE End(c, "refused")
  BY <1>1, EndKeepsTime DEF ReasonsAnswer
<1>2. CASE ~ End(c, "refused")
  <2>1. /\ phase[c] = "sent" /\ phase'[c] = "token" /\ OthersKeep(c)
        /\ UNCHANGED <<now, pace, cache>>
    BY <1>2 DEF ReasonsAnswer, TimeInv, ClientInv, TypeOK, OthersKeep
  <2>2. Timely(c)' /\ LivesOn(c)' /\ CacheHonest'
    BY <2>1 DEF Timely, LivesOn, HasTimer, TimeInv, CacheHonest
  <2>. QED
    BY <2>1, <2>2, Aside
<1>. QED
  BY <1>1, <1>2

(* What a token that is handed over must still cover.                      *)
LEMMA WholeRequest ==
  ASSUME TimeInv, ClientInv', NEW c \in Call, phase'[c] = "attempt", attempts'[c] = 0,
         stage'[c] \in Paid,
         token'[c] # None => token'[c].until > now' + Rounds(stage'[c], MaxAttempts)
  PROVE  LivesOn(c)'
<1>1. token'[c] # None => Asked(c)' = stage'[c]
  BY DEF Asked
<1>2. MaxAttempts - attempts'[c] = MaxAttempts
  BY ClientAssumption
<1>3. token'[c] # None => Left(c)' = Rounds(stage'[c], MaxAttempts)
  BY <1>1, <1>2 DEF Left
<1>. QED
  BY <1>3 DEF LivesOn

LEMMA CachedKeepsTime ==
  ASSUME TimeInv, ClientInv', IsFiniteSet(Call), BufferSuffices,
         NEW c \in Call, GetAccessToken(c)
  PROVE  TimeInv'
<1>1. /\ phase[c] = "token" /\ phase'[c] = "attempt" /\ OthersKeep(c)
      /\ attempts'[c] = 0 /\ UNCHANGED <<now, pace, cache, stage, wake>>
  BY DEF GetAccessToken, TimeInv, ClientInv, TypeOK, OthersKeep
<1>2. stage[c] \in Paid
  BY <1>1 DEF TimeInv, ClientInv, PaceInv, Paid
<1>3. Timely(c)' /\ CacheHonest'
  BY <1>1 DEF Timely, HasTimer, TimeInv, CacheHonest
<1>4. ASSUME token'[c] # None
      PROVE  token'[c].until > now' + Rounds(stage'[c], MaxAttempts)
  <2>. DEFINE p == ProfileOf(order[c])
  <2>1. Fresh(cache[p]) /\ token'[c] = cache[p]
    BY <1>4 DEF GetAccessToken, TimeInv, ClientInv, TypeOK
  <2>2. p \in Profile
    BY <1>1, ClientAssumption DEF TimeInv, ClientInv, CallsFit, ProfileOf
  <2>3. /\ cache[p] # None /\ now < cache[p].expiresAt - Buffer
        /\ cache[p].until >= cache[p].expiresAt - Timeout
        /\ cache[p].until \in Nat /\ cache[p].expiresAt \in Nat
    BY <2>1, <2>2 DEF Fresh, TimeInv, ClientInv, TypeOK, Token, CacheHonest
  <2>4. /\ Rounds(stage[c], MaxAttempts) \in Nat
        /\ Timeout + Rounds(stage[c], MaxAttempts) <= Buffer
    BY <1>2, RoundsAdd, ClientAssumption DEF BufferSuffices, Paid, Endpoint
  <2>5. now \in Nat /\ Timeout \in Nat /\ Buffer \in Nat
    BY ClientAssumption DEF TimeInv, ClientInv, TypeOK
  <2>6. cache[p].until > now + Rounds(stage[c], MaxAttempts)
    BY <2>3, <2>4, <2>5
  <2>. QED
    BY <1>1, <2>1, <2>6
<1>5. LivesOn(c)'
  BY <1>1, <1>2, <1>4, WholeRequest
<1>. QED
  BY <1>1, <1>3, <1>5, Aside

LEMMA IssuedKeepsTime ==
  ASSUME TimeInv, ClientInv', IsFiniteSet(Call), BufferSuffices,
         NEW c \in Call, TokenAnswer(c)
  PROVE  TimeInv'
<1>1. /\ phase[c] = "sent" /\ phase'[c] = "attempt" /\ OthersKeep(c)
      /\ attempts'[c] = 0 /\ UNCHANGED <<now, pace, stage>>
  BY DEF TokenAnswer, TimeInv, ClientInv, TypeOK, OthersKeep
<1>2. stage[c] \in Paid
  BY <1>1 DEF TimeInv, ClientInv, PaceInv, Paid
<1>3. PICK at \in (wake[c] - Timeout)..now :
        LET t == [profile |-> ProfileOf(order[c]), until |-> at + Life,
                  expiresAt |-> now + Life]
        IN token' = [token EXCEPT ![c] = t]
           /\ cache' = [cache EXCEPT ![ProfileOf(order[c])] = t]
  BY DEF TokenAnswer
<1>. DEFINE t == [profile |-> ProfileOf(order[c]), until |-> at + Life,
                  expiresAt |-> now + Life]
<1>4. /\ now \in Nat /\ wake[c] \in Nat /\ now <= wake[c] /\ Timeout \in Nat /\ Life \in Nat
      /\ at \in Int /\ at >= wake[c] - Timeout
  BY <1>1, <1>3, ClientAssumption DEF TimeInv, ClientInv, TypeOK, TimersAhead, Timely, HasTimer
<1>5. t.until = at + Life /\ t.expiresAt = now + Life /\ t.until >= t.expiresAt - Timeout
  BY <1>4
<1>. HIDE DEF t
<1>6. token'[c] = t /\ \A p \in Profile : cache'[p] = t \/ cache'[p] = cache[p]
  BY <1>3 DEF TimeInv, ClientInv, TypeOK, t
<1>7. CacheHonest'
  BY <1>5, <1>6 DEF TimeInv, CacheHonest
<1>8. /\ Rounds(stage[c], MaxAttempts) \in Nat
      /\ Timeout + Rounds(stage[c], MaxAttempts) < Life
  BY <1>2, RoundsAdd, ClientAssumption DEF BufferSuffices, Paid, Endpoint
<1>9. token'[c].until > now + Rounds(stage[c], MaxAttempts)
  BY <1>4, <1>5, <1>6, <1>8
<1>10. LivesOn(c)'
  BY <1>1, <1>2, <1>9, WholeRequest
<1>11. Timely(c)'
  BY <1>1 DEF Timely, HasTimer
<1>. QED
  BY <1>1, <1>7, <1>10, <1>11, Aside

-----------------------------------------------------------------------------
(* Steps of the queue.                                                     *)

LEMMA LeftTyped ==
  ASSUME TimeInv, IsFiniteSet(Call), NEW c \in Call, phase[c] \notin {"idle", "ended"}
  PROVE  Left(c) \in Nat
<1>1. Asked(c) \in Endpoint
  BY AskedIsEndpoint DEF TimeInv, ClientInv
<1>2. MaxAttempts - attempts[c] \in Nat
  BY ClientAssumption DEF TimeInv, ClientInv, TypeOK
<1>. QED
  BY <1>1, <1>2, RoundsAdd DEF Left

(* An attempt uses up one round.                                           *)
LEMMA RoundSpent ==
  ASSUME TimeInv, IsFiniteSet(Call), NEW c \in Call, Attempt(c)
  PROVE  /\ Asked(c) \in Endpoint /\ Asked(c)' = Asked(c) /\ Left(c)' \in Nat
         /\ Turns(Asked(c), Cardinality(Call)) \in Nat
         /\ Left(c) = Left(c)' + Turns(Asked(c), Cardinality(Call)) + Timeout + LongestBackoff
<1>. DEFINE n == MaxAttempts - attempts[c] - 1
<1>1. /\ phase[c] = "attempt" /\ attempts'[c] = attempts[c] + 1 /\ UNCHANGED <<stage, token>>
  BY DEF Attempt, TimeInv, ClientInv, TypeOK
<1>2. n \in Nat /\ MaxAttempts - attempts[c] = n + 1 /\ MaxAttempts - attempts'[c] = n
  <2>1. attempts[c] \in Nat /\ attempts[c] < MaxAttempts /\ MaxAttempts \in Nat
    BY <1>1, ClientAssumption DEF TimeInv, ClientInv, TypeOK, CallsFit
  <2>. QED
    BY <1>1, <2>1
<1>3. Asked(c) \in Endpoint /\ Asked(c)' = Asked(c)
  BY <1>1, AskedIsEndpoint DEF TimeInv, ClientInv, Asked
<1>. HIDE DEF n
<1>4. Left(c) = Rounds(Asked(c), n + 1) /\ Left(c)' = Rounds(Asked(c), n)
  BY <1>2, <1>3 DEF Left
<1>. QED
  BY <1>2, <1>3, <1>4, RoundsAdd

LEMMA FrontSoon ==
  ASSUME TimeInv, NEW e \in Endpoint, NEW k \in DOMAIN queue[e]
  PROVE  Front(e) \in Nat /\ Front(e) <= now + MinInterval[e]
<1>. DEFINE first == Head(queue[e])
            next == lastRequestAt[e] + MinInterval[e]
<1>1. first \in Call /\ Asked(first) = e
  BY QueueTyped DEF Fits
<1>2. /\ now \in Nat /\ lastRequestAt[e] \in Nat /\ lastRequestAt[e] <= now
      /\ MinInterval[e] \in Nat /\ wake[first] \in Nat
  BY <1>1, ClientAssumption DEF TimeInv, ClientInv, TypeOK, PaceInv
<1>3. CASE phase[first] = "paced"
  <2>1. wake[first] <= now + MinInterval[e]
    BY <1>1, <1>3 DEF TimeInv, TimersAhead, Timely
  <2>. QED
    BY <1>2, <1>3, <2>1 DEF Front
<1>4. CASE phase[first] # "paced"
  BY <1>2, <1>4 DEF Front
<1>. QED
  BY <1>3, <1>4

LEMMA UnpacedKeepsTime ==
  ASSUME TimeInv, ClientInv', IsFiniteSet(Call), NEW c \in Call, Attempt(c),
         MinInterval[Asked(c)] = 0
  PROVE  TimeInv'
<1>1. /\ phase[c] = "attempt" /\ phase'[c] = "sent" /\ OthersKeep(c)
      /\ wake'[c] = now + Timeout /\ UNCHANGED <<now, pace, cache, token>>
  BY DEF Attempt, TimeInv, ClientInv, TypeOK, OthersKeep, pace
<1>2. now \in Nat /\ Timeout \in Nat /\ LongestBackoff \in Nat
  BY ClientAssumption, BackoffBound DEF TimeInv, ClientInv, TypeOK
<1>3. Timely(c)' /\ CacheHonest'
  BY <1>1, <1>2 DEF Timely, HasTimer, TimeInv, CacheHonest
<1>4. ASSUME token[c] # None
      PROVE  token[c].until > wake'[c] + LongestBackoff + Left(c)'
  <2>1. token[c].until \in Nat /\ token[c].until > now + Left(c)
    BY <1>1, <1>4, TokenTyped DEF TimeInv, LivesLong, LivesOn
  <2>. QED
    BY <1>1, <1>2, <2>1, RoundSpent
<1>5. LivesOn(c)'
  BY <1>1, <1>4 DEF LivesOn
<1>. QED
  BY <1>1, <1>3, <1>5, Aside

LEMMA TurnTaken ==
  ASSUME NEW until \in Nat, NEW front \in Nat, NEW before \in Nat, NEW all \in Nat,
         NEW interval \in Nat, NEW clock \in Nat, NEW timeout \in Nat, NEW backoff \in Nat,
         NEW left \in Nat,
         until > clock + left + all + timeout + backoff,
         before + interval <= all, front <= clock + interval
  PROVE  until > front + before + timeout + backoff + left
OBVIOUS

LEMMA QueuedKeepsTime ==
  ASSUME TimeInv, ClientInv', IsFiniteSet(Call), NEW c \in Call, Attempt(c),
         MinInterval[Asked(c)] # 0
  PROVE  TimeInv'
<1>. PICK e \in Endpoint : e = Asked(c)
  BY RoundSpent
<1>. PICK last : last = Len(queue[e]) + 1
  OBVIOUS
<1>1. /\ phase[c] = "attempt" /\ phase'[c] = "queued" /\ OthersKeep(c)
      /\ queue' = [queue EXCEPT ![e] = Append(@, c)]
      /\ UNCHANGED <<now, stage, token, wake, lastRequestAt, cache>>
  BY DEF Attempt, TimeInv, ClientInv, TypeOK, OthersKeep
<1>2. queue[e] \in Seq(Call) /\ last - 1 = Len(queue[e]) /\ last \in Nat
  BY DEF TimeInv, ClientInv, TypeOK
<1>3. /\ queue'[e] = Append(queue[e], c)
      /\ \A f \in Endpoint \ {e} : queue'[f] = queue[f]
  BY <1>1, <1>2 DEF TimeInv, ClientInv, TypeOK
<1>4. /\ DOMAIN queue'[e] = DOMAIN queue[e] \cup {last} /\ last \notin DOMAIN queue[e]
      /\ queue'[e][last] = c /\ \A k \in DOMAIN queue[e] : queue'[e][k] = queue[e][k]
  BY <1>2, <1>3
<1>5. \A b \in Call : Asked(b)' = Asked(b)
  BY <1>1 DEF Asked
<1>6. \A f \in Endpoint : \A k \in DOMAIN queue[f] :
        k \in DOMAIN queue'[f] /\ queue'[f][k] = queue[f][k] /\ queue[f][k] \in Call \ {c}
  BY <1>1, <1>3, <1>4, QueueTyped DEF Fits
<1>7. ASSUME NEW f \in Endpoint, NEW k \in DOMAIN queue[f]
      PROVE  Front(f)' = Front(f)
  <2>1. Head(queue[f]) = queue[f][1] /\ 1 \in DOMAIN queue[f] /\ Head(queue[f]) \in Call \ {c}
    BY <1>6, QueueTyped
  <2>2. Head(queue'[f]) = Head(queue[f])
    <3>1. CASE f = e
      BY <1>2, <1>3, <2>1, <3>1
    <3>. QED
      BY <1>3, <3>1
  <2>. QED
    BY <1>1, <2>1, <2>2 DEF Front, OthersKeep
<1>8. QueueFits'
  <2>1. ASSUME NEW f \in Endpoint, NEW k \in DOMAIN queue[f]
        PROVE  Fits(f, k)'
    <3>1. Fits(f, k)
      BY QueueTyped
    <3>2. /\ phase'[queue'[f][k]] \in {"queued", "paced"} /\ Asked(queue[f][k])' = f
      BY <1>1, <1>6, <3>1 DEF Fits, OthersKeep, Asked
    <3>3. \A j \in DOMAIN queue'[f] : queue'[f][j] = queue'[f][k] => j = k
      BY <1>3, <1>4, <1>6, <3>1 DEF Fits
    <3>. QED
      BY <3>2, <3>3, <1>5, <1>6 DEF Fits
  <2>2. Fits(e, last)'
    <3>1. /\ phase'[queue'[e][last]] \in {"queued", "paced"} /\ Asked(queue[e][last])' = e
      BY <1>1, <1>4, <1>5
    <3>2. \A j \in DOMAIN queue'[e] : queue'[e][j] = queue'[e][last] => j = last
      BY <1>2, <1>4, <1>6
    <3>. QED
      BY <1>2, <1>3, <3>1, <3>2 DEF Fits
  <2>. QED
    BY <1>2, <1>3, <1>4, <2>1, <2>2 DEF QueueFits
<1>9. ASSUME NEW b \in Call
      PROVE  Timely(b)' /\ LivesOn(b)'
  <2>1. CASE b = c
    BY <1>1, <2>1 DEF Timely, LivesOn, HasTimer
  <2>2. CASE b # c
    <3>1. Timely(b) /\ LivesOn(b)
      BY DEF TimeInv, TimersAhead, LivesLong
    <3>. QED
      BY <1>1, <2>2, <3>1, OthersKept DEF Timely, LivesOn, OthersKeep, HasTimer
  <2>. QED
    BY <2>1, <2>2
<1>10. ASSUME NEW f \in Endpoint, NEW k \in DOMAIN queue[f]
       PROVE  LivesInQueue(f, k)'
  <2>. DEFINE b == queue[f][k]
  <2>1. LivesInQueue(f, k) /\ b \in Call \ {c} /\ queue'[f][k] = b
    BY <1>6 DEF TimeInv, LivesLong
  <2>2. attempts'[b] = attempts[b] /\ Asked(b)' = Asked(b) /\ token'[b] = token[b]
    BY <1>1, <1>5, <2>1 DEF OthersKeep
  <2>3. Left(queue[f][k])' = Left(b)
    BY <2>1, <2>2 DEF Left, Asked
  <2>. QED
    BY <1>7, <2>1, <2>2, <2>3 DEF LivesInQueue
<1>11. LivesInQueue(e, last)'
  <2>1. SUFFICES ASSUME token[c] # None
                 PROVE  token[c].until
                          > Front(e)' + Turns(e, last - 1) + Timeout + LongestBackoff + Left(c)'
    <3>1. Left(queue[e][last])' = Left(c)'
      BY <1>4, <1>5 DEF Left, Asked
    <3>. QED
      BY <1>1, <1>2, <1>4, <2>1, <3>1 DEF LivesInQueue
  <2>2. token[c].until \in Nat /\ token[c].until > now + Left(c)
    BY <1>1, <2>1, TokenTyped DEF TimeInv, LivesLong, LivesOn
  <2>3. Front(e)' \in Nat /\ Front(e)' <= now + MinInterval[e]
    <3>1. CASE queue[e] = <<>>
      <4>1. Head(queue'[e]) = c
        BY <1>2, <1>3, <3>1
      <4>2. /\ now \in Nat /\ lastRequestAt[e] \in Nat /\ lastRequestAt[e] <= now
            /\ MinInterval[e] \in Nat
        BY <1>2, ClientAssumption DEF TimeInv, ClientInv, TypeOK, PaceInv
      <4>. QED
        BY <1>1, <1>2, <4>1, <4>2 DEF Front
    <3>2. CASE queue[e] # <<>>
      <4>1. 1 \in DOMAIN queue[e]
        BY <1>2, <3>2
      <4>. QED
        BY <1>2, <1>7, <4>1, FrontSoon
    <3>. QED
      BY <3>1, <3>2
  <2>4. last - 1 \in Nat /\ last - 1 = Len(queue[e]) /\ last <= Cardinality(Call)
    BY <1>1, <1>2, RoomInQueue
  <2>5. /\ Turns(e, last - 1) \in Nat
        /\ Turns(e, last) = Turns(e, last - 1) + MinInterval[e]
    BY <1>2, <2>4, TurnsAdd
  <2>6. Turns(e, last) <= Turns(e, Cardinality(Call)) /\ Turns(e, last) \in Nat
    BY <1>2, <2>4, TurnsAdd, FS_CardinalityType
  <2>7. /\ now \in Nat /\ Timeout \in Nat /\ LongestBackoff \in Nat /\ MinInterval[e] \in Nat
    BY <1>2, ClientAssumption, BackoffBound DEF TimeInv, ClientInv, TypeOK
  <2>8. /\ Left(c)' \in Nat /\ Turns(e, Cardinality(Call)) \in Nat
        /\ Left(c) = Left(c)' + Turns(e, Cardinality(Call)) + Timeout + LongestBackoff
    BY RoundSpent
  <2>. DEFINE until == token[c].until
              left == Left(c)'
              front == Front(e)'
  <2>9. left \in Nat /\ front \in Nat /\ until \in Nat
    BY <2>2, <2>3, <2>8
  <2>10. /\ until > now + left + Turns(e, Cardinality(Call)) + Timeout + LongestBackoff
         /\ Turns(e, last - 1) + MinInterval[e] <= Turns(e, Cardinality(Call))
         /\ front <= now + MinInterval[e]
    BY <2>2, <2>3, <2>5, <2>6, <2>7, <2>8
  <2>. HIDE DEF until, left, front
  <2>11. until > front + Turns(e, last - 1) + Timeout + LongestBackoff + left
    BY <2>5, <2>7, <2>8, <2>9, <2>10, TurnTaken
  <2>. QED
    BY <2>11 DEF until, left, front
<1>12. LivesLong'
  BY <1>2, <1>3, <1>4, <1>9, <1>10, <1>11 DEF LivesLong
<1>13. CacheHonest'
  BY <1>1 DEF TimeInv, CacheHonest
<1>. QED
  BY <1>8, <1>9, <1>12, <1>13 DEF TimeInv, TimersAhead

LEMMA PacedKeepsTime ==
  ASSUME TimeInv, ClientInv', NEW c \in Call, Pace(c)
  PROVE  TimeInv'
<1>. PICK e \in Endpoint : e = Asked(c)
  BY AskedIsEndpoint DEF Pace, TimeInv, ClientInv
<1>. DEFINE next == lastRequestAt[e] + MinInterval[e]
            w == IF next > now THEN next ELSE now
<1>1. /\ phase[c] = "queued" /\ Head(queue[e]) = c /\ phase'[c] = "paced" /\ wake'[c] = w
      /\ \A b \in Call \ {c} : phase'[b] = phase[b] /\ wake'[b] = wake[b]
      /\ UNCHANGED <<now, stage, token, attempts, queue, lastRequestAt, cache>>
  BY DEF Pace, MyTurn, pace, TimeInv, ClientInv, TypeOK
<1>2. /\ now \in Nat /\ lastRequestAt[e] \in Nat /\ lastRequestAt[e] <= now
      /\ MinInterval[e] \in Nat
  BY ClientAssumption DEF TimeInv, ClientInv, TypeOK, PaceInv
<1>3. w \in Nat /\ now <= w /\ w <= now + MinInterval[e]
  BY <1>2
<1>4. \A b \in Call : Asked(b)' = Asked(b) /\ Left(b)' = Left(b)
  BY <1>1 DEF Asked, Left
<1>5. ASSUME NEW f \in Endpoint, NEW k \in DOMAIN queue[f]
      PROVE  Front(f)' = Front(f)
  <2>1. Head(queue[f]) \in Call /\ Asked(Head(queue[f])) = f
    BY QueueTyped DEF Fits
  <2>2. CASE f = e
    BY <1>1, <2>2 DEF Front
  <2>3. CASE f # e
    <3>1. Head(queue[f]) # c
      BY <2>1, <2>3
    <3>. QED
      BY <1>1, <2>1, <3>1 DEF Front
  <2>. QED
    BY <2>2, <2>3
<1>. HIDE DEF w
<1>6. QueueFits'
  <2>1. ASSUME NEW f \in Endpoint, NEW k \in DOMAIN queue[f]
        PROVE  Fits(f, k)'
    <3>1. Fits(f, k) /\ queue[f][k] \in Call
      BY QueueTyped
    <3>. QED
      BY <1>1, <3>1 DEF Fits, Asked
  <2>. QED
    BY <1>1, <2>1 DEF QueueFits
<1>7. ASSUME NEW b \in Call
      PROVE  Timely(b)' /\ LivesOn(b)'
  <2>1. Timely(b) /\ LivesOn(b)
    BY DEF TimeInv, TimersAhead, LivesLong
  <2>2. CASE b = c
    BY <1>1, <1>3, <1>4, <2>2 DEF Timely, LivesOn, HasTimer
  <2>3. CASE b # c
    BY <1>1, <1>4, <2>1, <2>3 DEF Timely, LivesOn, HasTimer
  <2>. QED
    BY <2>2, <2>3
<1>8. ASSUME NEW f \in Endpoint, NEW k \in DOMAIN queue[f]
      PROVE  LivesInQueue(f, k)'
  <2>1. LivesInQueue(f, k) /\ queue[f][k] \in Call
    BY QueueTyped DEF TimeInv, LivesLong
  <2>2. Left(queue[f][k])' = Left(queue[f][k])
    BY <1>1 DEF Left, Asked
  <2>. QED
    BY <1>1, <1>5, <2>1, <2>2 DEF LivesInQueue
<1>9. LivesLong' /\ CacheHonest'
  BY <1>1, <1>7, <1>8 DEF LivesLong, TimeInv, CacheHonest
<1>. QED
  BY <1>6, <1>7, <1>9 DEF TimeInv, TimersAhead

LEMMA SendKeepsTime ==
  ASSUME TimeInv, ClientInv', IsFiniteSet(Call), NEW c \in Call, Send(c)
  PROVE  TimeInv'
<1>. PICK e \in Endpoint : e = Asked(c)
  BY AskedIsEndpoint DEF Send, TimeInv, ClientInv
<1>1. /\ phase[c] = "paced" /\ now >= wake[c] /\ phase'[c] = "sent" /\ OthersKeep(c)
      /\ wake'[c] = now + Timeout
      /\ lastRequestAt' = [lastRequestAt EXCEPT ![e] = now]
      /\ queue' = [queue EXCEPT ![e] = Tail(@)]
      /\ UNCHANGED <<now, stage, token, attempts, cache>>
  BY DEF Send, Released, TimeInv, ClientInv, TypeOK, OthersKeep
<1>2. /\ queue[e] \in Seq(Call) /\ 1 \in DOMAIN queue[e] /\ queue[e][1] = c
      /\ Head(queue[e]) = c /\ queue[e] # <<>>
  <2>1. queue[e] \in Seq(Call) /\ MyTurn(c) /\ Waits(c)
    BY <1>1 DEF TimeInv, ClientInv, TypeOK, PaceInv
  <2>. QED
    BY <2>1 DEF MyTurn, Waits
<1>3. /\ queue'[e] = Tail(queue[e]) /\ lastRequestAt'[e] = now
      /\ \A f \in Endpoint \ {e} : queue'[f] = queue[f] /\ lastRequestAt'[f] = lastRequestAt[f]
  BY <1>1 DEF TimeInv, ClientInv, TypeOK
<1>4. \A k \in DOMAIN queue'[e] :
        k \in Nat /\ k >= 1 /\ k + 1 \in DOMAIN queue[e] /\ queue'[e][k] = queue[e][k + 1]
  BY <1>2, <1>3
<1>5. /\ now \in Nat /\ MinInterval[e] \in Nat /\ Timeout \in Nat /\ LongestBackoff \in Nat
      /\ now = wake[c] /\ Front(e) = now
  <2>1. now <= wake[c] /\ wake[c] \in Nat /\ now \in Nat
    BY <1>1 DEF TimeInv, ClientInv, TypeOK, TimersAhead, Timely, HasTimer
  <2>. QED
    BY <1>1, <1>2, <2>1, BackoffBound, ClientAssumption DEF Front
<1>6. \A b \in Call : Asked(b)' = Asked(b) /\ Left(b)' = Left(b)
  BY <1>1 DEF Asked, Left
<1>7. \A k \in DOMAIN queue'[e] :
        /\ queue[e][k + 1] \in Call \ {c} /\ Fits(e, k + 1) /\ LivesInQueue(e, k + 1)
  <2>1. ASSUME NEW k \in DOMAIN queue'[e]
        PROVE  queue[e][k + 1] \in Call \ {c} /\ Fits(e, k + 1) /\ LivesInQueue(e, k + 1)
    <3>1. k + 1 \in DOMAIN queue[e] /\ k + 1 # 1
      BY <1>4
    <3>2. Fits(e, k + 1) /\ queue[e][k + 1] \in Call /\ LivesInQueue(e, k + 1)
      BY <3>1, QueueTyped DEF TimeInv, LivesLong
    <3>3. queue[e][k + 1] # c
      BY <1>2, <3>1, <3>2 DEF Fits
    <3>. QED
      BY <3>2, <3>3
  <2>. QED
    BY <2>1
<1>8. ASSUME NEW f \in Endpoint \ {e}, NEW k \in DOMAIN queue[f]
      PROVE  /\ queue[f][k] \in Call \ {c} /\ Fits(f, k) /\ LivesInQueue(f, k)
             /\ Front(f)' = Front(f)
  <2>1. /\ queue[f][k] \in Call \ {c} /\ Head(queue[f]) \in Call \ {c}
        /\ Fits(f, k) /\ LivesInQueue(f, k)
    BY QueueTyped DEF Fits, TimeInv, LivesLong
  <2>2. Front(f)' = Front(f)
    BY <1>1, <1>3, <2>1 DEF Front, OthersKeep
  <2>. QED
    BY <2>1, <2>2
<1>9. QueueFits'
  <2>1. ASSUME NEW f \in Endpoint \ {e}, NEW k \in DOMAIN queue[f]
        PROVE  Fits(f, k)'
    BY <1>1, <1>3, <1>8 DEF Fits, Asked, OthersKeep
  <2>2. ASSUME NEW k \in DOMAIN queue'[e]
        PROVE  Fits(e, k)'
    <3>1. /\ phase'[queue'[e][k]] \in {"queued", "paced"} /\ Asked(queue[e][k])' = e
      BY <1>1, <1>4, <1>7, <2>2 DEF Fits, Asked, OthersKeep
    <3>2. ASSUME NEW j \in DOMAIN queue'[e], queue'[e][j] = queue'[e][k]
          PROVE  j = k
      <4>1. j + 1 = k + 1
        BY <1>4, <1>7, <2>2, <3>2 DEF Fits
      <4>. QED
        BY <1>4, <2>2, <3>2, <4>1
    <3>. QED
      BY <3>1, <3>2 DEF Fits
  <2>. QED
    BY <1>3, <2>1, <2>2 DEF QueueFits
<1>10. ASSUME NEW k \in DOMAIN queue'[e]
       PROVE  Front(e)' = now + MinInterval[e]
  <2>1. 1 \in DOMAIN queue'[e] /\ Head(queue'[e]) = queue[e][2]
    <3>1. queue'[e] \in Seq(Call)
      BY <1>2, <1>3
    <3>2. 1 \in DOMAIN queue'[e] /\ Head(queue'[e]) = queue'[e][1]
      BY <1>10, <3>1
    <3>. QED
      BY <1>4, <3>2
  <2>2. queue[e][2] \in Call \ {c} /\ Fits(e, 2)
    BY <1>7, <2>1
  <2>3. phase[queue[e][2]] # "paced"
    <3>1. phase[queue[e][2]] = "paced" => Head(queue[e]) = queue[e][2]
      BY <2>2 DEF Fits, TimeInv, ClientInv, PaceInv, MyTurn
    <3>. QED
      BY <1>2, <2>2, <3>1
  <2>4. phase'[Head(queue'[e])] # "paced"
    BY <1>1, <2>1, <2>2, <2>3 DEF OthersKeep
  <2>5. Front(e)' = IF now + MinInterval[e] > now THEN now + MinInterval[e] ELSE now
    BY <1>1, <1>3, <2>4 DEF Front
  <2>. QED
    BY <1>5, <2>5
<1>11. ASSUME NEW b \in Call
       PROVE  Timely(b)' /\ LivesOn(b)'
  <2>1. CASE b = c
    <3>1. Timely(c)'
      BY <1>1, <1>5 DEF Timely, HasTimer
    <3>2. ASSUME token[c] # None
          PROVE  token[c].until > now + Timeout + LongestBackoff + Left(c)
      <4>1. token[c].until > Front(e) + Turns(e, 0) + Timeout + LongestBackoff + Left(c)
        <5>1. LivesInQueue(e, 1)
          BY <1>2 DEF TimeInv, LivesLong
        <5>. QED
          BY <1>2, <3>2, <5>1 DEF LivesInQueue
      <4>2. Turns(e, 0) \in Nat /\ Left(c) \in Nat /\ token[c].until \in Nat
        <5>1. Turns(e, 0) \in Nat
          <6>1. 0 \in Nat /\ 0 <= 0
            OBVIOUS
          <6>. QED
            BY <6>1, TurnsAdd
        <5>2. Left(c) \in Nat
          BY <1>1, LeftTyped
        <5>3. token[c].until \in Nat
          BY <3>2, TokenTyped DEF TimeInv
        <5>. QED
          BY <5>1, <5>2, <5>3
      <4>. QED
        BY <1>5, <4>1, <4>2
    <3>3. LivesOn(c)'
      BY <1>1, <1>6, <3>2 DEF LivesOn
    <3>. QED
      BY <2>1, <3>1, <3>3
  <2>2. CASE b # c
    <3>1. Timely(b) /\ LivesOn(b)
      BY DEF TimeInv, TimersAhead, LivesLong
    <3>. QED
      BY <1>1, <1>6, <2>2, <3>1 DEF Timely, LivesOn, HasTimer, OthersKeep
  <2>. QED
    BY <2>1, <2>2
<1>12. ASSUME NEW f \in Endpoint \ {e}, NEW k \in DOMAIN queue[f]
       PROVE  LivesInQueue(f, k)'
  <2>1. Left(queue[f][k])' = Left(queue[f][k])
    BY <1>1, <1>3, <1>8 DEF Left, Asked
  <2>. QED
    BY <1>1, <1>3, <1>8, <2>1 DEF LivesInQueue
<1>13. ASSUME NEW k \in DOMAIN queue'[e]
       PROVE  LivesInQueue(e, k)'
  <2>. DEFINE b == queue[e][k + 1]
  <2>1. Left(queue[e][k])' = Left(b)
    BY <1>1, <1>4, <1>7 DEF Left, Asked
  <2>2. SUFFICES ASSUME token[b] # None
                 PROVE  token[b].until
                          > now + MinInterval[e] + Turns(e, k - 1) + Timeout + LongestBackoff + Left(b)
    BY <1>1, <1>4, <1>10, <2>1 DEF LivesInQueue
  <2>3. token[b].until > Front(e) + Turns(e, k) + Timeout + LongestBackoff + Left(b)
    <3>1. (k + 1) - 1 = k
      BY <1>4
    <3>. QED
      BY <1>7, <2>2, <3>1 DEF LivesInQueue
  <2>4. Turns(e, k - 1) \in Nat /\ Turns(e, k) = Turns(e, k - 1) + MinInterval[e]
    <3>1. k - 1 \in Nat /\ (k - 1) + 1 = k
      BY <1>4
    <3>. QED
      BY <3>1, TurnsAdd
  <2>5. token[b].until \in Nat /\ Left(b) \in Nat
    BY <1>7, <2>2, TokenTyped, LeftTyped DEF TimeInv, Fits
  <2>. QED
    BY <1>5, <2>3, <2>4, <2>5
<1>14. LivesLong'
  BY <1>3, <1>11, <1>12, <1>13 DEF LivesLong
<1>15. CacheHonest'
  BY <1>1 DEF TimeInv, CacheHonest
<1>. QED
  BY <1>9, <1>11, <1>14, <1>15 DEF TimeInv, TimersAhead

(* The clock stands still while anybody can go on.                         *)
LEMMA TickKeepsTime ==
  ASSUME TimeInv, ClientInv', Tick
  PROVE  TimeInv'
<1>1. /\ now' = now + 1 /\ \A c \in Call : ~ Urgent(c)
      /\ UNCHANGED <<phase, stage, token, attempts, wake, queue, lastRequestAt, cache>>
  BY DEF Tick, call, pace
<1>2. now \in Nat /\ \A c \in Call : wake[c] \in Nat
  BY DEF TimeInv, ClientInv, TypeOK
<1>3. ASSUME NEW f \in Endpoint, NEW k \in DOMAIN queue[f]
      PROVE  Front(f)' = Front(f)
  <2>. DEFINE first == Head(queue[f])
  <2>1. first \in Call /\ phase[first] \in {"queued", "paced"} /\ Asked(first) = f
    BY QueueTyped DEF Fits
  <2>2. phase[first] = "paced"
    BY <1>1, <2>1 DEF Urgent, MyTurn
  <2>. QED
    BY <1>1, <2>2 DEF Front
<1>4. QueueFits' /\ CacheHonest'
  BY <1>1 DEF TimeInv, QueueFits, Fits, Asked, CacheHonest
<1>5. ASSUME NEW b \in Call
      PROVE  Timely(b)' /\ LivesOn(b)'
  <2>1. Timely(b) /\ LivesOn(b) /\ ~ Urgent(b)
    BY <1>1 DEF TimeInv, TimersAhead, LivesLong
  <2>2. MinInterval[Asked(b)] \in Nat \/ phase[b] # "paced"
    BY AskedIsEndpoint DEF TimeInv, ClientInv
  <2>3. Timely(b)'
    BY <1>1, <1>2, <2>1, <2>2, ClientAssumption DEF Timely, HasTimer, Urgent, Asked
  <2>4. LivesOn(b)'
    BY <1>1, <2>1 DEF LivesOn, Urgent, Left, Asked
  <2>. QED
    BY <2>3, <2>4
<1>6. ASSUME NEW f \in Endpoint, NEW k \in DOMAIN queue[f]
      PROVE  LivesInQueue(f, k)'
  <2>1. LivesInQueue(f, k)
    BY DEF TimeInv, LivesLong
  <2>. QED
    BY <1>1, <1>3, <2>1 DEF LivesInQueue, Left, Asked
<1>. QED
  BY <1>1, <1>4, <1>5, <1>6 DEF TimeInv, TimersAhead, LivesLong

LEMMA TimeStep ==
  ASSUME TimeInv, IsFiniteSet(Call), BufferSuffices, [Next]_vars
  PROVE  TimeInv'
<1>1. ClientInv'
  BY ClientStep DEF TimeInv
<1>2. ASSUME NEW c \in Call, Attempt(c)
      PROVE  TimeInv'
  BY <1>1, <1>2, UnpacedKeepsTime, QueuedKeepsTime
<1>3. ASSUME NEW c \in Call, TimesOut(c) \/ Fails(c)
      PROVE  TimeInv'
  <2>1. phase[c] = "sent" /\ (Retry(c) \/ End(c, "error")) /\ UNCHANGED <<now, pace, cache>>
    BY <1>3 DEF TimesOut, Fails, GiveUp
  <2>. QED
    BY <1>1, <2>1, RetryKeepsTime, EndKeepsTime
<1>4. ASSUME NEW c \in Call, IsRefused(c) \/ CancelAnswer(c)
      PROVE  TimeInv'
  <2>1. phase[c] = "sent" /\ (\E r \in Result : End(c, r)) /\ UNCHANGED <<now, pace, cache>>
    BY <1>4 DEF IsRefused, CancelAnswer, Result
  <2>. QED
    BY <1>1, <2>1, EndKeepsTime
<1>5. CASE LateCancel \/ UNCHANGED vars
  <2>1. UNCHANGED <<now, phase, stage, token, attempts, wake, queue, lastRequestAt, cache>>
    BY <1>5 DEF LateCancel, vars, call, pace
  <2>2. QueueFits' /\ TimersAhead' /\ CacheHonest'
    BY <2>1 DEF TimeInv, QueueFits, TimersAhead, CacheHonest, Fits, Timely, Asked, HasTimer
  <2>3. LivesLong'
    BY <2>1 DEF TimeInv, LivesLong, LivesOn, LivesInQueue, Left, Asked, Front
  <2>. QED
    BY <1>1, <2>2, <2>3 DEF TimeInv
<1>. QED
  BY <1>1, <1>2, <1>3, <1>4, <1>5, StartKeepsTime, CachedKeepsTime, PacedKeepsTime, SendKeepsTime,
     ResumeKeepsTime, IssuedKeepsTime, ReasonsKeepTime, TickKeepsTime DEF Next, GoesOn

LEMMA TimeStarts == Init => TimeInv
<1>. SUFFICES ASSUME Init
              PROVE  TimeInv
  OBVIOUS
<1>1. ClientInv
  BY ClientStarts
<1>2. QueueFits /\ CacheHonest
  BY DEF Init, QueueFits, CacheHonest
<1>3. TimersAhead
  BY DEF Init, TimersAhead, Timely, HasTimer
<1>4. LivesLong
  BY DEF Init, LivesLong, LivesOn
<1>. QED
  BY <1>1, <1>2, <1>3, <1>4 DEF TimeInv

(* With finitely many calls, and a buffer that covers a whole request,     *)
(* the token a request carries is alive at iFood however often the request *)
(* is repeated and however long it waits for its turn                      *)
(* (TOKEN_EXPIRATION_BUFFER_MS, ifood-auth.service.ts; request,            *)
(* ifood-http.service.ts).                                                 *)
THEOREM TokenStaysAlive ==
  ASSUME IsFiniteSet(Call), BufferSuffices
  PROVE  Spec => []TokenAlive
<1>1. TimeInv => TokenAlive
  <2>. SUFFICES ASSUME TimeInv, NEW c \in Call, phase[c] = "sent", token[c] # None
                PROVE  now < token[c].until
    BY DEF TokenAlive
  <2>1. /\ now <= wake[c] /\ token[c].until > wake[c] + LongestBackoff + Left(c)
        /\ now \in Nat /\ wake[c] \in Nat /\ token[c].until \in Nat
    BY TokenTyped DEF TimeInv, ClientInv, TypeOK, TimersAhead, Timely, HasTimer, LivesLong, LivesOn
  <2>2. LongestBackoff \in Nat /\ Left(c) \in Nat
    BY BackoffBound, LeftTyped
  <2>. QED
    BY <2>1, <2>2
<1>2. TimeInv /\ [Next]_vars => TimeInv'
  BY TimeStep
<1>. QED
  BY <1>1, <1>2, TimeStarts, PTL DEF Spec
=============================================================================
