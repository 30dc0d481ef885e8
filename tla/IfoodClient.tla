---------------------------- MODULE IfoodClient ----------------------------
(***************************************************************************)
(* Calls of the iFood API: the token of a credentials profile              *)
(* (ifood-auth.service.ts), the attempts of one request, their pace and    *)
(* their time limits (ifood-http.service.ts), and the caller that asks     *)
(* iFood to cancel an order (requestCancellation of                        *)
(* ifood-orders.service.ts).                                               *)
(*                                                                         *)
(* Time is the variable now, in units of the instance; timers go off on    *)
(* time, so now does not pass the moment at which a timer is due.          *)
(***************************************************************************)
EXTENDS Integers, Sequences

CONSTANTS
  Call,            \* calls of requestCancellation
  Order,           \* orders they are about
  Profile,         \* credentials profiles
  ProfileMap,      \* IFOOD_MERCHANT_AUTH_PROFILE_MAP, per order; None: not in it
  DefaultProfile,  \* 'default'
  MaxAttempts, Timeout, Base,    \* options of IfoodHttpService.request
  MinInterval,     \* IFOOD_HTTP_MIN_INTERVAL_MS of each endpoint
  Life,            \* the time a token lives, as iFood counts it
  Buffer,          \* TOKEN_EXPIRATION_BUFFER_MS
  Epoch, LastStart,   \* bounds: the first moment, the last one a call starts at
  None

Endpoint == {"auth_token", "reasons", "cancel"}
Result == {"accepted", "refused", "error"}

ASSUME ClientAssumption ==
  /\ ProfileMap \in [Order -> Profile \cup {None}] /\ None \notin Profile \cup Result
  /\ DefaultProfile \in Profile
  /\ MaxAttempts \in Nat \ {0} /\ Timeout \in Nat \ {0} /\ Base \in Nat \ {0}
  /\ MinInterval \in [Endpoint -> Nat]
  /\ Life \in Nat /\ Buffer \in Nat /\ Epoch \in Nat /\ LastStart \in Nat
  /\ \A e \in Endpoint : MinInterval[e] <= Epoch

VARIABLES
  now,
  phase, stage, order, token,   \* a call: where it is, what it asks, with which token
  attempts, wake,               \* its request: attempts made, when its timer is due
  result,                       \* what the caller is told
  queue, lastRequestAt,         \* per endpoint: who waits for the pace, the last send
  cache,                        \* cachedTokens
  cancelling, late              \* iFood: orders it is cancelling, posts it may still get

call == <<phase, stage, order, token, attempts, wake, result>>
pace == <<queue, lastRequestAt>>
ifood == <<cancelling, late>>
vars == <<now, call, pace, cache, ifood>>

(* until is the moment iFood lets the token die, expiresAt what the client *)
(* makes of its answer.                                                    *)
Token == [profile : Profile, until : Nat, expiresAt : Nat]
Phase == {"idle", "token", "attempt", "queued", "paced", "sent", "backoff", "ended"}

TypeOK ==
  /\ now \in Nat
  /\ phase \in [Call -> Phase]
  /\ stage \in [Call -> Endpoint \cup {None}]
  /\ order \in [Call -> Order \cup {None}]
  /\ token \in [Call -> Token \cup {None}]
  /\ attempts \in [Call -> 0..MaxAttempts]
  /\ wake \in [Call -> Nat]
  /\ result \in [Call -> Result \cup {None}]
  /\ queue \in [Endpoint -> Seq(Call)]
  /\ lastRequestAt \in [Endpoint -> Nat]
  /\ cache \in [Profile -> Token \cup {None}]
  /\ cancelling \subseteq Order /\ late \subseteq Order

Init ==
  /\ now = Epoch
  /\ phase = [c \in Call |-> "idle"] /\ stage = [c \in Call |-> None]
  /\ order = [c \in Call |-> None] /\ token = [c \in Call |-> None]
  /\ attempts = [c \in Call |-> 0] /\ wake = [c \in Call |-> 0]
  /\ result = [c \in Call |-> None]
  /\ queue = [e \in Endpoint |-> <<>>] /\ lastRequestAt = [e \in Endpoint |-> 0]
  /\ cache = [p \in Profile |-> None]
  /\ cancelling = {} /\ late = {}

----------------------------------------------------------------------------
(* The token.                                                              *)

ProfileOf(o) == IF ProfileMap[o] # None THEN ProfileMap[o] ELSE DefaultProfile

(* The endpoint a call asks: while it has no token, auth_token.            *)
Asked(c) == IF token[c] = None THEN "auth_token" ELSE stage[c]

Start(c) ==
  /\ phase[c] = "idle" /\ now <= LastStart
  /\ \E o \in Order : order' = [order EXCEPT ![c] = o]
  /\ phase' = [phase EXCEPT ![c] = "token"]
  /\ stage' = [stage EXCEPT ![c] = "reasons"]
  /\ UNCHANGED <<now, token, attempts, wake, result, pace, cache, ifood>>

FreshUnbuffered(t) == t # None /\ now < t.expiresAt
Fresh(t) == t # None /\ now < t.expiresAt - Buffer

GetAccessToken(c) ==
  LET cached == cache[ProfileOf(order[c])] IN
  /\ phase[c] = "token"
  /\ token' = [token EXCEPT ![c] = IF Fresh(cached) THEN cached ELSE None]
  /\ phase' = [phase EXCEPT ![c] = "attempt"]
  /\ attempts' = [attempts EXCEPT ![c] = 0]
  /\ UNCHANGED <<now, stage, order, wake, result, pace, cache, ifood>>

----------------------------------------------------------------------------
(* One attempt of a request: waitForEndpointRateLimit, axios.request.      *)

Attempt(c) ==
  /\ phase[c] = "attempt"
  /\ attempts' = [attempts EXCEPT ![c] = @ + 1]
  /\ IF MinInterval[Asked(c)] = 0
     THEN /\ phase' = [phase EXCEPT ![c] = "sent"]
          /\ wake' = [wake EXCEPT ![c] = now + Timeout]
          /\ UNCHANGED queue
     ELSE /\ phase' = [phase EXCEPT ![c] = "queued"]
          /\ queue' = [queue EXCEPT ![Asked(c)] = Append(@, c)]
          /\ UNCHANGED wake
  /\ UNCHANGED <<now, stage, order, token, result, lastRequestAt, cache, ifood>>

(* The promise of the one before in the queue is resolved.                 *)
AnyTurn(c) == TRUE
MyTurn(c) == Head(queue[Asked(c)]) = c

Pace(c) ==
  LET next == lastRequestAt[Asked(c)] + MinInterval[Asked(c)] IN
  /\ phase[c] = "queued" /\ MyTurn(c)
  /\ wake' = [wake EXCEPT ![c] = IF next > now THEN next ELSE now]
  /\ phase' = [phase EXCEPT ![c] = "paced"]
  /\ UNCHANGED <<now, stage, order, token, attempts, result, pace, cache, ifood>>

(* release: the next of the queue may go.                                  *)
Kept(q) == q
Released(q) == Tail(q)

Send(c) ==
  /\ phase[c] = "paced" /\ now >= wake[c]
  /\ lastRequestAt' = [lastRequestAt EXCEPT ![Asked(c)] = now]
  /\ queue' = [queue EXCEPT ![Asked(c)] = Released(@)]
  /\ phase' = [phase EXCEPT ![c] = "sent"]
  /\ wake' = [wake EXCEPT ![c] = now + Timeout]
  /\ UNCHANGED <<now, stage, order, token, attempts, result, cache, ifood>>

(* The catch of the loop: another attempt after a backoff, or give up.     *)
RetryForEver(c) == TRUE
MayRetry(c) == attempts[c] < MaxAttempts

End(c, r) ==
  /\ phase' = [phase EXCEPT ![c] = "ended"]
  /\ result' = [result EXCEPT ![c] = r]
  /\ stage' = [stage EXCEPT ![c] = None] /\ token' = [token EXCEPT ![c] = None]
  /\ attempts' = [attempts EXCEPT ![c] = 0] /\ wake' = [wake EXCEPT ![c] = 0]

Retry(c) ==
  /\ MayRetry(c)
  /\ phase' = [phase EXCEPT ![c] = "backoff"]
  /\ \E jitter \in 0..(Base - 1) :
       wake' = [wake EXCEPT ![c] = now + Base * 2 ^ (attempts[c] - 1) + jitter]
  /\ UNCHANGED <<stage, token, attempts, result>>

GiveUp(c) == ~ MayRetry(c) /\ End(c, "error")

(* No answer in time.  iFood may get the post later.                       *)
TimesOut(c) ==
  /\ phase[c] = "sent" /\ now >= wake[c]
  /\ Retry(c) \/ GiveUp(c)
  /\ late' \in {late} \cup (IF Asked(c) = "cancel" THEN {late \cup {order[c]}} ELSE {})
  /\ UNCHANGED <<now, order, pace, cache, cancelling>>

(* 429 or 5xx, or a broken connection: iFood did not, or did, do its part. *)
Fails(c) ==
  /\ phase[c] = "sent"
  /\ Retry(c) \/ GiveUp(c)
  /\ cancelling' \in {cancelling}
       \cup (IF Asked(c) = "cancel" THEN {cancelling \cup {order[c]}} ELSE {})
  /\ UNCHANGED <<now, order, pace, cache, late>>

(* An answer that no attempt follows: the caller gets the error.           *)
TakenForYes(c) ==
  /\ phase[c] = "sent" /\ End(c, "accepted")
  /\ UNCHANGED <<now, order, pace, cache, ifood>>
IsRefused(c) ==
  /\ phase[c] = "sent" /\ End(c, "error")
  /\ UNCHANGED <<now, order, pace, cache, ifood>>

Resume(c) ==
  /\ phase[c] = "backoff" /\ now >= wake[c]
  /\ phase' = [phase EXCEPT ![c] = "attempt"]
  /\ wake' = [wake EXCEPT ![c] = 0]
  /\ UNCHANGED <<now, stage, order, token, attempts, result, pace, cache, ifood>>

----------------------------------------------------------------------------
(* Answers.                                                                *)

(* iFood issues the token while the request is under way; the client       *)
(* counts its life from the answer.                                        *)
TokenAnswer(c) ==
  /\ phase[c] = "sent" /\ Asked(c) = "auth_token"
  /\ \E at \in (wake[c] - Timeout)..now :
       LET t == [profile |-> ProfileOf(order[c]), until |-> at + Life,
                 expiresAt |-> now + Life]
       IN /\ token' = [token EXCEPT ![c] = t]
          /\ cache' = [cache EXCEPT ![ProfileOf(order[c])] = t]
  /\ phase' = [phase EXCEPT ![c] = "attempt"]
  /\ attempts' = [attempts EXCEPT ![c] = 0] /\ wake' = [wake EXCEPT ![c] = 0]
  /\ UNCHANGED <<now, stage, order, result, pace, ifood>>

(* Reasons to choose from: then the second token and the post; or none.    *)
ReasonsAnswer(c) ==
  /\ phase[c] = "sent" /\ Asked(c) = "reasons"
  /\ \/ /\ stage' = [stage EXCEPT ![c] = "cancel"]
        /\ phase' = [phase EXCEPT ![c] = "token"]
        /\ token' = [token EXCEPT ![c] = None]
        /\ attempts' = [attempts EXCEPT ![c] = 0] /\ wake' = [wake EXCEPT ![c] = 0]
        /\ UNCHANGED result
     \/ End(c, "refused")
  /\ UNCHANGED <<now, order, pace, cache, ifood>>

(* iFood takes the request, or refuses it: a cancellation is in progress   *)
(* already, or it is too late for one.                                     *)
CancelAnswer(c) ==
  /\ phase[c] = "sent" /\ Asked(c) = "cancel"
  /\ \/ End(c, "refused") /\ UNCHANGED cancelling
     \/ /\ order[c] \notin cancelling
        /\ End(c, "accepted") /\ cancelling' = cancelling \cup {order[c]}
  /\ UNCHANGED <<now, order, pace, cache, late>>

LateCancel ==
  /\ \E o \in late : cancelling' = cancelling \cup {o} /\ late' = late \ {o}
  /\ UNCHANGED <<now, call, pace, cache>>

----------------------------------------------------------------------------
HasTimer(c) == phase[c] \in {"paced", "sent", "backoff"}

(* What cannot wait: a step of the program, or a timer that is due.        *)
Urgent(c) ==
  \/ phase[c] \in {"token", "attempt"}
  \/ phase[c] = "queued" /\ MyTurn(c)
  \/ HasTimer(c) /\ now >= wake[c]

Tick ==
  /\ now < LastStart \/ \E c \in Call : HasTimer(c)
  /\ \A c \in Call : ~ Urgent(c)
  /\ now' = now + 1
  /\ UNCHANGED <<call, pace, cache, ifood>>

GoesOn(c) ==
  \/ GetAccessToken(c) \/ Attempt(c) \/ Pace(c) \/ Send(c) \/ TimesOut(c)
  \/ Resume(c) \/ TokenAnswer(c) \/ ReasonsAnswer(c) \/ CancelAnswer(c)

Next ==
  \/ \E c \in Call : Start(c) \/ GoesOn(c) \/ Fails(c) \/ IsRefused(c)
  \/ LateCancel \/ Tick

Spec == Init /\ [][Next]_vars

(* The clock goes on, and the program does what it can.                    *)
FairSpec == Spec /\ WF_vars(Tick) /\ \A c \in Call : WF_vars(GoesOn(c))

----------------------------------------------------------------------------
(* Properties.                                                             *)

(* waitForEndpointRateLimit: two sends to an endpoint are at least its     *)
(* interval apart, whoever makes them, retries included.                   *)
SpacedOut ==
  [][\A c \in Call :
       phase[c] # "sent" /\ phase'[c] = "sent"
       => now - lastRequestAt[Asked(c)] >= MinInterval[Asked(c)]]_vars

(* TOKEN_EXPIRATION_BUFFER_MS: the token a request carries is alive at     *)
(* iFood until the last attempt is answered, although the client believes  *)
(* it lives longer than it does.                                           *)
TokenAlive ==
  \A c \in Call :
    phase[c] = "sent" /\ token[c] # None => now < token[c].until

(* requestCancellation: what a caller is told is accepted, iFood took.     *)
AcceptedIsCancelling ==
  \A c \in Call : result[c] = "accepted" => order[c] \in cancelling

(* 'A entrega não foi cancelada localmente para evitar divergência'        *)
(* (delivery.service.ts:1892): an order whose cancellation the caller is   *)
(* told was refused, with no other caller, is not being cancelled.         *)
RefusedIsKept ==
  \A c \in Call :
    result[c] = "refused" /\ (\A b \in Call \ {c} : order[b] # order[c])
    => order[c] \notin cancelling

(* Attempts and waits are bounded: every call is answered.                 *)
EveryCallReturns == \A c \in Call : (phase[c] = "token") ~> (phase[c] = "ended")
=============================================================================
