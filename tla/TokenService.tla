---- MODULE TokenService ----
(***************************************************************************)
(* app: the request handlers of /v1/mint, /v1/renew and /v1/keytab, on one *)
(* asyncio event loop, with the default thread-pool executor that runs     *)
(* kinit and cern-get-keytab, and the limiter they share.                  *)
(*                                                                         *)
(* A slot is one request being served at a time.  The event loop switches  *)
(* requests only at an await, so a handler is three atomic steps:          *)
(*   arrival               up to the await in verify_broker_token          *)
(*   "verifying" to ...    validation, the limiter's check, the staging    *)
(*                         directory, and the submission to the executor   *)
(*   "exited" to "idle"    classification, record_failure or reset, the    *)
(*                         audit line and the answer                       *)
(* Between the last two the subprocess waits for a worker ("queued"), runs *)
(* ("running") and has ended ("exited") while other requests move on.      *)
(***************************************************************************)
EXTENDS RateLimiter, Minting

CONSTANTS Slots,       \* requests that can be in progress at once
          Workers,     \* max_workers of the default ThreadPoolExecutor
          InUse,       \* the modes clients use, a subset of Modes
          Faults,      \* the environment failures that may happen
          MaxRejected, \* bound: times remembered in rejected and hidden, for each username
          MaxStrays,   \* bound: unanswered passwords remembered, for each username
          MaxCrashes   \* bound: process restarts

AllFaults == {"jwks", "realm", "mkdir", "stage", "spawn", "timeout", "child", "output"}

ASSUME ServiceAssumption ==
    /\ IsFiniteSet(Slots) /\ Slots # {}
    /\ Workers \in Nat \ {0}
    /\ InUse \subseteq Modes
    /\ Faults \subseteq AllFaults
    /\ MaxRejected \in Nat
    /\ MaxStrays \in Nat
    /\ MaxCrashes \in Nat

VARIABLES pc,        \* pc[s]: where the request of s is
          mode,      \* mode[s]: what it asks for, "none" when idle
          user,      \* user[s]: the username in its body, None when idle
          verdict,   \* verdict[s]: the KDC's answer to its subprocess, "none" before
          result,    \* result[s]: how subprocess.run ended
          buf,       \* buf[s]: the bytearray with its secret: "none", "held", "zeroed"
          status,    \* status[s]: HTTP status of the last answer of s, 0 while there is none
          audit,     \* audit[s]: outcomes of the audit lines of that request
          queue,     \* the executor's work queue
          rejected,  \* rejected[u]: when the KDC rejected a password of u (the last
                     \* MaxRejected times) since the limiter last heard of a
                     \* success of u, or the restart
          hidden,    \* hidden[u]: when a rejection of u was lost to the limiter, likewise
          strays,    \* strays[u]: passwords of u the KDC may still reject although the
                     \* handler that sent them is gone
          crashes

reqVars == <<pc, mode, user, verdict, result, buf, status, audit>>
vars == <<limiterVars, reqVars, queue, rejected, hidden, strays, crashes>>

NoResult == [how |-> "none", stderr |-> {}, output |-> "none"]

Init ==
    /\ LimiterInit
    /\ pc = [s \in Slots |-> "idle"]
    /\ mode = [s \in Slots |-> "none"]
    /\ user = [s \in Slots |-> None]
    /\ verdict = [s \in Slots |-> "none"]
    /\ result = [s \in Slots |-> NoResult]
    /\ buf = [s \in Slots |-> "none"]
    /\ status = [s \in Slots |-> 0]
    /\ audit = [s \in Slots |-> <<>>]
    /\ queue = <<>>
    /\ rejected = [u \in Users |-> <<>>]
    /\ hidden = [u \in Users |-> <<>>]
    /\ strays = [u \in Users |-> 0]
    /\ crashes = 0

----------------------------------------------------------------------------
(* Answers. *)

\* The request of s ends with this status and these audit lines.
Answer(s, code, lines) ==
    /\ pc' = [pc EXCEPT ![s] = "idle"]
    /\ status' = [status EXCEPT ![s] = code]
    /\ audit' = [audit EXCEPT ![s] = @ \o lines]
    /\ verdict' = [verdict EXCEPT ![s] = "none"]
    /\ result' = [result EXCEPT ![s] = NoResult]
    /\ mode' = [mode EXCEPT ![s] = "none"]
    /\ user' = [user EXCEPT ![s] = None]
    /\ UNCHANGED <<queue, crashes>>

Reply(code, outcome) == [code |-> code, lines |-> <<outcome>>]

\* An exception no handler catches: Starlette answers 500, nothing is audited.
Uncaught == [code |-> 500, lines |-> <<>>]

\* Mutant: an infra failure is audited as the client's fault.
MintReplyBlames(outcome) ==
    CASE outcome \in {"BadPasswordError", "BadKeytabError", "UnknownPrincipalError"}
                                        -> Reply(400, "denied")
      [] outcome = "AccountUnusableError" -> Reply(403, "denied")
      [] outcome = "MintingError"         -> Reply(502, "denied")
      [] outcome = "ok"                   -> Reply(200, "issued")
      [] OTHER                            -> Uncaught

\* The except clauses of mint.
MintReply(outcome) ==
    CASE outcome \in {"BadPasswordError", "BadKeytabError", "UnknownPrincipalError"}
                                        -> Reply(400, "denied")
      [] outcome = "AccountUnusableError" -> Reply(403, "denied")
      [] outcome = "MintingError"         -> Reply(502, "error")
      [] outcome = "ok"                   -> Reply(200, "issued")
      [] OTHER                            -> Uncaught

\* The except clauses of renew.
RenewReply(outcome) ==
    CASE outcome = "CcacheParseError"   -> Reply(422, "denied")
      [] outcome = "TicketExpiredError" -> Reply(400, "denied")
      [] outcome = "MintingError"       -> Reply(502, "error")
      [] outcome = "ok"                 -> Reply(200, "issued")
      [] OTHER                          -> Uncaught

\* The except clauses of keytab.
KeytabReply(outcome) ==
    CASE outcome = "BadPasswordError" -> Reply(400, "denied")
      [] outcome = "MintingError"     -> Reply(502, "error")
      [] outcome = "ok"               -> Reply(200, "issued")
      [] OTHER                        -> Uncaught

ReplyTo(m, outcome) ==
    CASE m = "renew" -> RenewReply(outcome)
      [] m = "bootstrap" -> KeytabReply(outcome)
      [] OTHER -> MintReply(outcome)
----------------------------------------------------------------------------
(* The first step of a handler. *)

\* A well-formed request reaches its handler, which awaits verify_broker_token.
Arrive(s) ==
    /\ pc[s] = "idle"
    /\ \E m \in InUse, u \in Users :
         /\ mode' = [mode EXCEPT ![s] = m]
         /\ user' = [user EXCEPT ![s] = u]
    /\ pc' = [pc EXCEPT ![s] = "verifying"]
    /\ buf' = [buf EXCEPT ![s] = "none"]
    /\ status' = [status EXCEPT ![s] = 0]
    /\ audit' = [audit EXCEPT ![s] = <<>>]
    /\ UNCHANGED <<limiterVars, verdict, result, queue, rejected, hidden, strays, crashes>>

\* A mint body with both credentials or neither: FastAPI answers 422 and the
\* handler never runs.
RejectBody(s) ==
    /\ pc[s] = "idle"
    /\ InUse \cap {"password", "keytab"} # {}
    /\ buf' = [buf EXCEPT ![s] = "none"]
    /\ status' = [status EXCEPT ![s] = 422]
    /\ audit' = [audit EXCEPT ![s] = <<>>]
    /\ UNCHANGED <<limiterVars, pc, mode, user, verdict, result, queue, rejected, hidden, strays, crashes>>

----------------------------------------------------------------------------
(* The second step, from the verified token to the executor. *)

\* No token or an invalid one is a denial; no reachable JWKS is an error; a JWKS
\* that is no list of objects raises what no handler catches (JwksCache!Verdict).
VerifyFails(s) ==
    /\ pc[s] = "verifying"
    /\ \/ Answer(s, 401, <<"denied">>)
       \/ Answer(s, 502, <<"error">>)
       \/ "jwks" \in Faults /\ Answer(s, 500, <<>>)
    /\ UNCHANGED <<limiterVars, buf, rejected, hidden, strays>>

\* validate_username or validate_lifetime refuses the body.
InvalidRequest(s) ==
    /\ pc[s] = "verifying"
    /\ mode[s] # "renew"
    /\ Answer(s, 422, <<"denied">>)
    /\ UNCHANGED <<limiterVars, buf, rejected, hidden, strays>>

\* RateLimitedError.
RateLimited(s) ==
    /\ pc[s] = "verifying"
    /\ mode[s] \in PasswordModes
    /\ Locked(user[s])
    /\ Answer(s, 429, <<"denied">>)
    /\ UNCHANGED <<limiterVars, buf, rejected, hidden, strays>>

\* keytab_b64 or ccache_b64 is not base64, or the ccache does not parse.  A ccache
\* whose realm is not UTF-8 raises what no handler catches.
InvalidBlob(s) ==
    /\ pc[s] = "verifying"
    /\ \/ mode[s] \in {"keytab", "renew"} /\ Answer(s, 422, <<"denied">>)
       \/ mode[s] = "renew" /\ "realm" \in Faults /\ Answer(s, 500, <<>>)
    /\ UNCHANGED <<limiterVars, buf, rejected, hidden, strays>>

\* Mutant: the handlers never consult the limiter.
CheckedNever(s) == UNCHANGED state

\* Mutant: only /v1/mint consults it.
CheckedMintOnly(s) ==
    IF mode[s] = "password" THEN CheckPasses(user[s]) ELSE UNCHANGED state

\* Only a password is checked against the limiter.
Checked(s) ==
    IF mode[s] \in PasswordModes THEN CheckPasses(user[s]) ELSE UNCHANGED state

Secret(s) == IF mode[s] = "renew" THEN "none" ELSE "held"

\* Mutant: the finally clause forgets the keytab.
ZeroedSecretNotKeytab(s) ==
    IF mode[s] = "renew" THEN "none" ELSE IF mode[s] = "keytab" THEN "held" ELSE "zeroed"

\* What the finally clause leaves of the secret.
ZeroedSecret(s) == IF mode[s] = "renew" THEN "none" ELSE "zeroed"

\* The tmp root cannot be made: OSError, before the try that zeros the buffers.
MkdirFails(s) ==
    /\ pc[s] = "verifying"
    /\ "mkdir" \in Faults
    /\ Checked(s)
    /\ buf' = [buf EXCEPT ![s] = Secret(s)]
    /\ Answer(s, 500, <<>>)
    /\ UNCHANGED <<now, rejected, hidden, strays>>

\* The working directory or a file in it cannot be written: OSError inside the try.
StageFails(s) ==
    /\ pc[s] = "verifying"
    /\ "stage" \in Faults
    /\ Checked(s)
    /\ buf' = [buf EXCEPT ![s] = ZeroedSecret(s)]
    /\ Answer(s, 500, <<>>)
    /\ UNCHANGED <<now, rejected, hidden, strays>>

\* Mutant: the coroutine submits its subprocess twice.
SubmitTwice(s) ==
    /\ pc[s] = "verifying"
    /\ Checked(s)
    /\ buf' = [buf EXCEPT ![s] = Secret(s)]
    /\ pc' = [pc EXCEPT ![s] = "queued"]
    /\ queue' = queue \o <<s, s>>
    /\ UNCHANGED <<now, mode, user, verdict, result, status, audit, rejected, hidden, strays, crashes>>

\* Everything is in place: the subprocess is submitted to the executor.
Submit(s) ==
    /\ pc[s] = "verifying"
    /\ Checked(s)
    /\ buf' = [buf EXCEPT ![s] = Secret(s)]
    /\ pc' = [pc EXCEPT ![s] = "queued"]
    /\ queue' = Append(queue, s)
    /\ UNCHANGED <<now, mode, user, verdict, result, status, audit, rejected, hidden, strays, crashes>>

----------------------------------------------------------------------------
(* The executor's threads and the subprocess. *)

Running == {s \in Slots : pc[s] = "running"}

\* A free worker takes the oldest work item and spawns the subprocess.
Start(s) ==
    /\ queue # <<>>
    /\ s = Head(queue)
    /\ Cardinality(Running) < Workers
    /\ pc' = [pc EXCEPT ![s] = "running"]
    /\ queue' = Tail(queue)
    /\ UNCHANGED <<limiterVars, mode, user, verdict, result, buf, status, audit, rejected, hidden, strays, crashes>>

\* The last MaxRejected elements of a list.
Latest(list) == IF Len(list) > MaxRejected
                  THEN SubSeq(list, Len(list) - MaxRejected + 1, Len(list)) ELSE list

\* The KDC answers the child.
KdcAnswers(s) ==
    /\ pc[s] = "running"
    /\ verdict[s] = "none"
    /\ \E v \in KdcVerdicts(mode[s]) :
         /\ verdict' = [verdict EXCEPT ![s] = v]
         /\ rejected' = IF v = "bad_secret" /\ mode[s] \in PasswordModes
                          THEN [rejected EXCEPT ![user[s]] = Latest(Append(@, now))]
                          ELSE rejected
    /\ UNCHANGED <<limiterVars, pc, mode, user, result, buf, status, audit, queue, hidden, strays, crashes>>

\* Mutant: subprocess.run without a timeout waits for an answer.
SubprocessEndsUnbounded(s) ==
    /\ pc[s] = "running"
    /\ verdict[s] # "none"
    /\ \E r \in Results(mode[s], verdict[s], Faults \ {"timeout"}) :
         result' = [result EXCEPT ![s] = r]
    /\ pc' = [pc EXCEPT ![s] = "exited"]
    /\ UNCHANGED <<limiterVars, mode, user, verdict, buf, status, audit, queue, rejected, hidden, strays, crashes>>

\* subprocess.run returns or raises; the future wakes the handler.
SubprocessEnds(s) ==
    /\ pc[s] = "running"
    /\ \E r \in Results(mode[s], verdict[s], Faults) :
         result' = [result EXCEPT ![s] = r]
    /\ pc' = [pc EXCEPT ![s] = "exited"]
    /\ UNCHANGED <<limiterVars, mode, user, verdict, buf, status, audit, queue, rejected, hidden, strays, crashes>>

----------------------------------------------------------------------------
(* The third step: the handler resumes with the result. *)

\* Mutant: a success resets the limiter whatever the credential was.
SettleResetsAlways(s, outcome) ==
    CASE outcome = "BadPasswordError" -> RecordFailure(user[s])
      [] outcome = "ok" -> Reset(user[s])
      [] OTHER -> UNCHANGED state

\* Mutant: /v1/keytab does not record its bad passwords.
SettleMintOnly(s, outcome) ==
    CASE outcome = "BadPasswordError" /\ mode[s] = "password" -> RecordFailure(user[s])
      [] outcome = "ok" /\ mode[s] \in PasswordModes -> Reset(user[s])
      [] OTHER -> UNCHANGED state

\* Mutant: an infra failure clears the failures, as a success does.
SettleResetsOnError(s, outcome) ==
    CASE outcome = "BadPasswordError" -> RecordFailure(user[s])
      [] outcome \in {"ok", "MintingError"} /\ mode[s] \in PasswordModes -> Reset(user[s])
      [] OTHER -> UNCHANGED state

\* What the handler does to the limiter.
Settle(s, outcome) ==
    CASE outcome = "BadPasswordError" -> RecordFailure(user[s])
      [] outcome = "ok" /\ mode[s] \in PasswordModes -> Reset(user[s])
      [] OTHER -> UNCHANGED state

\* The child was killed after the KDC had rejected its password.
KilledRejected(s) ==
    /\ mode[s] \in PasswordModes
    /\ verdict[s] = "bad_secret"
    /\ result[s].how = "timeout"

\* The child may have sent its password, and the KDC has not answered.
Unanswered(s) ==
    /\ pc[s] \in {"running", "exited"}
    /\ mode[s] \in PasswordModes
    /\ verdict[s] = "none"
    /\ result[s].how # "oserror"

AtMostStrays(n) == IF n > MaxStrays THEN MaxStrays ELSE n

Resume(s) ==
    /\ pc[s] = "exited"
    /\ LET outcome == Outcome(mode[s], result[s])
           reply == ReplyTo(mode[s], outcome)
       IN  /\ Settle(s, outcome)
           /\ rejected' = IF outcome = "ok" /\ mode[s] \in PasswordModes
                            THEN [rejected EXCEPT ![user[s]] = <<>>] ELSE rejected
           /\ hidden' = IF outcome = "ok" /\ mode[s] \in PasswordModes
                          THEN [hidden EXCEPT ![user[s]] = <<>>]
                          ELSE IF KilledRejected(s)
                            THEN [hidden EXCEPT ![user[s]] = Latest(Append(@, now))]
                            ELSE hidden
           /\ strays' = IF Unanswered(s)
                          THEN [strays EXCEPT ![user[s]] = AtMostStrays(@ + 1)] ELSE strays
           /\ Answer(s, reply.code, reply.lines)
    /\ buf' = [buf EXCEPT ![s] = ZeroedSecret(s)]
    /\ UNCHANGED now

\* The KDC makes up its mind about a password whose handler has given up: killing
\* kinit recalls no request, and the msktutil of a killed cern-get-keytab lives on.
StrayAnswers(u) ==
    /\ strays[u] > 0
    /\ strays' = [strays EXCEPT ![u] = @ - 1]
    /\ \/ /\ rejected' = [rejected EXCEPT ![u] = Latest(Append(@, now))]
          /\ hidden' = [hidden EXCEPT ![u] = Latest(Append(@, now))]
       \/ UNCHANGED <<rejected, hidden>>
    /\ UNCHANGED <<limiterVars, reqVars, queue, crashes>>

----------------------------------------------------------------------------
(* Time and restarts. *)

TimePasses ==
    /\ Tick
    /\ UNCHANGED <<state, reqVars, queue, rejected, hidden, strays, crashes>>

\* The process dies: its requests get no answer, and the limiter starts empty.
Crash ==
    /\ crashes < MaxCrashes
    /\ crashes' = crashes + 1
    /\ state' = [u \in Users |-> Fresh]
    /\ rejected' = [u \in Users |-> <<>>]
    /\ hidden' = [u \in Users |-> <<>>]
    /\ strays' = [u \in Users |->
                    AtMostStrays(strays[u]
                                   + Cardinality({s \in Slots : user[s] = u /\ Unanswered(s)}))]
    /\ pc' = [s \in Slots |-> "idle"]
    /\ verdict' = [s \in Slots |-> "none"]
    /\ result' = [s \in Slots |-> NoResult]
    /\ buf' = [s \in Slots |-> "none"]
    /\ status' = [s \in Slots |-> 0]
    /\ audit' = [s \in Slots |-> <<>>]
    /\ mode' = [s \in Slots |-> "none"]
    /\ user' = [s \in Slots |-> None]
    /\ queue' = <<>>
    /\ UNCHANGED now

Handle(s) ==
    \/ VerifyFails(s) \/ InvalidRequest(s) \/ RateLimited(s) \/ InvalidBlob(s)
    \/ MkdirFails(s) \/ StageFails(s) \/ Submit(s)

Next ==
    \/ \E s \in Slots :
         \/ Arrive(s) \/ RejectBody(s)
         \/ Handle(s)
         \/ Start(s) \/ KdcAnswers(s) \/ SubprocessEnds(s)
         \/ Resume(s)
    \/ \E u \in Users : StrayAnswers(u)
    \/ TimePasses
    \/ Crash

\* verify_broker_token ends (the JWKS fetch has a timeout), a free worker takes
\* the next item, subprocess.run ends by itself or by its timeout, and the event
\* loop runs every ready handler.
Fairness ==
    \A s \in Slots :
        WF_vars(Handle(s)) /\ WF_vars(Start(s))
        /\ WF_vars(SubprocessEnds(s)) /\ WF_vars(Resume(s))

Spec == Init /\ [][Next]_vars

FairSpec == Spec /\ Fairness
----------------------------------------------------------------------------
(* Properties. *)

PCs == {"idle", "verifying", "queued", "running", "exited"}
AllVerdicts == {"none"} \cup UNION {KdcVerdicts(m) : m \in Modes}
AllMarkers == {"BAD_PASSWORD", "UNKNOWN_PRINCIPAL", "REVOKED", "PASSWORD_EXPIRED",
               "BAD_KEY", "TICKET_EXPIRED", "NO_CREDENTIALS", "other"}
AllResults == [how    : {"none", "exit0", "nonzero", "oserror", "timeout"},
               stderr : SUBSET AllMarkers,
               output : {"none", "good", "missing", "empty", "unparsable"}]

\* Every variable holds a value of its kind; a limiter entry is what
\* _UsernameState declares (ratelimit.py:41-44).
TypeOK ==
    /\ LimiterTypeOK
    /\ pc \in [Slots -> PCs]
    /\ mode \in [Slots -> Modes \cup {"none"}]
    /\ user \in [Slots -> Users \cup {None}]
    /\ \A s \in Slots : pc[s] # "idle" => mode[s] \in Modes /\ user[s] \in Users
    /\ verdict \in [Slots -> AllVerdicts]
    /\ result \in [Slots -> AllResults]
    /\ buf \in [Slots -> {"none", "held", "zeroed"}]
    /\ status \in [Slots -> Nat]
    /\ audit \in [Slots -> Seq({"issued", "denied", "error"})]
    /\ queue \in Seq(Slots)
    /\ rejected \in [Users -> Seq(Nat)]
    /\ hidden \in [Users -> Seq(Nat)]
    /\ strays \in [Users -> Nat]
    /\ crashes \in Nat

\* The work queue holds each request that waits for a worker, once, and no
\* other: none is lost, run twice, or run after it has been answered
\* (_run_subprocess, minting.py:291-303).
QueueMatchesPc ==
    /\ \A i, j \in DOMAIN queue : i # j => queue[i] # queue[j]
    /\ \A i \in DOMAIN queue : pc[queue[i]] = "queued"
    /\ \A s \in Slots : pc[s] = "queued" => \E i \in DOMAIN queue : queue[i] = s

\* The requests that have passed the limiter with a password of u and whose
\* outcome has not reached it.
InFlight(u) ==
    {s \in Slots : /\ pc[s] \in {"queued", "running", "exited"}
                   /\ mode[s] \in PasswordModes
                   /\ user[s] = u}

\* While no lockout is recorded, fewer than MaxAttempts failures are: no order of
\* concurrent failures, successes and expiries leaves a full list unlocked
\* (record_failure, ratelimit.py:83-91).
UnlockedBelowLimit ==
    \A u \in Users :
        state[u].locked_until = None => Len(state[u].failure_times) < MaxAttempts

\* What check-then-await costs: requests that passed check before the lockout was
\* recorded may overrun max_attempts, but the failures recorded and those still
\* possible never exceed MaxAttempts - 1 by more than the number of slots
\* (mint and keytab, app.py:214-269 and 548-568).
AttemptBudget ==
    \A u \in Users :
        Len(state[u].failure_times) + Cardinality(InFlight(u))
            <= MaxAttempts - 1 + Cardinality(Slots)

\* The times of a list within the last Span.
WithinSpan(times) == {i \in DOMAIN times : now - times[i] < Span}

\* CERN's side of the budget: unless a mint for u succeeds or the process restarts,
\* the KDC rejects the passwords of no more than MaxAttempts requests for u within
\* the limiter's reach, and of at most two more for each further concurrent request
\* (one that passed check with the last free attempt, one whose failure a lockout's
\* expiry forgets), and those the limiter never hears of on top: a child killed
\* before it could report the rejection, a rejection that comes after the child is
\* gone (app.py:214-269).  It counts requests: msktutil may offer one password to
\* the KDC several times (minting.py:253-258), and CERN counts each.
RejectionBudget ==
    \A u \in Users :
        Cardinality(WithinSpan(rejected[u]))
            <= MaxAttempts + 2 * (Cardinality(Slots) - 1)
                 + Cardinality(WithinSpan(hidden[u]))

\* The race the limiter leaves open is over as soon as one of its racers has
\* failed: while a lockout is recorded for u, running or waiting to be noticed, at
\* least one slot has no attempt of u, so no more than the others can still reach
\* the KDC (app.py:214-216 and 546-548 against 269 and 568).
OverrunBounded ==
    \A u \in Users :
        state[u].locked_until # None => Cardinality(InFlight(u)) < Cardinality(Slots)

\* The claim of ratelimit.py:7-9: once a username has failed too many times,
\* kinit (or cern-get-keytab) is not even invoked with its password.
NoKinitWhileLocked ==
    [][\A s \in Slots :
          pc[s] = "queued" /\ pc'[s] = "running" /\ mode[s] \in PasswordModes
              => ~Locked(user[s])]_vars

\* A running lockout is never lifted or shortened by what other requests do: only
\* a success for the same username, or a restart, ends it early
\* (record_failure and reset, ratelimit.py:83-94).
LockoutKept ==
    [][\A u \in Users :
          Locked(u) /\ crashes' = crashes =>
              \/ /\ state'[u].locked_until # None
                 /\ state'[u].locked_until >= state[u].locked_until
              \/ \E s \in InFlight(u) : pc'[s] = "idle" /\ status'[s] = 200]_vars

\* Only a request that carries a password of u touches u's limiter entry: not a
\* keytab mint, not a renewal, not another user's request (app.py:211-214, 343).
LimiterIsolation ==
    [][\A u \in Users :
          state'[u] # state[u] /\ crashes' = crashes =>
              \E s \in Slots : /\ user[s] = u
                               /\ mode[s] \in PasswordModes
                               /\ pc'[s] # pc[s]]_vars

\* A failure that lands after a lockout has run out, and before any check has
\* noticed, does not bring the failures from before the lockout back
\* (ratelimit.py:78-79).  It takes a lockout no shorter than the window.
NoResurrection ==
    [][\A u \in Users :
          /\ state[u].locked_until # None
          /\ ~Locked(u)
          /\ state'[u].locked_until # state[u].locked_until
          => state'[u].locked_until = None
             \/ \A i \in DOMAIN state'[u].failure_times :
                   state'[u].failure_times[i] > state[u].locked_until - Lockout]_vars

\* The limiter hears of every password the KDC rejected, unless the child was
\* killed first, and kinit's other failures are never taken for a wrong password
\* (BadPasswordError's docstring, minting.py:76-86; ratelimit.py:50-54).
FailureCounted ==
    [][\A s \in Slots :
          pc[s] = "exited" /\ pc'[s] = "idle" /\ crashes' = crashes =>
              LET u == user[s]
                  times == state'[u].failure_times
                  counted == state'[u] # state[u] /\ Len(times) > 0 /\ times[Len(times)] = now
                  refused == /\ mode[s] \in PasswordModes
                             /\ verdict[s] = "bad_secret"
                             /\ result[s].how = "nonzero"
              IN  /\ refused => counted
                  /\ counted /\ mode[s] # "bootstrap" => refused]_vars

\* A handler that answers leaves exactly one audit line, and it tells the same
\* story as the status: issued for 200, error for 502, denied for the client's
\* faults.  Only a 500 or a body FastAPI refuses has none (app.py:92-115).
AuditMatchesAnswer ==
    \A s \in Slots :
        CASE status[s] \in {0, 500} -> audit[s] = <<>>
          [] status[s] = 200 -> audit[s] = <<"issued">>
          [] status[s] = 502 -> audit[s] = <<"error">>
          [] status[s] = 422 -> audit[s] \in {<<>>, <<"denied">>}
          [] OTHER -> audit[s] = <<"denied">>

\* "Every request produces exactly one JSON audit line" (README.md:74-75): a handler
\* that has begun does not end without one.
EveryAnswerAudited ==
    [][\A s \in Slots :
          pc[s] # "idle" /\ pc'[s] = "idle" /\ crashes' = crashes
              => Len(audit'[s]) = 1]_vars

\* A request that has been answered holds no secret in its buffers, except after
\* an exception nothing catches (mint_ticket and mint_keytab, minting.py:337-340).
BufferReleased ==
    \A s \in Slots : pc[s] = "idle" /\ buf[s] = "held" => status[s] = 500

\* Every request a handler has begun is answered, however few workers there are
\* and whatever the KDC does, unless the process dies (config.py:62-77).
EveryRequestAnswered ==
    \A s \in Slots : pc[s] = "verifying" ~> pc[s] = "idle"
====
