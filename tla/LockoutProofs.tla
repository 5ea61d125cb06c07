---- MODULE LockoutProofs ----
(***************************************************************************)
(* Who may touch a username's limiter entry, what may end its lockout and  *)
(* what a lockout leaves behind; what the limiter hears of the KDC's       *)
(* rejections, and how many of them fit into one Span, for every number    *)
(* of requests and users.  It all starts from one case analysis of what a  *)
(* step does to an entry, LimiterStep.                                     *)
(*                                                                         *)
(* RejectionsBounded relates what the KDC counts for a username, what the  *)
(* limiter counts and what is in flight.                                   *)
(***************************************************************************)
EXTENDS TokenServiceProofs

\* The check of a request with a password of u passed.
PassedCheck(s, u) == pc[s] = "verifying" /\ pc'[s] # "verifying" /\ CheckPasses(u)

\* The outcome of an attempt in flight reached the limiter: it was a failure, or
\* a success that is answered with 200.
Settled(s, u) ==
    /\ s \in InFlight(u)
    /\ pc[s] = "exited" /\ pc'[s] = "idle"
    /\ \/ RecordFailure(u) /\ now' = now
       \/ Reset(u) /\ status'[s] = 200

\* What a step may do to the entry of u.
EntryStep(u) ==
    \/ state'[u] = state[u]
    \/ \E s \in Slots : /\ user[s] = u
                        /\ mode[s] \in PasswordModes
                        /\ PassedCheck(s, u) \/ Settled(s, u)

\* Consulting the limiter for one request leaves every other username alone, and
\* a locked one refuses (RateLimiter.check, ratelimit.py:71-81).
LEMMA CheckedStep ==
    ASSUME TypeOK, NEW s \in Slots, pc[s] = "verifying", Checked(s), pc'[s] # "verifying",
           NEW u \in Users
    PROVE  EntryStep(u)
<1>1. CASE mode[s] \in PasswordModes /\ user[s] = u
  <2>1. CheckPasses(u)
    BY <1>1 DEF Checked
  <2>2. QED
    BY <1>1, <2>1 DEF EntryStep, PassedCheck
<1>2. CASE ~(mode[s] \in PasswordModes /\ user[s] = u)
  <2>1. state'[u] = state[u]
    <3>1. CASE mode[s] \in PasswordModes
      <4>1. CheckPasses(user[s]) /\ user[s] # u
        BY <1>2, <3>1 DEF Checked
      <4>2. QED
        BY <4>1 DEF CheckPasses, TypeOK, LimiterTypeOK
    <3>2. CASE mode[s] \notin PasswordModes
      BY <3>2 DEF Checked
    <3>3. QED
      BY <3>1, <3>2
  <2>2. QED
    BY <2>1 DEF EntryStep
<1>3. QED
  BY <1>1, <1>2

\* A mint or bootstrap that succeeds is answered 200 (app.py:345-353 and 600-613).
LEMMA SuccessReply ==
    ASSUME NEW m \in PasswordModes
    PROVE  ReplyTo(m, "ok").code = 200
BY DEF ReplyTo, MintReply, KeytabReply, Reply, PasswordModes

\* A handler tells the limiter nothing of any other username (app.py:268-269, 343-344,
\* 567-568 and 600).
LEMMA OthersUntouched ==
    ASSUME TypeOK, NEW s \in Slots, NEW outcome, Settle(s, outcome),
           outcome = "BadPasswordError" => mode[s] \in PasswordModes,
           NEW u \in Users, ~(user[s] = u /\ mode[s] \in PasswordModes)
    PROVE  state'[u] = state[u]
<1>1. CASE outcome = "BadPasswordError"
  <2>1. RecordFailure(user[s]) /\ user[s] # u
    BY <1>1 DEF Settle
  <2>2. QED
    BY <2>1 DEF RecordFailure, TypeOK, LimiterTypeOK
<1>2. CASE outcome = "ok" /\ mode[s] \in PasswordModes
  <2>1. Reset(user[s]) /\ user[s] # u
    BY <1>2 DEF Settle
  <2>2. QED
    BY <2>1 DEF Reset, TypeOK, LimiterTypeOK
<1>3. CASE outcome # "BadPasswordError" /\ ~(outcome = "ok" /\ mode[s] \in PasswordModes)
  BY <1>3 DEF Settle
<1>4. QED
  BY <1>1, <1>2, <1>3

\* The last step of a handler records a failure or forgets the failures of its
\* own username only, and only if it offered a password (app.py:268-269, 343-344,
\* 567-568 and 600).
LEMMA ResumeStep ==
    ASSUME TypeOK, NEW s \in Slots, Resume(s), NEW u \in Users
    PROVE  EntryStep(u)
<1> DEFINE outcome == Outcome(mode[s], result[s])
           reply == ReplyTo(mode[s], outcome)
<1>1. pc[s] = "exited" /\ mode[s] \in Modes /\ user[s] \in Users
  BY DEF Resume, TypeOK
<1>2. /\ Settle(s, outcome) /\ Answer(s, reply.code, reply.lines) /\ now' = now
  BY DEF Resume
<1>3. pc'[s] = "idle" /\ status'[s] = reply.code
  BY <1>2 DEF Answer, TypeOK
<1> HIDE DEF outcome, reply
<1>4. outcome = "BadPasswordError" => mode[s] \in PasswordModes
  BY <1>1, BadPasswordNeedsPassword DEF outcome
<1>5. CASE user[s] = u /\ mode[s] \in PasswordModes
  <2>1. s \in InFlight(u)
    BY <1>1, <1>5 DEF InFlight
  <2>2. CASE outcome = "BadPasswordError"
    <3>1. RecordFailure(u)
      BY <1>2, <1>5, <2>2 DEF Settle
    <3>2. QED
      BY <1>1, <1>2, <1>3, <1>5, <2>1, <3>1 DEF EntryStep, Settled
  <2>3. CASE outcome = "ok"
    <3>1. status'[s] = 200
      BY <1>3, <1>5, <2>3, SuccessReply DEF reply
    <3>2. Reset(u)
      BY <1>2, <1>5, <2>3 DEF Settle
    <3>3. QED
      BY <1>1, <1>3, <1>5, <2>1, <3>1, <3>2 DEF EntryStep, Settled
  <2>4. CASE outcome # "BadPasswordError" /\ outcome # "ok"
    BY <1>2, <2>4 DEF Settle, EntryStep
  <2>5. QED
    BY <2>2, <2>3, <2>4
<1>6. CASE ~(user[s] = u /\ mode[s] \in PasswordModes)
  <2>1. state'[u] = state[u]
    BY <1>2, <1>4, <1>6, OthersUntouched
  <2>2. QED
    BY <2>1 DEF EntryStep
<1>7. QED
  BY <1>5, <1>6

\* Whatever the service does short of a restart, the entry of a username changes
\* only when a request of its own passes check or settles (app.py:128-613).
LEMMA LimiterStep ==
    ASSUME TypeOK, [Next]_vars, ~Crash, NEW u \in Users
    PROVE  EntryStep(u)
<1>1. ASSUME UNCHANGED state
      PROVE  EntryStep(u)
  BY <1>1 DEF EntryStep
<1>2. CASE UNCHANGED vars
  BY <1>1, <1>2 DEF vars, limiterVars
<1>3. ASSUME NEW s \in Slots, Handle(s)
      PROVE  EntryStep(u)
  <2>1. CASE VerifyFails(s) \/ InvalidRequest(s) \/ RateLimited(s) \/ InvalidBlob(s)
    BY <1>1, <2>1 DEF VerifyFails, InvalidRequest, RateLimited, InvalidBlob, limiterVars
  <2>2. CASE MkdirFails(s) \/ StageFails(s)
    <3>1. pc[s] = "verifying" /\ Checked(s) /\ Answer(s, 500, <<>>)
      BY <2>2 DEF MkdirFails, StageFails
    <3>2. pc'[s] # "verifying"
      BY <3>1 DEF Answer, TypeOK
    <3>3. QED
      BY <3>1, <3>2, CheckedStep
  <2>3. CASE Submit(s)
    <3>1. pc[s] = "verifying" /\ Checked(s) /\ pc'[s] # "verifying"
      BY <2>3 DEF Submit, TypeOK
    <3>2. QED
      BY <3>1, CheckedStep
  <2>4. QED
    BY <1>3, <2>1, <2>2, <2>3 DEF Handle
<1>4. ASSUME NEW s \in Slots,
             Arrive(s) \/ RejectBody(s) \/ Start(s) \/ KdcAnswers(s) \/ SubprocessEnds(s)
      PROVE  EntryStep(u)
  BY <1>1, <1>4 DEF Arrive, RejectBody, Start, KdcAnswers, SubprocessEnds, limiterVars
<1>5. CASE TimePasses
  BY <1>1, <1>5 DEF TimePasses
<1>5a. ASSUME NEW v \in Users, StrayAnswers(v)
       PROVE  EntryStep(u)
  BY <1>1, <1>5a DEF StrayAnswers, limiterVars
<1>6. QED
  BY <1>2, <1>3, <1>4, <1>5, <1>5a, ResumeStep DEF Next

----------------------------------------------------------------------------

\* A keytab mint, a renewal and another user's request never touch the entry of a
\* username, in any interleaving (app.py:211-214 and 343).
THEOREM LimiterIsolated == Spec => LimiterIsolation
<1> DEFINE Isolated ==
        \A u \in Users :
          state'[u] # state[u] /\ crashes' = crashes =>
              \E s \in Slots : /\ user[s] = u
                               /\ mode[s] \in PasswordModes
                               /\ pc'[s] # pc[s]
<1>1. IInv /\ [Next]_vars => Isolated
  <2> SUFFICES ASSUME TypeOK, [Next]_vars, NEW u \in Users,
                      state'[u] # state[u], crashes' = crashes
               PROVE  \E s \in Slots : /\ user[s] = u
                                       /\ mode[s] \in PasswordModes
                                       /\ pc'[s] # pc[s]
    BY DEF IInv
  <2>1. EntryStep(u)
    <3>1. ~Crash
      BY DEF Crash, TypeOK
    <3>2. QED
      BY <3>1, LimiterStep
  <2>2. PICK s \in Slots : /\ user[s] = u
                           /\ mode[s] \in PasswordModes
                           /\ PassedCheck(s, u) \/ Settled(s, u)
    BY <2>1 DEF EntryStep
  <2>3. pc'[s] # pc[s]
    BY <2>2 DEF PassedCheck, Settled
  <2>4. QED
    BY <2>2, <2>3
<1>2. IInv /\ [Next]_vars => [Isolated]_vars
  BY <1>1
<1> HIDE DEF Isolated
<1>3. Spec => [][Isolated]_vars
  BY <1>2, Invariant, PTL DEF Spec
<1>4. QED
  BY <1>3 DEF LimiterIsolation, Isolated

\* A running lockout ends early only by a success for the same username that was
\* already in flight: concurrent failures extend it, and nothing else touches it
\* (ratelimit.py:71-94).
THEOREM LockoutsKept == Spec => LockoutKept
<1> DEFINE Kept ==
        \A u \in Users :
          Locked(u) /\ crashes' = crashes =>
              \/ /\ state'[u].locked_until # None
                 /\ state'[u].locked_until >= state[u].locked_until
              \/ \E s \in InFlight(u) : pc'[s] = "idle" /\ status'[s] = 200
<1>1. IInv /\ [Next]_vars => Kept
  <2> SUFFICES ASSUME IInv, [Next]_vars, NEW u \in Users, Locked(u), crashes' = crashes
               PROVE  \/ /\ state'[u].locked_until # None
                         /\ state'[u].locked_until >= state[u].locked_until
                      \/ \E s \in InFlight(u) : pc'[s] = "idle" /\ status'[s] = 200
    OBVIOUS
  <2>1. TypeOK /\ LimiterTypeOK /\ EntryBounded(u)
    BY DEF IInv, TypeOK, EntriesBounded
  <2>2. state[u].locked_until # None /\ state[u].locked_until \in Nat
    BY <2>1 DEF Locked, LimiterTypeOK, Entry
  <2>3. EntryStep(u)
    <3>1. ~Crash
      BY <2>1 DEF Crash, TypeOK
    <3>2. QED
      BY <2>1, <3>1, LimiterStep
  <2>4. CASE state'[u] = state[u]
    BY <2>2, <2>4
  <2>5. CASE state'[u] # state[u]
    <3>1. PICK s \in Slots : PassedCheck(s, u) \/ Settled(s, u)
      BY <2>3, <2>5 DEF EntryStep
    <3>2. Settled(s, u)
      BY <3>1 DEF PassedCheck, CheckPasses
    <3>3. CASE RecordFailure(u) /\ now' = now
      BY <2>1, <2>2, <3>3, RecordFailureProperties
    <3>4. CASE status'[s] = 200
      BY <3>2, <3>4 DEF Settled
    <3>5. QED
      BY <3>2, <3>3, <3>4 DEF Settled
  <2>6. QED
    BY <2>4, <2>5
<1>2. IInv /\ [Next]_vars => [Kept]_vars
  BY <1>1
<1> HIDE DEF Kept
<1>3. Spec => [][Kept]_vars
  BY <1>2, Invariant, PTL DEF Spec
<1>4. QED
  BY <1>3 DEF LockoutKept, Kept

----------------------------------------------------------------------------
(* What a lockout leaves behind. *)

\* What a step makes of the entry of u: nothing, a fresh one, or one failure more.
EntryChange(u) ==
    \/ state'[u] = state[u]
    \/ state'[u] = Fresh
    \/ RecordFailure(u) /\ now' = now

\* Whatever the service does, an entry is kept, forgotten, or gets the failure of
\* the moment (ratelimit.py:71-94).
LEMMA EntryChanges ==
    ASSUME TypeOK, [Next]_vars, NEW u \in Users
    PROVE  EntryChange(u)
<1>1. CASE Crash
  BY <1>1 DEF Crash, EntryChange
<1>2. CASE ~Crash
  <2>1. CASE state'[u] = state[u]
    BY <2>1 DEF EntryChange
  <2>2. CASE CheckPasses(u)
    BY <2>2 DEF CheckPasses, TypeOK, LimiterTypeOK, EntryChange
  <2>3. CASE RecordFailure(u) /\ now' = now
    BY <2>3 DEF EntryChange
  <2>4. CASE Reset(u)
    BY <2>4 DEF Reset, TypeOK, LimiterTypeOK, EntryChange
  <2>5. EntryStep(u)
    BY <1>2, LimiterStep
  <2>6. QED
    BY <2>5, <2>4, <2>3, <2>2, <2>1 DEF EntryStep, PassedCheck, Settled
<1>3. QED
  BY <1>1, <1>2

\* No step moves the clock back: it is time.monotonic (ratelimit.py:64).
LEMMA ClockStep ==
    ASSUME TypeOK, [Next]_vars
    PROVE  now' \in Nat /\ now' >= now
<1>1. now \in Nat
  BY DEF TypeOK, LimiterTypeOK
<1>2. CASE TimePasses
  BY <1>1, <1>2 DEF TimePasses, Tick
<1>3. CASE UNCHANGED vars
  BY <1>1, <1>3 DEF vars, limiterVars
<1>4. CASE Crash
  BY <1>1, <1>4 DEF Crash
<1>5. ASSUME NEW s \in Slots, Handle(s)
      PROVE  now' = now
  BY <1>5 DEF Handle, VerifyFails, InvalidRequest, RateLimited, InvalidBlob, MkdirFails,
              StageFails, Submit, limiterVars
<1>6. ASSUME NEW s \in Slots,
             \/ Arrive(s) \/ RejectBody(s) \/ Start(s) \/ KdcAnswers(s) \/ SubprocessEnds(s)
             \/ Resume(s)
      PROVE  now' = now
  BY <1>6 DEF Arrive, RejectBody, Start, KdcAnswers, SubprocessEnds, Resume, limiterVars
<1>6a. ASSUME NEW u \in Users, StrayAnswers(u)
       PROVE  now' = now
  BY <1>6a DEF StrayAnswers, limiterVars
<1>7. QED
  BY <1>1, <1>2, <1>3, <1>4, <1>5, <1>6, <1>6a DEF Next

\* Every username's timestamps are in order.
AllOrdered == \A u \in Users : Ordered(state[u].failure_times)

\* Timestamps are appended from a monotonic clock, so the pruning may drop a prefix
\* (ratelimit.py:84-89).
LEMMA TimesInOrder == Spec => []AllOrdered
<1>1. Init => AllOrdered
  BY DEF Init, LimiterInit, Fresh, AllOrdered, Ordered
<1>2. IInv /\ AllOrdered /\ [Next]_vars => AllOrdered'
  <2> SUFFICES ASSUME IInv, AllOrdered, [Next]_vars, NEW u \in Users
               PROVE  Ordered(state[u].failure_times)'
    BY DEF AllOrdered
  <2>1. TypeOK /\ LimiterTypeOK /\ EntryChange(u) /\ now' \in Nat /\ now' >= now
    BY EntryChanges, ClockStep DEF IInv, TypeOK
  <2>2. /\ state[u].failure_times \in Seq(Nat) /\ now \in Nat
        /\ Ordered(state[u].failure_times)
    BY <2>1 DEF LimiterTypeOK, Entry, AllOrdered
  <2>3. CASE state'[u] = state[u]
    <3>1. \A i \in DOMAIN state[u].failure_times : state[u].failure_times[i] \in Nat
      BY <2>2
    <3>2. QED
      BY <2>1, <2>2, <2>3, <3>1 DEF Ordered
  <2>4. CASE state'[u] = Fresh
    BY <2>4 DEF Fresh, Ordered
  <2>5. CASE RecordFailure(u) /\ now' = now
    <3>1. state'[u].failure_times = Append(Recent(state[u].failure_times), now)
      BY <2>1, <2>5, RecordFailureEntry
    <3>2. Ordered(Append(Recent(state[u].failure_times), now))
      BY <2>2, RecordedTimes
    <3>3. QED
      BY <2>5, <3>1, <3>2 DEF Ordered
  <2>6. QED
    BY <2>1, <2>3, <2>4, <2>5 DEF EntryChange
<1>3. QED
  BY <1>1, <1>2, Invariant, PTL DEF Spec

\* A failure that lands after a lockout has run out does not bring the failures from
\* before the lockout back, with a lockout no shorter than the window
\* (ratelimit.py:78-79).
THEOREM LockoutsEndClean ==
    ASSUME Lockout >= Window
    PROVE  Spec => NoResurrection
<1> DEFINE Clean ==
        \A u \in Users :
          /\ state[u].locked_until # None
          /\ ~Locked(u)
          /\ state'[u].locked_until # state[u].locked_until
          => state'[u].locked_until = None
             \/ \A i \in DOMAIN state'[u].failure_times :
                   state'[u].failure_times[i] > state[u].locked_until - Lockout
<1>1. IInv /\ AllOrdered /\ [Next]_vars => Clean
  <2> SUFFICES ASSUME IInv, AllOrdered, [Next]_vars, NEW u \in Users,
                      state[u].locked_until # None, ~Locked(u),
                      state'[u].locked_until # state[u].locked_until,
                      state'[u].locked_until # None,
                      NEW i \in DOMAIN state'[u].failure_times
               PROVE  state'[u].failure_times[i] > state[u].locked_until - Lockout
    OBVIOUS
  <2>1. TypeOK /\ LimiterTypeOK /\ EntryChange(u)
    BY EntryChanges DEF IInv, TypeOK
  <2>2. RecordFailure(u)
    BY <2>1 DEF EntryChange, Fresh
  <2>3. /\ state[u].failure_times \in Seq(Nat) /\ now \in Nat
        /\ state[u].locked_until \in Nat
        /\ Ordered(state[u].failure_times)
    BY <2>1 DEF LimiterTypeOK, Entry, AllOrdered
  <2> DEFINE longer == Append(Recent(state[u].failure_times), now)
  <2>4. /\ longer \in Seq(Nat)
        /\ \A j \in DOMAIN longer : now - longer[j] < Window
    BY <2>3, RecordedTimes
  <2>5. state'[u].failure_times = longer
    BY <2>1, <2>2, RecordFailureEntry
  <2> HIDE DEF longer
  <2>6. longer[i] \in Nat /\ now - longer[i] < Window
    BY <2>4, <2>5
  <2>7. now >= state[u].locked_until
    BY <2>3 DEF Locked
  <2>8. Window \in Nat /\ Lockout \in Nat
    BY LimiterAssumption
  <2>9. longer[i] > state[u].locked_until - Lockout
    BY <2>3, <2>6, <2>7, <2>8
  <2>10. QED
    BY <2>5, <2>9
<1>2. IInv /\ AllOrdered /\ [Next]_vars => [Clean]_vars
  BY <1>1
<1> HIDE DEF Clean
<1>3. Spec => [][Clean]_vars
  BY <1>2, Invariant, TimesInOrder, PTL DEF Spec
<1>4. QED
  BY <1>3 DEF NoResurrection, Clean

----------------------------------------------------------------------------
(* What the limiter hears of. *)

\* A child that reports a password the KDC rejected is taken for a bad password
\* (_classify_password_stderr and _classify_cern_get_keytab_stderr,
\* minting.py:217-274).
LEMMA RefusalIsBadPassword ==
    ASSUME NEW m \in PasswordModes, NEW r \in Results(m, "bad_secret", Faults),
           r.how = "nonzero"
    PROVE  Outcome(m, r) = "BadPasswordError"
<1>1. r \in FailedWith(Stderr(m, "bad_secret"))
  BY DEF Results, RaisedBy
<1>2. r.stderr \in Stderr(m, "bad_secret") /\ r.output = "none"
  BY <1>1 DEF FailedWith
<1>3. CASE m = "password"
  <2>1. Stderr("password", "bad_secret") = {{"BAD_PASSWORD"}}
    BY DEF Stderr
  <2>2. "BAD_PASSWORD" \in r.stderr
    BY <1>2, <1>3, <2>1
  <2>3. ExitError("password", r.stderr) = "BadPasswordError"
    BY <2>2 DEF ExitError, Classify, ClassifyPassword
  <2>4. MintTicket("password", r) = "BadPasswordError"
    BY <1>2, <2>3 DEF MintTicket
  <2>5. Outcome("password", r) = MintTicket("password", r)
    BY DEF Outcome
  <2>6. QED
    BY <1>3, <2>4, <2>5
<1>4. CASE m = "bootstrap"
  <2>1. Stderr("bootstrap", "bad_secret") = {{"NO_CREDENTIALS"}, {"BAD_KEY", "NO_CREDENTIALS"}}
    BY DEF Stderr
  <2>2. "NO_CREDENTIALS" \in r.stderr
    BY <1>2, <1>4, <2>1
  <2>3. ExitError("bootstrap", r.stderr) = "BadPasswordError"
    BY <2>2 DEF ExitError, Classify, ClassifyCernGetKeytab
  <2>4. MintKeytab(r) = "BadPasswordError"
    BY <1>2, <2>3 DEF MintKeytab
  <2>5. Outcome("bootstrap", r) = MintKeytab(r)
    BY DEF Outcome
  <2>6. QED
    BY <1>4, <2>4, <2>5
<1>5. QED
  BY <1>3, <1>4 DEF PasswordModes

\* A child whose password the KDC rejected reports it, unless its timeout kills it first
\* (_run_subprocess, minting.py:291-314).
LEMMA RefusalIsReported ==
    ASSUME NEW m, NEW r \in Results(m, "bad_secret", Faults)
    PROVE  r.how \in {"nonzero", "timeout"}
<1>1. r \in FailedWith(Stderr(m, "bad_secret")) \/ r \in RaisedBy("timeout")
  BY DEF Results
<1>2. QED
  BY <1>1 DEF FailedWith, RaisedBy

\* kinit's other failures are never taken for a wrong password
\* (_classify_password_stderr, minting.py:217-227).
LEMMA BadPasswordIsRefusal ==
    ASSUME NEW v, NEW r \in Results("password", v, Faults),
           Outcome("password", r) = "BadPasswordError"
    PROVE  v = "bad_secret" /\ r.how = "nonzero"
<1>1. MintTicket("password", r) = "BadPasswordError"
  BY DEF Outcome
<1>2. r.how = "nonzero" /\ ExitError("password", r.stderr) = "BadPasswordError"
  BY <1>1 DEF MintTicket, RunError
<1>3. "BAD_PASSWORD" \in r.stderr
  BY <1>2 DEF ExitError, Classify, ClassifyPassword
<1>4. r \in FailedWith({{"other"}}) \/ r \in FailedWith(Stderr("password", v))
  BY <1>2 DEF Results, RaisedBy, ExitedZero
<1>5. r.stderr \in Stderr("password", v)
  BY <1>3, <1>4 DEF FailedWith
<1>6. v = "bad_secret"
  BY <1>3, <1>5 DEF Stderr
<1>7. QED
  BY <1>2, <1>6

\* A handler that resumes finds a result its subprocess can have left.
ResultsReal ==
    \A s \in Slots : pc[s] = "exited" => result[s] \in Results(mode[s], verdict[s], Faults)

\* Nothing touches the request of a subprocess between its end and the handler's
\* return (app.py:233-269 and 555-568).
LEMMA ResultsAreReal == Spec => []ResultsReal
<1>1. Init => ResultsReal
  BY DEF Init, ResultsReal
<1>2. TypeOK /\ ResultsReal /\ [Next]_vars => ResultsReal'
  <2> SUFFICES ASSUME TypeOK, ResultsReal, [Next]_vars
               PROVE  ResultsReal'
    OBVIOUS
  <2>1. ASSUME NEW s \in Slots, NEW code, NEW lines, Answer(s, code, lines)
        PROVE  ResultsReal'
    BY <2>1 DEF Answer, TypeOK, ResultsReal
  <2>2. ASSUME NEW s \in Slots, Handle(s)
        PROVE  ResultsReal'
    <3>1. CASE Submit(s)
      BY <3>1 DEF Submit, TypeOK, ResultsReal
    <3>2. CASE ~Submit(s)
      BY <2>1, <2>2, <3>2 DEF Handle, VerifyFails, InvalidRequest, RateLimited, InvalidBlob,
                              MkdirFails, StageFails
    <3>3. QED
      BY <3>1, <3>2
  <2>3. ASSUME NEW s \in Slots, Arrive(s)
        PROVE  ResultsReal'
    BY <2>3 DEF Arrive, TypeOK, ResultsReal
  <2>4. ASSUME NEW s \in Slots, RejectBody(s)
        PROVE  ResultsReal'
    BY <2>4 DEF RejectBody, ResultsReal
  <2>5. ASSUME NEW s \in Slots, Start(s)
        PROVE  ResultsReal'
    BY <2>5 DEF Start, TypeOK, ResultsReal
  <2>6. ASSUME NEW s \in Slots, KdcAnswers(s)
        PROVE  ResultsReal'
    BY <2>6 DEF KdcAnswers, TypeOK, ResultsReal
  <2>7. ASSUME NEW s \in Slots, SubprocessEnds(s)
        PROVE  ResultsReal'
    BY <2>7 DEF SubprocessEnds, TypeOK, ResultsReal
  <2>8. ASSUME NEW s \in Slots, Resume(s)
        PROVE  ResultsReal'
    BY <2>1, <2>8 DEF Resume
  <2>9. CASE TimePasses \/ UNCHANGED vars
    BY <2>9 DEF TimePasses, reqVars, vars, ResultsReal
  <2>9a. ASSUME NEW u \in Users, StrayAnswers(u)
         PROVE  ResultsReal'
    BY <2>9a DEF StrayAnswers, reqVars, ResultsReal
  <2>10. CASE Crash
    BY <2>10 DEF Crash, ResultsReal
  <2>11. QED
    BY <2>2, <2>3, <2>4, <2>5, <2>6, <2>7, <2>8, <2>9, <2>9a, <2>10 DEF Next
<1>3. QED
  BY <1>1, <1>2, TypeCorrect, PTL DEF Spec

\* Only its own handler answers a request whose subprocess has ended.
LEMMA EndedByResume ==
    ASSUME TypeOK, [Next]_vars, ~Crash, NEW s \in Slots, pc[s] = "exited", pc'[s] = "idle"
    PROVE  Resume(s)
<1>1. ASSUME NEW t \in Slots, Handle(t)
      PROVE  FALSE
  <2>1. pc[t] = "verifying"
    BY <1>1 DEF Handle, VerifyFails, InvalidRequest, RateLimited, InvalidBlob, MkdirFails,
                StageFails, Submit
  <2>2. \/ pc' = [pc EXCEPT ![t] = "idle"]
        \/ pc' = [pc EXCEPT ![t] = "queued"]
    BY <1>1 DEF Handle, VerifyFails, InvalidRequest, RateLimited, InvalidBlob, MkdirFails,
                StageFails, Submit, Answer
  <2>3. QED
    BY <2>1, <2>2 DEF TypeOK
<1>2. ASSUME NEW t \in Slots,
             Arrive(t) \/ RejectBody(t) \/ Start(t) \/ KdcAnswers(t) \/ SubprocessEnds(t)
      PROVE  FALSE
  BY <1>2 DEF Arrive, RejectBody, Start, KdcAnswers, SubprocessEnds, TypeOK
<1>3. ASSUME NEW t \in Slots, Resume(t), t # s
      PROVE  FALSE
  BY <1>3 DEF Resume, Answer, TypeOK
<1>4. CASE TimePasses \/ UNCHANGED vars
  BY <1>4 DEF TimePasses, reqVars, vars
<1>4a. ASSUME NEW u \in Users, StrayAnswers(u)
       PROVE  FALSE
  BY <1>4a DEF StrayAnswers, reqVars
<1>5. QED
  BY <1>1, <1>2, <1>3, <1>4, <1>4a DEF Next

\* A recorded failure shows: the list ends with the moment, and is not the one that
\* was there before (ratelimit.py:86-89).
LEMMA FailureShows ==
    ASSUME LimiterTypeOK, NEW u \in Users, Ordered(state[u].failure_times), RecordFailure(u)
    PROVE  LET times == state'[u].failure_times
           IN  state'[u] # state[u] /\ Len(times) > 0 /\ times[Len(times)] = now
<1> DEFINE old == state[u].failure_times
           times == Append(Recent(old), now)
<1>1. old \in Seq(Nat) /\ now \in Nat /\ state'[u].failure_times = times
  BY RecordFailureEntry DEF LimiterTypeOK, Entry
<1>2. /\ Len(times) \in Nat \ {0} /\ times[Len(times)] = now
      /\ \A i \in DOMAIN times : now - times[i] < Window
  BY <1>1, RecordedTimes
<1>3. times # old
  <2> SUFFICES ASSUME times = old PROVE FALSE
    OBVIOUS
  <2>1. PICK k \in 0..Len(old) :
               /\ Recent(old) \in Seq(Nat)
               /\ Len(Recent(old)) = Len(old) - k
               /\ \A i \in 1..Len(old) : i > k <=> now - old[i] < Window
    BY <1>1, RecentIsFilter
  <2>2. Len(times) = Len(old) - k + 1
    BY <1>1, <2>1, AppendProperties
  <2> HIDE DEF times
  <2>3. Len(old) \in Nat /\ k = 1 /\ 1 \in 1..Len(old) /\ DOMAIN old = 1..Len(old)
    BY <1>1, <1>2, <2>2
  <2>4. now - old[1] < Window
    BY <1>2, <2>3
  <2>5. QED
    BY <2>1, <2>3, <2>4
<1> HIDE DEF times
<1>4. QED
  BY <1>1, <1>2, <1>3

\* The limiter hears of every password the KDC rejected, unless the child was killed
\* first, and of none that kinit did not report as rejected (minting.py:76-86).
THEOREM FailuresAreCounted == Spec => FailureCounted
<1> DEFINE Told ==
        \A s \in Slots :
          pc[s] = "exited" /\ pc'[s] = "idle" /\ crashes' = crashes =>
              LET u == user[s]
                  times == state'[u].failure_times
                  counted == state'[u] # state[u] /\ Len(times) > 0 /\ times[Len(times)] = now
                  refused == /\ mode[s] \in PasswordModes
                             /\ verdict[s] = "bad_secret"
                             /\ result[s].how = "nonzero"
              IN  /\ refused => counted
                  /\ counted /\ mode[s] # "bootstrap" => refused
<1>1. IInv /\ AllOrdered /\ ResultsReal /\ [Next]_vars => Told
  <2> SUFFICES ASSUME IInv, AllOrdered, ResultsReal, [Next]_vars, NEW s \in Slots,
                      pc[s] = "exited", pc'[s] = "idle", crashes' = crashes
               PROVE  LET u == user[s]
                          times == state'[u].failure_times
                          counted == /\ state'[u] # state[u]
                                     /\ Len(times) > 0 /\ times[Len(times)] = now
                          refused == /\ mode[s] \in PasswordModes
                                     /\ verdict[s] = "bad_secret"
                                     /\ result[s].how = "nonzero"
                      IN  /\ refused => counted
                          /\ counted /\ mode[s] # "bootstrap" => refused
    OBVIOUS
  <2> DEFINE outcome == Outcome(mode[s], result[s])
  <2>1. TypeOK /\ LimiterTypeOK /\ mode[s] \in Modes /\ user[s] \in Users
    BY DEF IInv, TypeOK
  <2>2. ~Crash
    BY <2>1 DEF Crash, TypeOK
  <2>3. Resume(s)
    BY <2>1, <2>2, EndedByResume
  <2>4. Settle(s, outcome) /\ result[s] \in Results(mode[s], verdict[s], Faults)
    BY <2>3 DEF Resume, ResultsReal
  <2> HIDE DEF outcome
  <2>5. PICK u \in Users : u = user[s]
    BY <2>1
  <2> DEFINE times == state'[u].failure_times
             counted == state'[u] # state[u] /\ Len(times) > 0 /\ times[Len(times)] = now
  <2>6. CASE outcome = "BadPasswordError"
    <3>1. RecordFailure(u)
      BY <2>4, <2>5, <2>6 DEF Settle
    <3>2. counted
      BY <2>1, <3>1, FailureShows DEF AllOrdered
    <3>3. mode[s] # "bootstrap" => mode[s] = "password"
      BY <2>1, <2>6, BadPasswordNeedsPassword DEF outcome, PasswordModes
    <3>4. mode[s] = "password" => verdict[s] = "bad_secret" /\ result[s].how = "nonzero"
      BY <2>4, <2>6, BadPasswordIsRefusal DEF outcome
    <3>5. QED
      BY <2>5, <3>2, <3>3, <3>4 DEF PasswordModes
  <2>7. CASE outcome # "BadPasswordError"
    <3>1. ~(/\ mode[s] \in PasswordModes
            /\ verdict[s] = "bad_secret"
            /\ result[s].how = "nonzero")
      BY <2>4, <2>7, RefusalIsBadPassword DEF outcome
    <3>2. ~counted
      <4>1. CASE outcome = "ok" /\ mode[s] \in PasswordModes
        <5>1. Reset(u)
          BY <2>4, <2>5, <4>1 DEF Settle
        <5>2. Len(state'[u].failure_times) = 0
          BY <2>1, <5>1, ResetProperties, FreshProperties
        <5>3. QED
          BY <5>2
      <4>2. CASE ~(outcome = "ok" /\ mode[s] \in PasswordModes)
        BY <2>4, <2>7, <4>2 DEF Settle
      <4>3. QED
        BY <4>1, <4>2
    <3>3. QED
      BY <2>5, <3>1, <3>2
  <2>8. QED
    BY <2>6, <2>7
<1>2. IInv /\ AllOrdered /\ ResultsReal /\ [Next]_vars => [Told]_vars
  BY <1>1
<1> HIDE DEF Told
<1>3. Spec => [][Told]_vars
  BY <1>2, Invariant, TimesInOrder, ResultsAreReal, PTL DEF Spec
<1>4. QED
  BY <1>3 DEF FailureCounted, Told

----------------------------------------------------------------------------
(* How many passwords of a username the KDC rejects within one Span. *)

\* The attempts in flight whose password the KDC has rejected, and the others.
Denied(u) == {s \in InFlight(u) : verdict[s] = "bad_secret"}
Open(u) == InFlight(u) \ Denied(u)

\* The rejections the limiter has not heard of are those of attempts in flight, those
\* that are lost to it, and those a lockout's expiry forgot: fewer than the slots,
\* because the failure that began the lockout had left its slot.
RejectionsBounded(u) ==
    /\ \A T \in Int : T >= now - Span =>
          Cardinality(Later(rejected[u], T))
              <= Cardinality(Slots) - 1 + Cardinality(Denied(u))
                   + Cardinality(Later(state[u].failure_times, T))
                   + Cardinality(Later(hidden[u], T))
    /\ state[u].locked_until # None =>
          \A T \in Int : T >= state[u].locked_until - Lockout =>
             Cardinality(Later(rejected[u], T)) + Cardinality(Open(u))
                 <= Cardinality(Slots) - 1 + Cardinality(Later(hidden[u], T))

\* The counts the bound is made of are numbers.
LEMMA RejectionCounts ==
    ASSUME TypeOK, NEW u \in Users
    PROVE  /\ rejected[u] \in Seq(Nat) /\ hidden[u] \in Seq(Nat)
           /\ state[u].failure_times \in Seq(Nat) /\ now \in Nat
           /\ state[u].locked_until \in Nat \cup {None}
           /\ \A T \in Int : /\ Cardinality(Later(rejected[u], T)) \in Nat
                             /\ Cardinality(Later(hidden[u], T)) \in Nat
                             /\ Cardinality(Later(state[u].failure_times, T)) \in Nat
           /\ Denied(u) \in SUBSET Slots /\ Open(u) \in SUBSET Slots
           /\ Cardinality(Denied(u)) \in Nat /\ Cardinality(Open(u)) \in Nat
           /\ Cardinality(Slots) \in Nat \ {0}
           /\ Span \in Nat \ {0} /\ Lockout \in Nat \ {0}
<1>1. /\ rejected[u] \in Seq(Nat) /\ hidden[u] \in Seq(Nat)
      /\ state[u].failure_times \in Seq(Nat) /\ now \in Nat
      /\ state[u].locked_until \in Nat \cup {None}
  BY DEF TypeOK, LimiterTypeOK, Entry
<1>2. Denied(u) \in SUBSET Slots /\ Open(u) \in SUBSET Slots
  BY DEF Denied, Open, InFlight
<1>3. Cardinality(Slots) \in Nat \ {0}
  BY ServiceAssumption, FS_CardinalityType, FS_EmptySet
<1>4. QED
  BY <1>1, <1>2, <1>3, LaterCount, SlotSets, SpanBounds, LimiterAssumption

\* The Span only moves on.
LEMMA SpanMovesOn ==
    ASSUME NEW t \in Nat, NEW later \in Nat, later >= t, NEW T \in Int, T >= later - Span
    PROVE  T >= t - Span
BY SpanBounds

\* A step that brings no rejection, failure or attempt of u keeps the bound.
LEMMA QuietRejections ==
    ASSUME TypeOK, TypeOK', NEW u \in Users, RejectionsBounded(u),
           rejected'[u] = rejected[u], hidden'[u] = hidden[u], state'[u] = state[u], now' >= now,
           Denied(u) \subseteq Denied(u)', Open(u)' \subseteq Open(u)
    PROVE  RejectionsBounded(u)'
<1> DEFINE N == Cardinality(Slots)
           D == Cardinality(Denied(u))
           D2 == Cardinality(Denied(u)')
           O == Cardinality(Open(u))
           O2 == Cardinality(Open(u)')
           R(T) == Cardinality(Later(rejected[u], T))
           H(T) == Cardinality(Later(hidden[u], T))
           F(T) == Cardinality(Later(state[u].failure_times, T))
           lock == state[u].locked_until
<1>1. /\ now \in Nat /\ now' \in Nat /\ Lockout \in Nat \ {0}
      /\ Denied(u)' \in SUBSET Slots /\ Open(u) \in SUBSET Slots
      /\ N \in Nat /\ D \in Nat /\ lock \in Nat \cup {None}
      /\ \A T \in Int : R(T) \in Nat /\ H(T) \in Nat /\ F(T) \in Nat
  BY RejectionCounts DEF Denied, InFlight, TypeOK, LimiterTypeOK
<1>2. D2 \in Nat /\ D <= D2 /\ O \in Nat /\ O2 \in Nat /\ O2 <= O
  BY <1>1, SlotSets
<1>3. /\ \A T \in Int : T >= now - Span => R(T) <= N - 1 + D + F(T) + H(T)
      /\ lock # None =>
            \A T \in Int : T >= lock - Lockout => R(T) + O <= N - 1 + H(T)
  BY DEF RejectionsBounded
<1> HIDE DEF N, D, D2, O, O2, R, H, F, lock
<1>4. ASSUME NEW T \in Int, T >= now' - Span
      PROVE  R(T) <= N - 1 + D2 + F(T) + H(T)
  <2>1. T >= now - Span
    BY <1>1, <1>4, SpanMovesOn
  <2>2. R(T) <= N - 1 + D + F(T) + H(T)
    BY <1>3, <2>1
  <2>3. N \in Nat /\ D \in Nat /\ R(T) \in Nat /\ F(T) \in Nat /\ H(T) \in Nat
    BY <1>1
  <2>4. QED
    BY <1>2, <2>2, <2>3
<1>5. ASSUME lock # None, NEW T \in Int, T >= lock - Lockout
      PROVE  R(T) + O2 <= N - 1 + H(T)
  <2>1. R(T) + O <= N - 1 + H(T)
    BY <1>3, <1>5
  <2>2. N \in Nat /\ R(T) \in Nat /\ H(T) \in Nat
    BY <1>1
  <2>3. QED
    BY <1>2, <2>1, <2>2
<1>6. QED
  BY <1>4, <1>5 DEF RejectionsBounded, N, D2, O2, R, H, F, lock

\* The first attempt after a lockout starts the username clean, and forgets fewer
\* rejections than there are slots (ratelimit.py:78-79).
LEMMA PassedRejections ==
    ASSUME TypeOK, TypeOK', NEW u \in Users, RejectionsBounded(u),
           CheckPasses(u), now' = now, rejected'[u] = rejected[u],
           hidden'[u] = hidden[u],
           Denied(u) \subseteq Denied(u)'
    PROVE  RejectionsBounded(u)'
<1> DEFINE N == Cardinality(Slots)
           D == Cardinality(Denied(u))
           D2 == Cardinality(Denied(u)')
           O == Cardinality(Open(u))
           R(T) == Cardinality(Later(rejected[u], T))
           H(T) == Cardinality(Later(hidden[u], T))
           F(T) == Cardinality(Later(state[u].failure_times, T))
           F2(T) == Cardinality(Later(state'[u].failure_times, T))
           lock == state[u].locked_until
<1>1. /\ rejected[u] \in Seq(Nat) /\ now \in Nat
      /\ Denied(u)' \in SUBSET Slots /\ lock \in Nat \cup {None}
      /\ Span \in Nat \ {0} /\ Lockout \in Nat \ {0}
      /\ N \in Nat /\ D \in Nat /\ O \in Nat
      /\ \A T \in Int : R(T) \in Nat /\ F(T) \in Nat /\ H(T) \in Nat
  BY RejectionCounts DEF Denied, InFlight
<1>2. D2 \in Nat /\ D <= D2
  BY <1>1, SlotSets
<1>3. \A T \in Int : F2(T) \in Nat
  BY LaterCount DEF TypeOK, LimiterTypeOK, Entry
<1>4. state'[u].locked_until = None
  BY DEF CheckPasses, Fresh, TypeOK, LimiterTypeOK
<1>5. /\ \A T \in Int : T >= now - Span => R(T) <= N - 1 + D + F(T) + H(T)
      /\ lock # None =>
            \A T \in Int : T >= lock - Lockout => R(T) + O <= N - 1 + H(T)
  BY DEF RejectionsBounded
<1>6. lock = None => \A T \in Int : F2(T) = F(T)
  BY DEF CheckPasses
<1>7. lock # None => now >= lock
  <2>1. ~Locked(u)
    BY DEF CheckPasses
  <2>2. lock # None => ~(now < lock)
    BY <2>1 DEF Locked
  <2> HIDE DEF N, D, D2, O, R, H, F, F2, lock
  <2>3. QED
    BY <1>1, <2>2
<1>8. ASSUME NEW T \in Int, T >= now - Span
      PROVE  R(T) <= N - 1 + D2 + F2(T) + H(T)
  <2>1. CASE lock = None
    <3> HIDE DEF N, D, D2, O, R, H, F, F2, lock
    <3>1. R(T) <= N - 1 + D + F(T) + H(T) /\ F2(T) = F(T)
      BY <1>5, <1>6, <1>8, <2>1
    <3>2. R(T) \in Nat /\ F(T) \in Nat /\ H(T) \in Nat /\ N \in Nat /\ D \in Nat
      BY <1>1
    <3>3. QED
      BY <1>2, <3>1, <3>2
  <2>2. CASE lock # None
    <3>1. lock - Lockout \in Int /\ lock - Lockout <= T
      <4> HIDE DEF N, D, D2, O, R, H, F, F2, lock
      <4>1. lock \in Nat /\ now >= lock
        BY <1>1, <1>7, <2>2
      <4>2. now \in Nat /\ Span \in Nat /\ Lockout \in Nat /\ Span <= Lockout
        BY <1>1, SpanBounds
      <4>3. QED
        BY <1>8, <4>1, <4>2
    <3> HIDE DEF N, D, D2, O, R, H, F, F2, lock
    <3>2. T >= lock - Lockout
      BY <3>1
    <3>3. R(T) + O <= N - 1 + H(T)
      BY <1>5, <2>2, <3>2
    <3>4. R(T) \in Nat /\ F2(T) \in Nat /\ H(T) \in Nat /\ N \in Nat /\ O \in Nat
      BY <1>1, <1>3
    <3>5. QED
      BY <1>2, <3>3, <3>4
  <2>3. QED
    BY <2>1, <2>2
<1>9. QED
  BY <1>4, <1>8 DEF RejectionsBounded

\* The oldest times are forgotten, and only when there are more than are remembered.
LEMMA LatestIsSuffix ==
    ASSUME NEW list \in Seq(Nat)
    PROVE  \E k \in 0..Len(list) :
              /\ Latest(list) \in Seq(Nat)
              /\ Len(Latest(list)) = Len(list) - k
              /\ \A i \in 1..(Len(list) - k) : Latest(list)[i] = list[i + k]
              /\ Len(list) - k <= MaxRejected
              /\ k > 0 => Len(list) - k = MaxRejected
<1> DEFINE n == Len(list)
           k == n - MaxRejected
<1>1. n \in Nat /\ MaxRejected \in Nat /\ DOMAIN list = 1..n /\ \A i \in 1..n : list[i] \in Nat
  BY ServiceAssumption
<1>2. CASE n > MaxRejected
  <2>1. k \in 1..n /\ k + 1 \in Int /\ k + 1 <= n + 1 /\ n - k = MaxRejected
    BY <1>1, <1>2
  <2>2. Latest(list) = SubSeq(list, k + 1, n)
    BY <1>2 DEF Latest
  <2>3. \A i \in (k + 1)..n : list[i] \in Nat
    BY <1>1, <2>1
  <2> DEFINE first == k + 1
  <2>4. /\ first \in Int /\ n \in Int /\ \A i \in first..n : list[i] \in Nat
        /\ first <= n + 1 /\ first = k + 1 /\ Latest(list) = SubSeq(list, first, n)
    BY <1>1, <2>1, <2>2, <2>3
  <2> HIDE DEF n, k, first
  <2>5. /\ SubSeq(list, first, n) \in Seq(Nat)
        /\ Len(SubSeq(list, first, n)) = IF first <= n THEN n - first + 1 ELSE 0
        /\ \A i \in 1..n - first + 1 : SubSeq(list, first, n)[i] = list[first + i - 1]
    BY <2>4, SubSeqProperties
  <2>6. /\ n - first + 1 = n - k /\ \A i \in 1..(n - k) : first + i - 1 = i + k
        /\ (IF first <= n THEN n - first + 1 ELSE 0) = n - k
    BY <1>1, <2>1, <2>4
  <2>7. /\ Latest(list) \in Seq(Nat) /\ Len(Latest(list)) = n - k
        /\ \A i \in 1..(n - k) : Latest(list)[i] = list[i + k]
    BY <2>4, <2>5, <2>6
  <2>8. k \in 0..n /\ n - k <= MaxRejected
    BY <1>1, <2>1
  <2>9. /\ k \in 0..Len(list)
        /\ Latest(list) \in Seq(Nat)
        /\ Len(Latest(list)) = Len(list) - k
        /\ \A i \in 1..(Len(list) - k) : Latest(list)[i] = list[i + k]
        /\ Len(list) - k <= MaxRejected
        /\ k > 0 => Len(list) - k = MaxRejected
    BY <2>1, <2>7, <2>8 DEF n
  <2>10. QED
    BY <2>9
<1>3. CASE ~(n > MaxRejected)
  <2>1. Latest(list) = list
    BY <1>3 DEF Latest
  <2>2. PICK z \in 0..n : z = 0
    BY <1>1
  <2>3. n - z = n /\ n <= MaxRejected /\ ~(z > 0) /\ \A i \in 1..n : i + z = i
    BY <1>1, <1>3, <2>2
  <2>4. /\ Latest(list) \in Seq(Nat)
        /\ Len(Latest(list)) = n - z
        /\ \A i \in 1..(n - z) : Latest(list)[i] = list[i + z]
        /\ n - z <= MaxRejected
        /\ z > 0 => n - z = MaxRejected
    BY <2>1, <2>3
  <2>5. QED
    BY <2>4
<1>4. QED
  BY <1>2, <1>3

\* What is remembered of a list counts no more than the list, and of a list in order
\* all that is after a moment, or as much as can be remembered.
LEMMA LatestLater ==
    ASSUME NEW list \in Seq(Nat), NEW T \in Int
    PROVE  /\ Cardinality(Later(Latest(list), T)) <= Cardinality(Later(list, T))
           /\ (\A i, j \in DOMAIN list : i <= j => list[i] <= list[j]) =>
                 \/ Cardinality(Later(Latest(list), T)) = Cardinality(Later(list, T))
                 \/ Cardinality(Later(Latest(list), T)) = MaxRejected
<1>1. PICK k \in 0..Len(list) :
         /\ Latest(list) \in Seq(Nat)
         /\ Len(Latest(list)) = Len(list) - k
         /\ \A i \in 1..(Len(list) - k) : Latest(list)[i] = list[i + k]
         /\ k > 0 => Len(list) - k = MaxRejected
  BY LatestIsSuffix
<1>2. /\ Cardinality(Later(Latest(list), T)) <= Cardinality(Later(list, T))
      /\ (\A i \in 1..k : list[i] <= T) =>
            Cardinality(Later(Latest(list), T)) = Cardinality(Later(list, T))
  BY <1>1, LaterSuffix
<1>3. ASSUME \A i, j \in DOMAIN list : i <= j => list[i] <= list[j],
             NEW c \in 1..k, ~(list[c] <= T)
      PROVE  Cardinality(Later(Latest(list), T)) = MaxRejected
  <2> DEFINE m == Len(list) - k
  <2>1. /\ Len(list) \in Nat /\ k \in Nat /\ k <= Len(list) /\ DOMAIN list = 1..Len(list)
        /\ \A i \in 1..Len(list) : list[i] \in Nat
    OBVIOUS
  <2>2. m \in Nat /\ m = MaxRejected /\ c \in DOMAIN list /\ list[c] \in Nat
    BY <1>1, <2>1
  <2>3. DOMAIN Latest(list) = 1..m
    BY <1>1
  <2>4. ASSUME NEW i \in 1..m
        PROVE  Latest(list)[i] > T
    <3>1. i + k \in 1..Len(list) /\ c <= i + k
      BY <2>1
    <3>2. list[c] <= list[i + k] /\ list[i + k] \in Nat
      BY <1>3, <2>1, <2>2, <3>1
    <3>3. Latest(list)[i] = list[i + k]
      BY <1>1
    <3>4. QED
      BY <1>3, <2>2, <3>2, <3>3
  <2>5. Later(Latest(list), T) = 1..m
    BY <2>3, <2>4 DEF Later
  <2> HIDE DEF m
  <2>6. QED
    BY <2>2, <2>5, FirstNaturals
<1>4. QED
  BY <1>2, <1>3

\* Times that are remembered: in order, not in the future, and not too many.
Remembered(times) == Ordered(times) /\ Len(times) <= MaxRejected

\* A list of past times with the present one added is remembered as one.
LEMMA RememberedNow ==
    ASSUME NEW times \in Seq(Nat), now \in Nat, Ordered(times)
    PROVE  /\ Append(times, now) \in Seq(Nat)
           /\ Ordered(Append(times, now))
           /\ Remembered(Latest(Append(times, now)))
<1> DEFINE n == Len(times)
           longer == Append(times, now)
<1>1. /\ n \in Nat /\ longer \in Seq(Nat) /\ Len(longer) = n + 1
      /\ \A j \in 1..n : longer[j] = times[j]
      /\ longer[n + 1] = now
  BY AppendProperties
<1>2. DOMAIN times = 1..n /\ \A i \in 1..n : times[i] \in Nat
  OBVIOUS
<1>3. /\ \A i, j \in 1..n : i <= j => times[i] <= times[j]
      /\ \A i \in 1..n : times[i] <= now
  BY <1>2 DEF Ordered
<1> HIDE DEF longer, n
<1>4. DOMAIN longer = 1..(n + 1)
  BY <1>1
<1>5. \A j \in 1..(n + 1) : longer[j] \in Nat /\ longer[j] <= now
  BY <1>1, <1>2, <1>3
<1>6. ASSUME NEW i \in 1..(n + 1), NEW j \in 1..(n + 1), i <= j
      PROVE  longer[i] <= longer[j]
  <2>1. CASE j = n + 1
    BY <1>1, <1>5, <2>1
  <2>2. CASE j # n + 1
    <3>1. i \in 1..n /\ j \in 1..n
      BY <1>1, <1>6, <2>2
    <3>2. QED
      BY <1>1, <1>3, <1>6, <3>1
  <2>3. QED
    BY <2>1, <2>2
<1>7. Ordered(longer)
  BY <1>4, <1>5, <1>6 DEF Ordered
<1>8. PICK k \in 0..Len(longer) :
         /\ Latest(longer) \in Seq(Nat)
         /\ Len(Latest(longer)) = Len(longer) - k
         /\ \A i \in 1..(Len(longer) - k) : Latest(longer)[i] = longer[i + k]
         /\ Len(longer) - k <= MaxRejected
  BY <1>1, LatestIsSuffix
<1>9. Ordered(Latest(longer))
  <2>1. DOMAIN Latest(longer) = 1..(Len(longer) - k)
    BY <1>8
  <2>2. \A i \in 1..(Len(longer) - k) : i + k \in 1..(n + 1)
    BY <1>1, <1>8
  <2>3. \A i \in 1..(Len(longer) - k) : Latest(longer)[i] <= now
    BY <1>5, <1>8, <2>2
  <2>4. ASSUME NEW i \in 1..(Len(longer) - k), NEW j \in 1..(Len(longer) - k), i <= j
        PROVE  Latest(longer)[i] <= Latest(longer)[j]
    <3>1. i + k \in 1..(n + 1) /\ j + k \in 1..(n + 1) /\ i + k <= j + k
      BY <1>1, <2>2, <2>4
    <3>2. longer[i + k] <= longer[j + k]
      BY <1>6, <3>1
    <3>3. QED
      BY <1>8, <3>2
  <2>5. QED
    BY <2>1, <2>3, <2>4 DEF Ordered
<1>10. QED
  BY <1>1, <1>7, <1>8, <1>9 DEF Remembered, longer

\* Both lists of every username are.
AllRemembered == \A u \in Users : Remembered(rejected[u]) /\ Remembered(hidden[u])

\* A step adds the present time to a list, forgets it or leaves it.
LEMMA RememberedStep ==
    ASSUME NEW times \in Seq(Nat), now \in Nat, now' \in Nat, now' >= now, Remembered(times),
           NEW then,
           \/ then = times \/ then = <<>>
           \/ then = Latest(Append(times, now)) /\ now' = now
    PROVE  /\ \A i, j \in DOMAIN then : i <= j => then[i] <= then[j]
           /\ \A i \in DOMAIN then : then[i] <= now'
           /\ Len(then) <= MaxRejected
<1>1. CASE then = times
  <2>1. \A i \in DOMAIN times : times[i] \in Nat /\ times[i] <= now
    BY DEF Remembered, Ordered
  <2>2. QED
    BY <1>1, <2>1 DEF Remembered, Ordered
<1>2. CASE then = <<>>
  BY <1>2, ServiceAssumption
<1>3. CASE then = Latest(Append(times, now)) /\ now' = now
  BY <1>3, RememberedNow DEF Remembered, Ordered
<1>4. QED
  BY <1>1, <1>2, <1>3

\* The KDC rejects and the handlers give up at the present time (app.py:214-269).
LEMMA TimesAreRemembered == Spec => []AllRemembered
<1>1. Init => AllRemembered
  BY ServiceAssumption DEF Init, AllRemembered, Remembered, Ordered
<1>2. IInv /\ AllRemembered /\ [Next]_vars => AllRemembered'
  <2> SUFFICES ASSUME IInv, AllRemembered, [Next]_vars, NEW u \in Users
               PROVE  Remembered(rejected[u])' /\ Remembered(hidden[u])'
    BY DEF AllRemembered
  <2> DEFINE Kept(times, then) ==
          \/ then = times \/ then = <<>>
          \/ then = Latest(Append(times, now)) /\ now' = now
  <2>1. TypeOK /\ now \in Nat /\ now' \in Nat /\ now' >= now
    BY ClockStep DEF IInv, TypeOK, LimiterTypeOK
  <2>2. Kept(rejected[u], rejected'[u]) /\ Kept(hidden[u], hidden'[u])
    <3>1. CASE TimePasses \/ UNCHANGED vars
      BY <3>1 DEF TimePasses, vars
    <3>2. CASE Crash
      <4>1. rejected'[u] = <<>> /\ hidden'[u] = <<>>
        BY <3>2 DEF Crash
      <4>2. QED
        BY <4>1
    <3>3. ASSUME NEW s \in Slots, Handle(s)
          PROVE  UNCHANGED <<rejected, hidden>>
      BY <3>3 DEF Handle, VerifyFails, InvalidRequest, RateLimited, InvalidBlob, MkdirFails,
                  StageFails, Submit
    <3>4. ASSUME NEW s \in Slots, Arrive(s) \/ RejectBody(s) \/ Start(s) \/ SubprocessEnds(s)
          PROVE  UNCHANGED <<rejected, hidden>>
      BY <3>4 DEF Arrive, RejectBody, Start, SubprocessEnds
    <3>5. ASSUME NEW s \in Slots, KdcAnswers(s)
          PROVE  Kept(rejected[u], rejected'[u]) /\ hidden' = hidden
      BY <2>1, <3>5 DEF KdcAnswers, limiterVars, TypeOK
    <3>6. ASSUME NEW s \in Slots, Resume(s)
          PROVE  Kept(rejected[u], rejected'[u]) /\ Kept(hidden[u], hidden'[u])
      <4> DEFINE success == Outcome(mode[s], result[s]) = "ok" /\ mode[s] \in PasswordModes
      <4>1. /\ rejected' = IF success THEN [rejected EXCEPT ![user[s]] = <<>>] ELSE rejected
            /\ hidden' = IF success THEN [hidden EXCEPT ![user[s]] = <<>>]
                         ELSE IF KilledRejected(s)
                           THEN [hidden EXCEPT ![user[s]] = Latest(Append(@, now))]
                           ELSE hidden
            /\ now' = now
        BY <3>6 DEF Resume
      <4>2. DOMAIN rejected = Users /\ DOMAIN hidden = Users
        BY <2>1 DEF TypeOK
      <4> HIDE DEF success
      <4>3. rejected'[u] = rejected[u] \/ rejected'[u] = <<>>
        BY <4>1, <4>2
      <4>4. \/ hidden'[u] = hidden[u] \/ hidden'[u] = <<>>
            \/ hidden'[u] = Latest(Append(hidden[u], now))
        BY <4>1, <4>2
      <4>5. QED
        BY <4>1, <4>3, <4>4
    <3>6a. ASSUME NEW v \in Users, StrayAnswers(v)
           PROVE  Kept(rejected[u], rejected'[u]) /\ Kept(hidden[u], hidden'[u])
      <4>1. now' = now /\ DOMAIN rejected = Users /\ DOMAIN hidden = Users
        BY <2>1, <3>6a DEF StrayAnswers, limiterVars, TypeOK
      <4>2. CASE UNCHANGED <<rejected, hidden>>
        BY <4>2
      <4>3. CASE /\ rejected' = [rejected EXCEPT ![v] = Latest(Append(@, now))]
                 /\ hidden' = [hidden EXCEPT ![v] = Latest(Append(@, now))]
        <5>1. \/ rejected'[u] = rejected[u] /\ hidden'[u] = hidden[u]
              \/ /\ rejected'[u] = Latest(Append(rejected[u], now))
                 /\ hidden'[u] = Latest(Append(hidden[u], now))
          BY <4>1, <4>3
        <5>2. QED
          BY <4>1, <5>1
      <4> HIDE DEF Kept
      <4>4. QED
        BY <3>6a, <4>2, <4>3 DEF StrayAnswers
    <3>7. ASSUME UNCHANGED <<rejected, hidden>>
          PROVE  Kept(rejected[u], rejected'[u]) /\ Kept(hidden[u], hidden'[u])
      <4>1. rejected'[u] = rejected[u] /\ hidden'[u] = hidden[u]
        BY <3>7
      <4>2. QED
        BY <4>1
    <3>8. \A s \in Slots : KdcAnswers(s) => Kept(hidden[u], hidden'[u])
      BY <3>5
    <3> HIDE DEF Kept
    <3>9. QED
      BY <3>1, <3>2, <3>3, <3>4, <3>5, <3>6, <3>6a, <3>7, <3>8 DEF Next
  <2>3. /\ rejected[u] \in Seq(Nat) /\ hidden[u] \in Seq(Nat)
        /\ Remembered(rejected[u]) /\ Remembered(hidden[u])
    BY <2>1 DEF TypeOK, AllRemembered
  <2>4. /\ \A i, j \in DOMAIN rejected'[u] : i <= j => rejected'[u][i] <= rejected'[u][j]
        /\ \A i \in DOMAIN rejected'[u] : rejected'[u][i] <= now'
        /\ Len(rejected'[u]) <= MaxRejected
    BY <2>1, <2>2, <2>3, RememberedStep
  <2>5. /\ \A i, j \in DOMAIN hidden'[u] : i <= j => hidden'[u][i] <= hidden'[u][j]
        /\ \A i \in DOMAIN hidden'[u] : hidden'[u][i] <= now'
        /\ Len(hidden'[u]) <= MaxRejected
    BY <2>1, <2>2, <2>3, RememberedStep
  <2>6. QED
    BY <2>4, <2>5 DEF Remembered, Ordered
<1>3. QED
  BY <1>1, <1>2, Invariant, PTL DEF Spec

\* Of a list that is remembered nothing is after the present; with the present time
\* added it counts one more, or as much as can be remembered.
LEMMA OneMoreRemembered ==
    ASSUME NEW times \in Seq(Nat), now \in Nat, Remembered(times), NEW T \in Int
    PROVE  LET longer == Latest(Append(times, now))
           IN  /\ Cardinality(Later(times, T)) \in Nat
               /\ Cardinality(Later(longer, T)) \in Nat
               /\ Cardinality(Later(times, T)) <= MaxRejected
               /\ Cardinality(Later(longer, T)) <= MaxRejected
               /\ T >= now => /\ Cardinality(Later(times, T)) = 0
                              /\ Cardinality(Later(longer, T)) = 0
               /\ Cardinality(Later(longer, T)) <= Cardinality(Later(times, T)) + 1
               /\ T < now => \/ Cardinality(Later(longer, T)) = Cardinality(Later(times, T)) + 1
                             \/ Cardinality(Later(longer, T)) = MaxRejected
<1> DEFINE more == Append(times, now)
           longer == Latest(more)
<1>1. more \in Seq(Nat) /\ Ordered(more) /\ Remembered(longer)
  BY RememberedNow DEF Remembered
<1>2. longer \in Seq(Nat)
  BY <1>1, LatestType
<1> HIDE DEF more, longer
<1>3. ASSUME NEW list \in Seq(Nat), Remembered(list)
      PROVE  /\ Cardinality(Later(list, T)) \in Nat
             /\ Cardinality(Later(list, T)) <= MaxRejected
             /\ T >= now => Cardinality(Later(list, T)) = 0
  <2>1. Cardinality(Later(list, T)) \in Nat /\ Cardinality(Later(list, T)) <= Len(list)
    BY LaterCount
  <2>1a. Len(list) \in Nat
    OBVIOUS
  <2>2. Len(list) <= MaxRejected /\ MaxRejected \in Nat
    BY <1>3, ServiceAssumption DEF Remembered
  <2>3. ASSUME T >= now
        PROVE  Later(list, T) = {}
    <3>1. \A i \in DOMAIN list : list[i] \in Nat /\ list[i] <= now
      BY <1>3 DEF Remembered, Ordered
    <3>2. QED
      BY <2>3, <3>1 DEF Later
  <2>4. T >= now => Cardinality(Later(list, T)) = 0
    BY <2>3, FS_EmptySet
  <2>5. QED
    BY <2>1, <2>1a, <2>2, <2>4
<1>4. /\ Cardinality(Later(longer, T)) <= Cardinality(Later(more, T))
      /\ \/ Cardinality(Later(longer, T)) = Cardinality(Later(more, T))
         \/ Cardinality(Later(longer, T)) = MaxRejected
  BY <1>1, LatestLater DEF longer, Ordered
<1>5. /\ Cardinality(Later(more, T)) \in Nat
      /\ Cardinality(Later(more, T)) <= Cardinality(Later(times, T)) + 1
      /\ now > T => Cardinality(Later(more, T)) = Cardinality(Later(times, T)) + 1
  BY <1>1, LaterAppend, LaterCount DEF more
<1>6. /\ Cardinality(Later(times, T)) \in Nat
      /\ Cardinality(Later(times, T)) <= MaxRejected
      /\ T >= now => Cardinality(Later(times, T)) = 0
  BY <1>3
<1>7. /\ Cardinality(Later(longer, T)) \in Nat
      /\ Cardinality(Later(longer, T)) <= MaxRejected
      /\ T >= now => Cardinality(Later(longer, T)) = 0
  BY <1>1, <1>2, <1>3
<1> DEFINE C == Cardinality(Later(times, T))
           M == Cardinality(Later(more, T))
           L == Cardinality(Later(longer, T))
<1>8. /\ L <= C + 1
      /\ T < now => L = C + 1 \/ L = MaxRejected
  <2>1. L <= M /\ M <= C + 1 /\ (now > T => M = C + 1) /\ (L = M \/ L = MaxRejected)
    BY <1>4, <1>5
  <2>2. L \in Nat /\ M \in Nat /\ C \in Nat
    BY <1>5, <1>6, <1>7
  <2> HIDE DEF L, M, C
  <2>3. QED
    BY <2>1, <2>2
<1>9. QED
  BY <1>6, <1>7, <1>8 DEF longer, more

\* A rejection by the KDC turns an open attempt into a denied one.
LEMMA RejectedAttempt ==
    ASSUME TypeOK, TypeOK', NEW u \in Users, RejectionsBounded(u), NEW s \in Open(u),
           rejected'[u] = Latest(Append(rejected[u], now)), state'[u] = state[u], now' = now,
           hidden'[u] = hidden[u],
           Denied(u)' = Denied(u) \cup {s}, Open(u)' = Open(u) \ {s}
    PROVE  RejectionsBounded(u)'
<1> DEFINE N == Cardinality(Slots)
           D == Cardinality(Denied(u))
           D2 == Cardinality(Denied(u)')
           O == Cardinality(Open(u))
           O2 == Cardinality(Open(u)')
           R(T) == Cardinality(Later(rejected[u], T))
           R2(T) == Cardinality(Later(rejected'[u], T))
           H(T) == Cardinality(Later(hidden[u], T))
           F(T) == Cardinality(Later(state[u].failure_times, T))
           lock == state[u].locked_until
           longer == Append(rejected[u], now)
<1>1. /\ rejected[u] \in Seq(Nat) /\ now \in Nat
      /\ Denied(u) \in SUBSET Slots /\ Open(u) \in SUBSET Slots /\ lock \in Nat \cup {None}
      /\ Span \in Nat \ {0} /\ Lockout \in Nat \ {0}
      /\ N \in Nat /\ D \in Nat /\ O \in Nat
      /\ \A T \in Int : R(T) \in Nat /\ F(T) \in Nat /\ H(T) \in Nat
  BY RejectionCounts
<1>2. D2 = D + 1 /\ O2 = O - 1
  <2>1. IsFiniteSet(Denied(u)) /\ IsFiniteSet(Open(u))
    BY <1>1, ServiceAssumption, FS_Subset
  <2>2. s \notin Denied(u)
    BY DEF Open
  <2>3. Cardinality(Denied(u) \cup {s}) = Cardinality(Denied(u)) + 1
    BY <2>1, <2>2, FS_AddElement
  <2>4. Cardinality(Open(u) \ {s}) = Cardinality(Open(u)) - 1
    BY <2>1, FS_RemoveElement
  <2>5. QED
    BY <2>3, <2>4, Zenon
<1>3. longer \in Seq(Nat) /\ \A T \in Int : Cardinality(Later(longer, T)) \in Nat
  BY <1>1, AppendProperties, LaterCount
<1>4. ASSUME NEW T \in Int
      PROVE  R2(T) \in Nat /\ R2(T) <= R(T) + 1
  <2>1. Cardinality(Later(longer, T)) <= R(T) + 1
    BY <1>1, LaterAppend
  <2>2. R2(T) <= Cardinality(Later(longer, T))
    BY <1>3, LatestLater
  <2>3. R2(T) \in Nat
    BY LaterCount DEF TypeOK
  <2>4. R(T) \in Nat /\ Cardinality(Later(longer, T)) \in Nat
    BY <1>1, <1>3
  <2> HIDE DEF R, R2
  <2>5. QED
    BY <2>1, <2>2, <2>3, <2>4
<1>5. /\ \A T \in Int : T >= now - Span => R(T) <= N - 1 + D + F(T) + H(T)
      /\ lock # None =>
            \A T \in Int : T >= lock - Lockout => R(T) + O <= N - 1 + H(T)
  BY DEF RejectionsBounded
<1> HIDE DEF N, D, D2, O, O2, R, R2, H, F, lock
<1>6. N \in Nat /\ D \in Nat /\ O \in Nat
  BY <1>1
<1>7. ASSUME NEW T \in Int, T >= now - Span
      PROVE  R2(T) <= N - 1 + D2 + F(T) + H(T)
  <2>1. R(T) \in Nat /\ F(T) \in Nat /\ H(T) \in Nat /\ R(T) <= N - 1 + D + F(T) + H(T)
    BY <1>1, <1>5, <1>7
  <2>2. R2(T) \in Nat /\ R2(T) <= R(T) + 1
    BY <1>4
  <2>3. QED
    BY <1>2, <1>6, <2>1, <2>2
<1>8. ASSUME lock # None, NEW T \in Int, T >= lock - Lockout
      PROVE  R2(T) + O2 <= N - 1 + H(T)
  <2>1. R(T) \in Nat /\ H(T) \in Nat
    BY <1>1
  <2>2. R(T) + O <= N - 1 + H(T)
    BY <1>5, <1>8
  <2>3. R2(T) \in Nat /\ R2(T) <= R(T) + 1
    BY <1>4
  <2>4. QED
    BY <1>2, <1>6, <2>1, <2>2, <2>3
<1>9. QED
  BY <1>7, <1>8 DEF RejectionsBounded, N, D2, O2, R2, H, F, lock

\* A failure the limiter hears of moves from the attempts in flight to the list, and if
\* it begins a lockout its slot is not among those still open (ratelimit.py:83-91).
LEMMA FailureRejections ==
    ASSUME TypeOK, TypeOK', NEW u \in Users, RejectionsBounded(u),
           Ordered(state[u].failure_times), RecordFailure(u), now' = now,
           Ordered(rejected[u]),
           rejected'[u] = rejected[u], hidden'[u] = hidden[u], NEW s \in Slots,
           Denied(u)' = Denied(u) \ {s}, Open(u)' = Open(u) \ {s}
    PROVE  RejectionsBounded(u)'
<1> DEFINE N == Cardinality(Slots)
           D == Cardinality(Denied(u))
           D2 == Cardinality(Denied(u)')
           O == Cardinality(Open(u))
           O2 == Cardinality(Open(u)')
           R(T) == Cardinality(Later(rejected[u], T))
           H(T) == Cardinality(Later(hidden[u], T))
           F(T) == Cardinality(Later(state[u].failure_times, T))
           F2(T) == Cardinality(Later(state'[u].failure_times, T))
           lock == state[u].locked_until
           lock2 == state'[u].locked_until
<1>1. /\ rejected[u] \in Seq(Nat) /\ state[u].failure_times \in Seq(Nat) /\ now \in Nat
      /\ Denied(u) \in SUBSET Slots /\ Open(u) \in SUBSET Slots /\ lock \in Nat \cup {None}
      /\ Span \in Nat \ {0} /\ Lockout \in Nat \ {0}
      /\ N \in Nat \ {0} /\ D \in Nat /\ O \in Nat
      /\ \A T \in Int : R(T) \in Nat /\ F(T) \in Nat /\ H(T) \in Nat
  BY RejectionCounts
<1>2. D2 \in Nat /\ D <= D2 + 1
  <2>1. IsFiniteSet(Denied(u)) /\ Denied(u) \ {s} \in SUBSET Slots
    BY <1>1, ServiceAssumption, FS_Subset
  <2>2. D2 = Cardinality(Denied(u) \ {s})
    OBVIOUS
  <2>3. Cardinality(Denied(u) \ {s}) \in Nat
    BY <2>1, SlotSets
  <2>4. Cardinality(Denied(u) \ {s}) = IF s \in Denied(u) THEN D - 1 ELSE D
    BY <2>1, FS_RemoveElement
  <2> HIDE DEF D, D2
  <2>5. D \in Nat
    BY <1>1
  <2>6. QED
    BY <2>2, <2>3, <2>4, <2>5
<1>3. O2 \in Nat /\ O2 <= O /\ O2 <= N - 1
  <2>1. Open(u)' \in SUBSET Open(u) /\ Open(u)' \in SUBSET (Slots \ {s})
    BY <1>1
  <2>2. QED
    BY <1>1, <2>1, SlotSets
<1>4. \A T \in Int : F2(T) \in Nat
  BY LaterCount DEF TypeOK, LimiterTypeOK, Entry
<1>5. \A T \in Int : T >= now - Span /\ T < now => F2(T) = F(T) + 1
  <2>1. \A T \in Int : T >= now - Span => T >= now - Window
    BY <1>1, SpanBounds, LimiterAssumption
  <2>2. state'[u].failure_times = Append(Recent(state[u].failure_times), now)
    BY RecordFailureEntry DEF TypeOK
  <2>3. QED
    BY <1>1, <2>1, <2>2, RecordedTimes
<1>6. \A i \in DOMAIN rejected[u] : rejected[u][i] \in Nat /\ rejected[u][i] <= now
  <2>1. \A i \in DOMAIN rejected[u] : rejected[u][i] <= now
    BY DEF Ordered
  <2>2. rejected[u] \in Seq(Nat)
    BY <1>1
  <2>3. QED
    BY <2>1, <2>2
<1>7. ASSUME NEW T \in Int, T >= now
      PROVE  R(T) = 0
  <2>1. Later(rejected[u], T) = {}
    BY <1>1, <1>6, <1>7 DEF Later
  <2>2. QED
    BY <2>1, FS_EmptySet
<1>8. lock2 = now + Lockout \/ lock2 = lock
  BY RecordFailureEntry DEF TypeOK
<1>9. /\ \A T \in Int : T >= now - Span => R(T) <= N - 1 + D + F(T) + H(T)
      /\ lock # None =>
            \A T \in Int : T >= lock - Lockout => R(T) + O <= N - 1 + H(T)
  BY DEF RejectionsBounded
<1> HIDE DEF N, D, D2, O, O2, R, H, F, F2, lock, lock2
<1>10. /\ N \in Nat \ {0} /\ D \in Nat /\ O \in Nat /\ now \in Nat
       /\ Span \in Nat /\ Lockout \in Nat
  BY <1>1
<1>11. ASSUME NEW T \in Int, T >= now - Span
       PROVE  R(T) <= N - 1 + D2 + F2(T) + H(T)
  <2>1. R(T) \in Nat /\ F(T) \in Nat /\ F2(T) \in Nat /\ H(T) \in Nat
    BY <1>1, <1>4
  <2>2. CASE T < now
    <3>1. F2(T) = F(T) + 1
      BY <1>5, <1>11, <2>2
    <3>2. R(T) <= N - 1 + D + F(T) + H(T)
      BY <1>9, <1>11
    <3>3. QED
      BY <1>2, <1>10, <2>1, <3>1, <3>2
  <2>3. CASE T >= now
    <3>1. R(T) = 0
      BY <1>7, <2>3
    <3>2. QED
      BY <1>2, <1>3, <1>10, <2>1, <3>1
  <2>4. QED
    BY <1>10, <2>2, <2>3
<1>12. ASSUME lock2 # None, NEW T \in Int, T >= lock2 - Lockout
       PROVE  R(T) + O2 <= N - 1 + H(T)
  <2>1. R(T) \in Nat /\ H(T) \in Nat
    BY <1>1
  <2>2. CASE lock2 = now + Lockout
    <3>1. T >= now
      BY <1>10, <1>12, <2>2
    <3>2. R(T) = 0
      BY <1>7, <3>1
    <3>3. QED
      BY <1>3, <1>10, <2>1, <3>2
  <2>3. CASE lock2 = lock
    <3>1. R(T) + O <= N - 1 + H(T)
      BY <1>9, <1>12, <2>3
    <3>2. QED
      BY <1>3, <1>10, <2>1, <3>1
  <2>4. QED
    BY <1>8, <2>2, <2>3
<1>13. QED
  BY <1>11, <1>12 DEF RejectionsBounded, N, D2, O2, R, H, F2, lock2

\* A rejection a timeout hides moves from the attempts in flight to the hidden ones: the
\* handler answers without a word to the limiter (minting.py:307-314, app.py:245-258).
LEMMA HiddenRejection ==
    ASSUME TypeOK, TypeOK', NEW u \in Users, RejectionsBounded(u),
           Remembered(rejected[u]), Remembered(hidden[u]), NEW s \in Slots,
           rejected'[u] = rejected[u], hidden'[u] = Latest(Append(hidden[u], now)),
           state'[u] = state[u], now' = now,
           Denied(u)' = Denied(u) \ {s}, Open(u)' = Open(u) \ {s}
    PROVE  RejectionsBounded(u)'
<1> DEFINE N == Cardinality(Slots)
           D == Cardinality(Denied(u))
           D2 == Cardinality(Denied(u)')
           O == Cardinality(Open(u))
           O2 == Cardinality(Open(u)')
           R(T) == Cardinality(Later(rejected[u], T))
           H(T) == Cardinality(Later(hidden[u], T))
           H2(T) == Cardinality(Later(hidden'[u], T))
           F(T) == Cardinality(Later(state[u].failure_times, T))
           lock == state[u].locked_until
<1>1. /\ rejected[u] \in Seq(Nat) /\ hidden[u] \in Seq(Nat) /\ now \in Nat
      /\ Denied(u) \in SUBSET Slots /\ Open(u) \in SUBSET Slots /\ lock \in Nat \cup {None}
      /\ Span \in Nat \ {0} /\ Lockout \in Nat \ {0}
      /\ N \in Nat \ {0} /\ D \in Nat /\ O \in Nat
      /\ \A T \in Int : R(T) \in Nat /\ H(T) \in Nat /\ F(T) \in Nat
  BY RejectionCounts
<1>2. D2 \in Nat /\ D <= D2 + 1
  <2>1. IsFiniteSet(Denied(u)) /\ Denied(u) \ {s} \in SUBSET Slots
    BY <1>1, ServiceAssumption, FS_Subset
  <2>2. Cardinality(Denied(u) \ {s}) \in Nat
    BY <2>1, SlotSets
  <2>3. Cardinality(Denied(u) \ {s}) = IF s \in Denied(u) THEN D - 1 ELSE D
    BY <2>1, FS_RemoveElement
  <2>4. D2 = Cardinality(Denied(u) \ {s})
    OBVIOUS
  <2>5. D \in Nat
    BY <1>1
  <2> HIDE DEF D, D2
  <2>6. QED
    BY <2>2, <2>3, <2>4, <2>5
<1>3. O2 \in Nat /\ O2 <= O /\ O2 <= N - 1
  <2>1. Open(u)' \in SUBSET Open(u) /\ Open(u)' \in SUBSET (Slots \ {s})
    BY <1>1
  <2>2. QED
    BY <1>1, <2>1, SlotSets
<1>4. \A T \in Int : R(T) <= MaxRejected /\ (T >= now => R(T) = 0)
  BY <1>1, OneMoreRemembered
<1>5. \A T \in Int : H2(T) \in Nat /\ (T < now => H2(T) = H(T) + 1 \/ H2(T) = MaxRejected)
  BY <1>1, OneMoreRemembered
<1>6. /\ \A T \in Int : T >= now - Span => R(T) <= N - 1 + D + F(T) + H(T)
      /\ lock # None =>
            \A T \in Int : T >= lock - Lockout => R(T) + O <= N - 1 + H(T)
  BY DEF RejectionsBounded
<1> HIDE DEF N, D, D2, O, O2, R, H, H2, F, lock
<1>7. N \in Nat \ {0} /\ D \in Nat /\ O \in Nat /\ now \in Nat
  BY <1>1
<1>8. ASSUME NEW T \in Int, T >= now - Span
       PROVE  R(T) <= N - 1 + D2 + F(T) + H2(T)
  <2>1. R(T) \in Nat /\ F(T) \in Nat /\ H(T) \in Nat /\ H2(T) \in Nat
    BY <1>1, <1>5
  <2>2. CASE T >= now
    <3>1. R(T) = 0
      BY <1>4, <2>2
    <3>2. QED
      BY <1>2, <1>7, <2>1, <3>1
  <2>3. CASE T < now /\ H2(T) = H(T) + 1
    <3>1. R(T) <= N - 1 + D + F(T) + H(T)
      BY <1>6, <1>8
    <3>2. QED
      BY <1>2, <1>7, <2>1, <2>3, <3>1
  <2>4. CASE H2(T) = MaxRejected
    <3>1. R(T) <= H2(T)
      BY <1>4, <2>4
    <3>2. QED
      BY <1>2, <1>7, <2>1, <3>1
  <2>5. T >= now \/ T < now
    BY <1>7
  <2>6. QED
    BY <1>5, <2>2, <2>3, <2>4, <2>5
<1>9. ASSUME lock # None, NEW T \in Int, T >= lock - Lockout
       PROVE  R(T) + O2 <= N - 1 + H2(T)
  <2>1. R(T) \in Nat /\ H(T) \in Nat /\ H2(T) \in Nat
    BY <1>1, <1>5
  <2>2. CASE T >= now
    <3>1. R(T) = 0
      BY <1>4, <2>2
    <3>2. QED
      BY <1>3, <1>7, <2>1, <3>1
  <2>3. CASE T < now /\ H2(T) = H(T) + 1
    <3>1. R(T) + O <= N - 1 + H(T)
      BY <1>6, <1>9
    <3>2. QED
      BY <1>3, <1>7, <2>1, <2>3, <3>1
  <2>4. CASE H2(T) = MaxRejected
    <3>1. R(T) <= H2(T)
      BY <1>4, <2>4
    <3>2. QED
      BY <1>3, <1>7, <2>1, <3>1
  <2>5. T >= now \/ T < now
    BY <1>7
  <2>6. QED
    BY <1>5, <2>2, <2>3, <2>4, <2>5
<1>10. QED
  BY <1>8, <1>9 DEF RejectionsBounded, N, D2, O2, R, H2, F, lock

\* A rejection that comes when the handler is gone counts for the KDC and is lost to
\* the limiter: both sides of the bound grow alike (minting.py:307-314).
LEMMA StrayRejection ==
    ASSUME TypeOK, TypeOK', NEW u \in Users, RejectionsBounded(u),
           Remembered(rejected[u]), Remembered(hidden[u]),
           rejected'[u] = Latest(Append(rejected[u], now)),
           hidden'[u] = Latest(Append(hidden[u], now)),
           state'[u] = state[u], now' = now, Denied(u)' = Denied(u), Open(u)' = Open(u)
    PROVE  RejectionsBounded(u)'
<1> DEFINE N == Cardinality(Slots)
           D == Cardinality(Denied(u))
           O == Cardinality(Open(u))
           R(T) == Cardinality(Later(rejected[u], T))
           R2(T) == Cardinality(Later(rejected'[u], T))
           H(T) == Cardinality(Later(hidden[u], T))
           H2(T) == Cardinality(Later(hidden'[u], T))
           F(T) == Cardinality(Later(state[u].failure_times, T))
           lock == state[u].locked_until
<1>1. /\ rejected[u] \in Seq(Nat) /\ hidden[u] \in Seq(Nat) /\ now \in Nat
      /\ lock \in Nat \cup {None} /\ Span \in Nat /\ Lockout \in Nat
      /\ N \in Nat \ {0} /\ D \in Nat /\ O \in Nat
      /\ \A T \in Int : R(T) \in Nat /\ H(T) \in Nat /\ F(T) \in Nat
  BY RejectionCounts
<1>2. \A T \in Int : /\ R2(T) \in Nat /\ R2(T) <= MaxRejected /\ R2(T) <= R(T) + 1
                     /\ T >= now => R(T) = 0 /\ R2(T) = 0
  BY <1>1, OneMoreRemembered
<1>3. \A T \in Int : /\ H2(T) \in Nat
                     /\ T >= now => H(T) = 0
                     /\ T < now => H2(T) = H(T) + 1 \/ H2(T) = MaxRejected
  BY <1>1, OneMoreRemembered
<1>4. /\ \A T \in Int : T >= now - Span => R(T) <= N - 1 + D + F(T) + H(T)
      /\ lock # None =>
            \A T \in Int : T >= lock - Lockout => R(T) + O <= N - 1 + H(T)
  BY DEF RejectionsBounded
<1> HIDE DEF N, D, O, R, R2, H, H2, F, lock
<1>5. N \in Nat \ {0} /\ D \in Nat /\ O \in Nat /\ now \in Nat
  BY <1>1
<1>6. ASSUME NEW T \in Int
      PROVE  /\ R(T) \in Nat /\ R2(T) \in Nat /\ H(T) \in Nat /\ H2(T) \in Nat /\ F(T) \in Nat
             /\ R2(T) = 0 \/ R2(T) <= H2(T) \/ (R2(T) <= R(T) + 1 /\ H2(T) = H(T) + 1)
  <2>1. /\ R(T) \in Nat /\ R2(T) \in Nat /\ H(T) \in Nat /\ H2(T) \in Nat /\ F(T) \in Nat
    BY <1>1, <1>2, <1>3
  <2>2. CASE T >= now
    BY <1>2, <2>1, <2>2
  <2>3. CASE T < now
    BY <1>2, <1>3, <2>1, <2>3
  <2>4. QED
    BY <1>5, <2>2, <2>3
<1>7. ASSUME NEW T \in Int, T >= now - Span
      PROVE  R2(T) <= N - 1 + D + F(T) + H2(T)
  <2>1. R(T) <= N - 1 + D + F(T) + H(T)
    BY <1>4, <1>7
  <2>2. /\ R(T) \in Nat /\ R2(T) \in Nat /\ H(T) \in Nat /\ H2(T) \in Nat /\ F(T) \in Nat
        /\ N \in Nat \ {0} /\ D \in Nat
    BY <1>5, <1>6
  <2>3. CASE R2(T) = 0 \/ R2(T) <= H2(T)
    BY <2>2, <2>3
  <2>4. CASE R2(T) <= R(T) + 1 /\ H2(T) = H(T) + 1
    BY <2>1, <2>2, <2>4
  <2>5. QED
    BY <1>6, <2>3, <2>4
<1>8. lock # None => O <= N - 1
  <2>1. SUFFICES ASSUME lock # None
                 PROVE  O <= N - 1
    OBVIOUS
  <2>2. PICK T \in Int : T >= now /\ T >= lock - Lockout
    <3>1. lock \in Nat /\ Lockout \in Nat
      BY <1>1, <2>1
    <3>2. now + lock \in Int /\ now + lock >= now /\ now + lock >= lock - Lockout
      BY <1>5, <3>1
    <3>3. QED
      BY <3>2
  <2>3. R(T) = 0 /\ H(T) = 0 /\ R(T) + O <= N - 1 + H(T)
    BY <1>2, <1>3, <1>4, <2>1, <2>2
  <2>4. QED
    BY <1>5, <2>3
<1>9. ASSUME lock # None, NEW T \in Int, T >= lock - Lockout
      PROVE  R2(T) + O <= N - 1 + H2(T)
  <2>1. R(T) + O <= N - 1 + H(T) /\ O <= N - 1
    BY <1>4, <1>8, <1>9
  <2>2. /\ R(T) \in Nat /\ R2(T) \in Nat /\ H(T) \in Nat /\ H2(T) \in Nat
        /\ N \in Nat \ {0} /\ O \in Nat
    BY <1>5, <1>6
  <2>3. CASE R2(T) = 0 \/ R2(T) <= H2(T)
    BY <2>1, <2>2, <2>3
  <2>4. CASE R2(T) <= R(T) + 1 /\ H2(T) = H(T) + 1
    BY <2>1, <2>2, <2>4
  <2>5. QED
    BY <1>6, <2>3, <2>4
<1>10. QED
  BY <1>7, <1>9 DEF RejectionsBounded, N, D, O, R2, H2, F, lock

\* Where no rejection is remembered there is nothing to bound.
LEMMA NothingRejected ==
    ASSUME NEW d \in Nat, NEW times \in Seq(Nat), NEW more \in Seq(Nat)
    PROVE  \A T \in Int : Cardinality(Later(<<>>, T))
                             <= Cardinality(Slots) - 1 + d + Cardinality(Later(times, T))
                                  + Cardinality(Later(more, T))
<1>1. \A T \in Int : Later(<<>>, T) = {}
  BY DEF Later
<1>2. \A T \in Int : Cardinality(Later(<<>>, T)) = 0
  BY <1>1, FS_EmptySet
<1>3. Cardinality(Slots) \in Nat \ {0}
  BY ServiceAssumption, FS_CardinalityType, FS_EmptySet
<1>4. ASSUME NEW T \in Int
      PROVE  Cardinality(Later(<<>>, T))
                 <= Cardinality(Slots) - 1 + d + Cardinality(Later(times, T))
                      + Cardinality(Later(more, T))
  <2> DEFINE N == Cardinality(Slots)
             L == Cardinality(Later(times, T))
             M == Cardinality(Later(more, T))
             E == Cardinality(Later(<<>>, T))
  <2>1. N \in Nat \ {0} /\ L \in Nat /\ M \in Nat /\ E = 0
    BY <1>2, <1>3, LaterCount
  <2> HIDE DEF N, L, M, E
  <2>2. E <= N - 1 + d + L + M
    BY <2>1
  <2>3. QED
    BY <2>2 DEF N, L, M, E
<1>5. QED
  BY <1>4

\* After a success or a restart none is (app.py:343-344 and 600).
LEMMA ForgottenRejections ==
    ASSUME TypeOK', NEW u \in Users, rejected'[u] = <<>>, state'[u].locked_until = None
    PROVE  RejectionsBounded(u)'
<1>1. Denied(u)' \in SUBSET Slots
  BY DEF Denied, InFlight
<1>2. /\ Cardinality(Denied(u)') \in Nat
      /\ state'[u].failure_times \in Seq(Nat) /\ hidden'[u] \in Seq(Nat)
  BY <1>1, SlotSets DEF TypeOK, LimiterTypeOK, Entry
<1>3. QED
  BY <1>2, NothingRejected DEF RejectionsBounded

\* An answer takes its attempt out of flight.
LEMMA AnsweredAttempt ==
    ASSUME TypeOK, NEW s \in Slots, NEW code, NEW lines, Answer(s, code, lines), NEW u \in Users
    PROVE  Denied(u)' = Denied(u) \ {s} /\ Open(u)' = Open(u) \ {s}
<1>1. /\ pc' = [pc EXCEPT ![s] = "idle"] /\ mode' = [mode EXCEPT ![s] = "none"]
      /\ user' = [user EXCEPT ![s] = None] /\ verdict' = [verdict EXCEPT ![s] = "none"]
  BY DEF Answer
<1>2. s \notin InFlight(u)'
  BY <1>1 DEF InFlight, TypeOK
<1>3. \A t \in Slots \ {s} : /\ pc'[t] = pc[t] /\ mode'[t] = mode[t]
                             /\ user'[t] = user[t] /\ verdict'[t] = verdict[t]
  BY <1>1 DEF TypeOK
<1>4. InFlight(u)' = InFlight(u) \ {s}
  BY <1>2, <1>3 DEF InFlight
<1>5. InFlight(u) \subseteq Slots
  BY DEF InFlight
<1>6. Denied(u)' = Denied(u) \ {s}
  BY <1>3, <1>4, <1>5 DEF Denied
<1>7. QED
  BY <1>4, <1>6 DEF Open

\* Before the executor has its subprocess a request rejects nothing, and only the check
\* touches the entry of its username (app.py:128-232 and 505-554).
LEMMA HandleRejections ==
    ASSUME TypeOK, TypeOK', NEW u \in Users, RejectionsBounded(u), NEW s \in Slots, Handle(s)
    PROVE  RejectionsBounded(u)'
<1>1. /\ pc[s] = "verifying" /\ rejected' = rejected /\ hidden' = hidden
      /\ now' = now /\ now \in Nat
  BY DEF Handle, VerifyFails, InvalidRequest, RateLimited, InvalidBlob, MkdirFails,
         StageFails, Submit, limiterVars, TypeOK, LimiterTypeOK
<1>2. s \notin InFlight(u)
  BY <1>1 DEF InFlight
<1>3. s \notin Denied(u) /\ s \notin Open(u)
  BY <1>2 DEF Denied, Open
<1>4. now' >= now
  BY <1>1
<1>5. ASSUME NEW code, NEW lines, Answer(s, code, lines)
      PROVE  Denied(u)' = Denied(u) /\ Open(u)' = Open(u)
  BY <1>3, <1>5, AnsweredAttempt
<1>6. ASSUME Checked(s), mode[s] \in PasswordModes, user[s] = u
      PROVE  CheckPasses(u)
  BY <1>6 DEF Checked
<1>7. ASSUME Checked(s), ~(mode[s] \in PasswordModes /\ user[s] = u)
      PROVE  state'[u] = state[u]
  <2>1. CASE mode[s] \in PasswordModes
    <3>1. CheckPasses(user[s]) /\ user[s] # u
      BY <1>7, <2>1 DEF Checked
    <3>2. QED
      BY <3>1 DEF CheckPasses, TypeOK, LimiterTypeOK
  <2>2. CASE mode[s] \notin PasswordModes
    BY <1>7, <2>2 DEF Checked
  <2>3. QED
    BY <2>1, <2>2
<1>8. CASE VerifyFails(s) \/ InvalidRequest(s) \/ RateLimited(s) \/ InvalidBlob(s)
  <2>1. state' = state
    BY <1>8 DEF VerifyFails, InvalidRequest, RateLimited, InvalidBlob, limiterVars
  <2>2. Denied(u)' = Denied(u) /\ Open(u)' = Open(u)
    BY <1>5, <1>8 DEF VerifyFails, InvalidRequest, RateLimited, InvalidBlob
  <2>3. QED
    BY <1>1, <1>4, <2>1, <2>2, QuietRejections
<1>9. CASE MkdirFails(s) \/ StageFails(s)
  <2>1. Checked(s) /\ Denied(u)' = Denied(u) /\ Open(u)' = Open(u)
    BY <1>5, <1>9 DEF MkdirFails, StageFails
  <2>2. CASE mode[s] \in PasswordModes /\ user[s] = u
    BY <1>1, <1>6, <2>1, <2>2, PassedRejections
  <2>3. CASE ~(mode[s] \in PasswordModes /\ user[s] = u)
    BY <1>1, <1>4, <1>7, <2>1, <2>3, QuietRejections
  <2>4. QED
    BY <2>2, <2>3
<1>10. CASE Submit(s)
  <2>1. /\ Checked(s) /\ pc' = [pc EXCEPT ![s] = "queued"]
        /\ mode' = mode /\ user' = user /\ verdict' = verdict
    BY <1>10 DEF Submit
  <2>2. \A t \in Slots \ {s} : pc'[t] = pc[t]
    BY <2>1 DEF TypeOK
  <2>3. \A t \in InFlight(u) : t \in InFlight(u)'
    BY <1>2, <2>1, <2>2 DEF InFlight
  <2>4. Denied(u) \subseteq Denied(u)'
    BY <2>1, <2>3 DEF Denied
  <2>5. CASE mode[s] \in PasswordModes /\ user[s] = u
    BY <1>1, <1>6, <2>1, <2>4, <2>5, PassedRejections
  <2>6. CASE ~(mode[s] \in PasswordModes /\ user[s] = u)
    <3>1. InFlight(u)' \subseteq InFlight(u)
      BY <2>1, <2>2, <2>6 DEF InFlight
    <3>2. Open(u)' \subseteq Open(u)
      BY <2>1, <2>4, <3>1 DEF Open
    <3>3. QED
      BY <1>1, <1>4, <1>7, <2>1, <2>4, <2>6, <3>2, QuietRejections
  <2>7. QED
    BY <2>5, <2>6
<1>11. QED
  BY <1>8, <1>9, <1>10 DEF Handle

\* The KDC's answer to an attempt of u is the only rejection of u there is.
LEMMA KdcRejections ==
    ASSUME TypeOK, TypeOK', NEW u \in Users, RejectionsBounded(u), NEW s \in Slots, KdcAnswers(s)
    PROVE  RejectionsBounded(u)'
<1>1. /\ pc[s] = "running" /\ verdict[s] = "none" /\ mode[s] \in Modes /\ user[s] \in Users
      /\ state' = state /\ hidden' = hidden /\ now' = now /\ now \in Nat
      /\ pc' = pc /\ mode' = mode /\ user' = user
  BY DEF KdcAnswers, limiterVars, TypeOK, LimiterTypeOK
<1>2. PICK v : /\ verdict' = [verdict EXCEPT ![s] = v]
               /\ rejected' = IF v = "bad_secret" /\ mode[s] \in PasswordModes
                                THEN [rejected EXCEPT ![user[s]] = Latest(Append(@, now))]
                                ELSE rejected
  BY DEF KdcAnswers
<1>3. /\ verdict'[s] = v /\ s \notin Denied(u)
      /\ \A t \in Slots \ {s} : verdict'[t] = verdict[t]
  BY <1>1, <1>2 DEF Denied, TypeOK
<1>4. InFlight(u)' = InFlight(u) /\ InFlight(u) \subseteq Slots
  BY <1>1 DEF InFlight
<1>5. CASE v = "bad_secret" /\ mode[s] \in PasswordModes /\ user[s] = u
  <2>1. s \in InFlight(u)
    BY <1>1, <1>5 DEF InFlight
  <2>2. s \in Open(u)
    BY <1>3, <2>1 DEF Open
  <2>3. rejected'[u] = Latest(Append(rejected[u], now))
    BY <1>2, <1>5 DEF TypeOK
  <2>4. Denied(u)' = Denied(u) \cup {s}
    BY <1>3, <1>4, <1>5, <2>1 DEF Denied
  <2>5. Open(u)' = Open(u) \ {s}
    BY <1>4, <2>4 DEF Open
  <2>6. QED
    BY <1>1, <2>2, <2>3, <2>4, <2>5, RejectedAttempt
<1>6. CASE ~(v = "bad_secret" /\ mode[s] \in PasswordModes /\ user[s] = u)
  <2>1. rejected'[u] = rejected[u]
    BY <1>1, <1>2, <1>6 DEF TypeOK
  <2>2. s \in InFlight(u) => v # "bad_secret"
    BY <1>6 DEF InFlight
  <2>3. Denied(u)' = Denied(u)
    BY <1>3, <1>4, <2>2 DEF Denied
  <2>4. Open(u)' = Open(u) /\ now' >= now
    BY <1>1, <1>4, <2>3 DEF Open
  <2>5. QED
    BY <1>1, <2>1, <2>3, <2>4, QuietRejections
<1>7. QED
  BY <1>5, <1>6

\* A handler whose password the KDC rejected records the failure, unless the timeout
\* killed the child before it could say so; a success forgets every rejection
\* (app.py:268-269, 343-344, 567-568 and 600).
LEMMA ResumeRejections ==
    ASSUME TypeOK, TypeOK', ResultsReal, NEW u \in Users, RejectionsBounded(u),
           Ordered(state[u].failure_times), Remembered(rejected[u]), Remembered(hidden[u]),
           NEW s \in Slots, Resume(s)
    PROVE  RejectionsBounded(u)'
<1> DEFINE outcome == Outcome(mode[s], result[s])
           reply == ReplyTo(mode[s], outcome)
<1>1. /\ pc[s] = "exited" /\ mode[s] \in Modes /\ user[s] \in Users
      /\ result[s] \in Results(mode[s], verdict[s], Faults)
      /\ LimiterTypeOK
  BY DEF Resume, TypeOK, ResultsReal
<1>2. /\ Settle(s, outcome) /\ Answer(s, reply.code, reply.lines) /\ now' = now
      /\ rejected' = IF outcome = "ok" /\ mode[s] \in PasswordModes
                       THEN [rejected EXCEPT ![user[s]] = <<>>] ELSE rejected
      /\ hidden' = IF outcome = "ok" /\ mode[s] \in PasswordModes
                     THEN [hidden EXCEPT ![user[s]] = <<>>]
                     ELSE IF KilledRejected(s)
                       THEN [hidden EXCEPT ![user[s]] = Latest(Append(@, now))] ELSE hidden
  BY DEF Resume
<1>3. outcome = "BadPasswordError" => mode[s] \in PasswordModes
  BY <1>1, BadPasswordNeedsPassword
<1>4. mode[s] \in PasswordModes /\ verdict[s] = "bad_secret"
         => outcome = "BadPasswordError" \/ KilledRejected(s)
  BY <1>1, RefusalIsReported, RefusalIsBadPassword DEF KilledRejected
<1>4a. KilledRejected(s) => outcome = "MintingError"
  BY <1>1 DEF KilledRejected, Outcome, MintTicket, MintKeytab, RunError, PasswordModes
<1> HIDE DEF outcome, reply
<1>5. Denied(u)' = Denied(u) \ {s} /\ Open(u)' = Open(u) \ {s}
  BY <1>2, AnsweredAttempt
<1>6. now \in Nat /\ now' >= now
  BY <1>1, <1>2 DEF LimiterTypeOK
<1>7. CASE mode[s] \in PasswordModes /\ user[s] = u
  <2>1. CASE outcome = "BadPasswordError"
    <3>1. RecordFailure(u) /\ rejected' = rejected /\ hidden' = hidden
      BY <1>2, <1>4a, <1>7, <2>1 DEF Settle
    <3>2. QED
      BY <1>2, <1>5, <3>1, FailureRejections DEF Remembered
  <2>2. CASE outcome = "ok"
    <3>1. Reset(u)
      BY <1>2, <1>7, <2>2 DEF Settle
    <3>2. state'[u].locked_until = None
      BY <1>1, <3>1, ResetProperties, FreshProperties
    <3>3. rejected'[u] = <<>>
      BY <1>2, <1>7, <2>2 DEF TypeOK
    <3>4. QED
      BY <3>2, <3>3, ForgottenRejections
  <2>3. CASE outcome # "BadPasswordError" /\ outcome # "ok"
    <3>1. state' = state /\ rejected' = rejected
      BY <1>2, <2>3 DEF Settle
    <3>2. CASE KilledRejected(s)
      <4>1. hidden'[u] = Latest(Append(hidden[u], now))
        BY <1>2, <1>7, <2>3, <3>2 DEF TypeOK
      <4>2. QED
        BY <1>2, <1>5, <3>1, <4>1, HiddenRejection
    <3>3. CASE ~KilledRejected(s)
      <4>1. s \notin Denied(u) /\ hidden' = hidden
        BY <1>2, <1>4, <1>7, <2>3, <3>3 DEF Denied
      <4>2. QED
        BY <1>5, <1>6, <3>1, <4>1, QuietRejections
    <3>4. QED
      BY <3>2, <3>3
  <2>4. QED
    BY <2>1, <2>2, <2>3
<1>8. CASE ~(mode[s] \in PasswordModes /\ user[s] = u)
  <2>1. state'[u] = state[u]
    BY <1>2, <1>3, <1>8, OthersUntouched
  <2>2. rejected'[u] = rejected[u] /\ hidden'[u] = hidden[u]
    BY <1>1, <1>2, <1>8 DEF KilledRejected, TypeOK
  <2>3. s \notin Denied(u)
    BY <1>8 DEF Denied, InFlight
  <2>4. QED
    BY <1>5, <1>6, <2>1, <2>2, <2>3, QuietRejections
<1>9. QED
  BY <1>7, <1>8

\* Every step of the service keeps the bound.
LEMMA RejectionsStep ==
    ASSUME IInv, TypeOK', ResultsReal, NEW u \in Users, RejectionsBounded(u),
           Ordered(state[u].failure_times), Remembered(rejected[u]), Remembered(hidden[u]),
           [Next]_vars
    PROVE  RejectionsBounded(u)'
<1>1. TypeOK /\ QueueMatchesPc /\ now \in Nat /\ now' \in Nat /\ now' >= now
  BY ClockStep DEF IInv, TypeOK, LimiterTypeOK
<1>2. ASSUME InFlight(u)' = InFlight(u), UNCHANGED <<state, rejected, hidden>>,
             \A s \in InFlight(u) : verdict'[s] = verdict[s]
      PROVE  RejectionsBounded(u)'
  <2>1. Denied(u)' = Denied(u)
    BY <1>2 DEF Denied
  <2>2. Open(u)' = Open(u)
    BY <1>2, <2>1 DEF Open
  <2>3. QED
    BY <1>1, <1>2, <2>1, <2>2, QuietRejections
<1>3. ASSUME NEW s \in Slots, Arrive(s) \/ RejectBody(s) \/ Start(s) \/ SubprocessEnds(s)
      PROVE  RejectionsBounded(u)'
  <2>1. UNCHANGED <<state, rejected, hidden>> /\ verdict' = verdict
    BY <1>3 DEF Arrive, RejectBody, Start, SubprocessEnds, limiterVars
  <2>2. InFlight(u)' = InFlight(u)
    <3>1. CASE Arrive(s)
      BY <1>1, <3>1 DEF Arrive, InFlight, TypeOK
    <3>2. CASE RejectBody(s)
      BY <3>2 DEF RejectBody, InFlight
    <3>3. CASE Start(s)
      <4>1. pc[s] = "queued"
        BY <1>1, <3>3 DEF Start, QueueMatchesPc, TypeOK
      <4>2. QED
        BY <1>1, <3>3, <4>1 DEF Start, InFlight, TypeOK
    <3>4. CASE SubprocessEnds(s)
      BY <1>1, <3>4 DEF SubprocessEnds, InFlight, TypeOK
    <3>5. QED
      BY <1>3, <3>1, <3>2, <3>3, <3>4
  <2>3. QED
    BY <1>2, <2>1, <2>2
<1>4. CASE TimePasses \/ UNCHANGED vars
  <2>1. /\ UNCHANGED <<state, rejected, hidden>> /\ pc' = pc /\ mode' = mode /\ user' = user
        /\ verdict' = verdict
    BY <1>4 DEF TimePasses, vars, reqVars, limiterVars
  <2>2. InFlight(u)' = InFlight(u)
    BY <2>1 DEF InFlight
  <2>3. QED
    BY <1>2, <2>1, <2>2
<1>5. CASE Crash
  <2>1. rejected'[u] = <<>> /\ state'[u].locked_until = None
    BY <1>5, FreshProperties DEF Crash
  <2>2. QED
    BY <2>1, ForgottenRejections
<1>5a. ASSUME NEW v \in Users, StrayAnswers(v)
       PROVE  RejectionsBounded(u)'
  <2>1. /\ state' = state /\ now' = now /\ pc' = pc /\ mode' = mode /\ user' = user
        /\ verdict' = verdict /\ DOMAIN rejected = Users /\ DOMAIN hidden = Users
    BY <1>1, <1>5a DEF StrayAnswers, limiterVars, reqVars, TypeOK
  <2>2. InFlight(u)' = InFlight(u)
    BY <2>1 DEF InFlight
  <2>3. CASE rejected'[u] = rejected[u] /\ hidden'[u] = hidden[u]
    <3>1. Denied(u)' = Denied(u)
      BY <2>1, <2>2 DEF Denied
    <3>2. Open(u)' = Open(u)
      BY <2>2, <3>1 DEF Open
    <3>3. QED
      BY <1>1, <2>1, <2>3, <3>1, <3>2, QuietRejections
  <2>4. CASE /\ rejected'[u] = Latest(Append(rejected[u], now))
             /\ hidden'[u] = Latest(Append(hidden[u], now))
    <3>1. Denied(u)' = Denied(u)
      BY <2>1, <2>2 DEF Denied
    <3>2. Open(u)' = Open(u)
      BY <2>2, <3>1 DEF Open
    <3>3. QED
      BY <1>1, <2>1, <2>4, <3>1, <3>2, StrayRejection
  <2>5. \/ UNCHANGED <<rejected, hidden>>
        \/ /\ rejected' = [rejected EXCEPT ![v] = Latest(Append(@, now))]
           /\ hidden' = [hidden EXCEPT ![v] = Latest(Append(@, now))]
    BY <1>5a DEF StrayAnswers
  <2>6. QED
    BY <2>1, <2>3, <2>4, <2>5
<1>6. ASSUME NEW s \in Slots, Handle(s) \/ KdcAnswers(s) \/ Resume(s)
      PROVE  RejectionsBounded(u)'
  BY <1>1, <1>6, HandleRejections, KdcRejections, ResumeRejections
<1>7. QED
  BY <1>3, <1>4, <1>5, <1>5a, <1>6 DEF Next

\* However many requests race past check, however often a lockout runs out, whatever
\* the timeouts kill and whenever the KDC makes up its mind, it rejects the passwords of
\* no more than MaxAttempts requests for a username within one Span, two more for each
\* further slot, and those that are lost to the limiter, unless a mint for the username
\* succeeds or the process restarts (app.py:214-269 and 548-568).
THEOREM RejectionsStayBelowBudget == Spec => []RejectionBudget
<1> DEFINE Bounded == \A u \in Users : RejectionsBounded(u)
<1>1. Init /\ IInv => Bounded
  <2> SUFFICES ASSUME Init, IInv, NEW u \in Users
               PROVE  RejectionsBounded(u)
    OBVIOUS
  <2>1. rejected[u] = <<>> /\ state[u] = Fresh /\ TypeOK
    BY DEF Init, LimiterInit, IInv
  <2>2. Cardinality(Denied(u)) \in Nat /\ state[u].failure_times \in Seq(Nat)
        /\ hidden[u] \in Seq(Nat)
    BY <2>1, RejectionCounts
  <2>3. state[u].locked_until = None
    BY <2>1 DEF Fresh
  <2>4. QED
    BY <2>1, <2>2, <2>3, NothingRejected DEF RejectionsBounded
<1>2. IInv /\ TypeOK' /\ ResultsReal /\ AllOrdered /\ AllRemembered /\ Bounded /\ [Next]_vars
        => Bounded'
  BY RejectionsStep DEF AllOrdered, AllRemembered
<1>3. IInv /\ Bounded => RejectionBudget
  <2> SUFFICES ASSUME IInv, Bounded, NEW u \in Users
               PROVE  Cardinality(WithinSpan(rejected[u]))
                          <= MaxAttempts + 2 * (Cardinality(Slots) - 1)
                               + Cardinality(WithinSpan(hidden[u]))
    BY DEF RejectionBudget
  <2> DEFINE N == Cardinality(Slots)
             D == Cardinality(Denied(u))
             I == Cardinality(InFlight(u))
             R == Cardinality(Later(rejected[u], now - Span))
             H == Cardinality(Later(hidden[u], now - Span))
             F == Cardinality(Later(state[u].failure_times, now - Span))
             L == Len(state[u].failure_times)
  <2>1. /\ rejected[u] \in Seq(Nat) /\ hidden[u] \in Seq(Nat)
        /\ state[u].failure_times \in Seq(Nat)
        /\ now \in Nat /\ Span \in Nat /\ now - Span \in Int
        /\ N \in Nat /\ D \in Nat
    BY RejectionCounts DEF IInv
  <2>2. ASSUME NEW times \in Seq(Nat)
        PROVE  WithinSpan(times) = Later(times, now - Span)
    <3>1. \A i \in DOMAIN times : times[i] \in Nat
      OBVIOUS
    <3>2. \A i \in DOMAIN times : now - times[i] < Span <=> times[i] > now - Span
      BY <2>1, <3>1
    <3>3. QED
      BY <3>2, Zenon DEF Later, WithinSpan
  <2>3. R <= N - 1 + D + F + H
    <3>1. \A T \in Int : T >= now - Span =>
             Cardinality(Later(rejected[u], T))
                 <= Cardinality(Slots) - 1 + Cardinality(Denied(u))
                      + Cardinality(Later(state[u].failure_times, T))
                      + Cardinality(Later(hidden[u], T))
      BY DEF RejectionsBounded
    <3>2. PICK T \in Int : T = now - Span
      BY <2>1
    <3>3. T >= now - Span
      BY <2>1, <3>2
    <3>4. Cardinality(Later(rejected[u], T))
              <= N - 1 + D + Cardinality(Later(state[u].failure_times, T))
                   + Cardinality(Later(hidden[u], T))
      BY <3>1, <3>3
    <3>5. QED
      BY <3>2, <3>4
  <2>4. R \in Nat /\ H \in Nat /\ F \in Nat /\ L \in Nat /\ F <= L
    <3>1. \A T \in Int : /\ Cardinality(Later(rejected[u], T)) \in Nat
                        /\ Cardinality(Later(hidden[u], T)) \in Nat
                        /\ Cardinality(Later(state[u].failure_times, T)) \in Nat
                        /\ Cardinality(Later(state[u].failure_times, T)) <= L
      BY <2>1, LaterCount
    <3>2. L \in Nat
      BY <2>1
    <3> HIDE DEF L
    <3>3. QED
      BY <2>1, <3>1, <3>2
  <2>5. I \in Nat /\ D <= I
    <3>1. Denied(u) \in SUBSET InFlight(u) /\ InFlight(u) \in SUBSET Slots
      BY DEF Denied, InFlight
    <3>2. QED
      BY <3>1, SlotSets
  <2>6. L + I <= MaxAttempts - 1 + N
    BY DEF IInv, AttemptBudget
  <2> HIDE DEF N, D, I, R, H, F, L
  <2>7. R <= MaxAttempts + 2 * (N - 1) + H
    BY <2>1, <2>3, <2>4, <2>5, <2>6, LimiterAssumption
  <2>8. QED
    BY <2>1, <2>2, <2>7 DEF R, H, N
<1> HIDE DEF Bounded
<1>4. Spec => []Bounded
  BY <1>1, <1>2, Invariant, TypeCorrect, ResultsAreReal, TimesInOrder,
     TimesAreRemembered, PTL DEF Spec
<1>5. QED
  BY <1>3, <1>4, Invariant, PTL

----------------------------------------------------------------------------
(* The end of the race. *)

\* An attempt is in flight because its handler has just submitted it, or has been so
\* with the same credential (app.py:214-232 and 548-554).
LEMMA FlightBegins ==
    ASSUME TypeOK, QueueMatchesPc, [Next]_vars, NEW s \in Slots, NEW u \in Users,
           s \in InFlight(u)'
    PROVE  \/ s \in InFlight(u)
           \/ pc[s] = "verifying" /\ CheckPasses(u) /\ now' = now
<1>1. pc'[s] \in {"queued", "running", "exited"} /\ mode'[s] \in PasswordModes /\ user'[s] = u
  BY DEF InFlight
<1>2. ASSUME pc[s] \in {"queued", "running", "exited"}, mode'[s] = mode[s], user'[s] = user[s]
      PROVE  s \in InFlight(u)
  BY <1>1, <1>2 DEF InFlight
<1>3. ASSUME NEW t \in Slots, NEW code, NEW lines, Answer(t, code, lines)
      PROVE  s \in InFlight(u)
  <2>1. t # s
    BY <1>1, <1>3 DEF Answer, TypeOK
  <2>2. pc'[s] = pc[s] /\ mode'[s] = mode[s] /\ user'[s] = user[s]
    BY <1>3, <2>1 DEF Answer, TypeOK
  <2>3. QED
    BY <1>1, <1>2, <2>2
<1>4. ASSUME NEW t \in Slots, Submit(t)
      PROVE  \/ s \in InFlight(u)
             \/ pc[s] = "verifying" /\ CheckPasses(u) /\ now' = now
  <2>1. /\ pc[t] = "verifying" /\ pc' = [pc EXCEPT ![t] = "queued"] /\ now' = now
        /\ mode' = mode /\ user' = user /\ Checked(t)
    BY <1>4 DEF Submit
  <2>2. CASE t = s
    BY <1>1, <2>1, <2>2 DEF Checked
  <2>3. CASE t # s
    BY <1>1, <1>2, <2>1, <2>3 DEF TypeOK
  <2>4. QED
    BY <2>2, <2>3
<1>5. ASSUME NEW t \in Slots, Arrive(t)
      PROVE  s \in InFlight(u)
  <2>1. t # s
    BY <1>1, <1>5 DEF Arrive, TypeOK
  <2>2. QED
    BY <1>1, <1>2, <1>5, <2>1 DEF Arrive, TypeOK
<1>6. ASSUME NEW t \in Slots, Start(t)
      PROVE  s \in InFlight(u)
  <2>1. pc[t] = "queued"
    BY <1>6 DEF Start, QueueMatchesPc, TypeOK
  <2>2. QED
    BY <1>1, <1>2, <1>6, <2>1 DEF Start, TypeOK
<1>7. ASSUME NEW t \in Slots, RejectBody(t) \/ KdcAnswers(t) \/ SubprocessEnds(t)
      PROVE  s \in InFlight(u)
  BY <1>1, <1>2, <1>7 DEF RejectBody, KdcAnswers, SubprocessEnds, TypeOK
<1>8. CASE TimePasses \/ UNCHANGED vars
  BY <1>1, <1>2, <1>8 DEF TimePasses, vars, reqVars
<1>8a. ASSUME NEW v \in Users, StrayAnswers(v)
       PROVE  s \in InFlight(u)
  BY <1>1, <1>2, <1>8a DEF StrayAnswers, reqVars
<1>9. CASE Crash
  BY <1>1, <1>9 DEF Crash
<1>10. ASSUME NEW t \in Slots, Handle(t), ~Submit(t)
       PROVE  s \in InFlight(u)
  BY <1>3, <1>10 DEF Handle, VerifyFails, InvalidRequest, RateLimited, InvalidBlob,
                     MkdirFails, StageFails
<1>11. ASSUME NEW t \in Slots, Resume(t)
       PROVE  s \in InFlight(u)
  BY <1>3, <1>11 DEF Resume
<1>12. QED
  BY <1>4, <1>5, <1>6, <1>7, <1>8, <1>8a, <1>9, <1>10, <1>11 DEF Next

\* Not every slot has an attempt of u while a lockout is recorded for it.
RaceOver == \A u \in Users : state[u].locked_until # None => InFlight(u) # Slots

\* The failure that begins a lockout has left its slot, and no request of the username
\* passes check before the lockout has been noticed and forgotten: however many requests
\* raced past check, only those in the other slots can still reach the KDC
\* (app.py:214-216 and 546-548 against 269 and 568).
THEOREM OverrunEnds == Spec => []OverrunBounded
<1>1. Init => RaceOver
  BY FreshProperties DEF Init, LimiterInit, RaceOver
<1>2. IInv /\ RaceOver /\ [Next]_vars => RaceOver'
  <2> SUFFICES ASSUME IInv, RaceOver, [Next]_vars, NEW u \in Users,
                      state'[u].locked_until # None, InFlight(u)' = Slots
               PROVE  FALSE
    BY DEF RaceOver
  <2>1. TypeOK /\ QueueMatchesPc /\ LimiterTypeOK /\ EntryBounded(u)
    BY DEF IInv, TypeOK, EntriesBounded
  <2>2. ~CheckPasses(u)
    BY <2>1 DEF CheckPasses, Fresh, LimiterTypeOK
  <2>3. \A s \in Slots : s \in InFlight(u)
    BY <2>1, <2>2, FlightBegins
  <2>4. InFlight(u) = Slots
    BY <2>3 DEF InFlight
  <2>5. state[u].locked_until = None
    BY <2>4 DEF RaceOver
  <2>6. ~Crash
    BY FreshProperties DEF Crash
  <2>7. PICK s \in Slots : Settled(s, u)
    BY <2>1, <2>2, <2>5, <2>6, LimiterStep DEF EntryStep, PassedCheck
  <2>8. s \notin InFlight(u)'
    BY <2>7 DEF Settled, InFlight
  <2>9. QED
    BY <2>8
<1>3. RaceOver => OverrunBounded
  <2> SUFFICES ASSUME RaceOver, NEW u \in Users, state[u].locked_until # None
               PROVE  Cardinality(InFlight(u)) < Cardinality(Slots)
    BY DEF OverrunBounded
  <2>1. PICK s \in Slots : InFlight(u) \in SUBSET (Slots \ {s})
    BY DEF RaceOver, InFlight
  <2>2. /\ Cardinality(InFlight(u)) <= Cardinality(Slots) - 1
        /\ Cardinality(InFlight(u)) \in Nat /\ Cardinality(Slots) \in Nat
    BY <2>1, SlotSets
  <2>3. QED
    BY <2>2
<1>4. QED
  BY <1>1, <1>2, <1>3, Invariant, PTL DEF Spec
====
