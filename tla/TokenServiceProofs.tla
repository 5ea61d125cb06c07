---- MODULE TokenServiceProofs ----
(***************************************************************************)
(* TokenService keeps its types, its work queue and the budget of failed   *)
(* attempts, for every set of slots and users and every setting of the     *)
(* limiter.                                                                *)
(*                                                                         *)
(* The budget is not inductive alone.  IInv adds the entry bound of each   *)
(* username (an unlocked list is short) and the queue: a worker must not   *)
(* start a request that is not in flight.                                  *)
(***************************************************************************)
EXTENDS TokenService, RateLimiterProofs

EntriesBounded == \A u \in Users : EntryBounded(u)

IInv == TypeOK /\ QueueMatchesPc /\ EntriesBounded /\ AttemptBudget

Lines == Seq({"issued", "denied", "error"})

----------------------------------------------------------------------------
(* The pure operators. *)

\* Whatever a coroutine raises, the handler's answer is a status and a list of
\* audit outcomes (the except clauses of app.py).
LEMMA ReplyType ==
    ASSUME NEW m, NEW outcome
    PROVE  ReplyTo(m, outcome).code \in Nat /\ ReplyTo(m, outcome).lines \in Lines
<1>1. /\ \A code \in Nat, o \in {"issued", "denied", "error"} :
            Reply(code, o).code \in Nat /\ Reply(code, o).lines \in Lines
      /\ Uncaught.code \in Nat /\ Uncaught.lines \in Lines
  BY DEF Reply, Uncaught, Lines
<1>2. MintReply(outcome).code \in Nat /\ MintReply(outcome).lines \in Lines
  BY <1>1 DEF MintReply
<1>3. RenewReply(outcome).code \in Nat /\ RenewReply(outcome).lines \in Lines
  BY <1>1 DEF RenewReply
<1>4. KeytabReply(outcome).code \in Nat /\ KeytabReply(outcome).lines \in Lines
  BY <1>1 DEF KeytabReply
<1>5. QED
  BY <1>2, <1>3, <1>4 DEF ReplyTo

\* Only a request that offers a password can end in BadPasswordError
\* (minting.py:217-272).
LEMMA BadPasswordNeedsPassword ==
    ASSUME NEW m \in Modes, NEW r, Outcome(m, r) = "BadPasswordError"
    PROVE  m \in PasswordModes
<1>1. CASE m = "keytab"
  <2>1. ExitError("keytab", r.stderr) # "BadPasswordError"
    BY DEF ExitError, Classify, ClassifyKeytab
  <2>2. MintTicket("keytab", r) # "BadPasswordError"
    BY <2>1 DEF MintTicket, RunError
  <2>3. QED
    BY <1>1, <2>2 DEF Outcome
<1>2. CASE m = "renew"
  <2>1. ExitError("renew", r.stderr) # "BadPasswordError"
    BY DEF ExitError, Classify, ClassifyRenew
  <2>2. RenewTicket(r) # "BadPasswordError"
    BY <2>1 DEF RenewTicket, RunError
  <2>3. QED
    BY <1>2, <2>2 DEF Outcome
<1>3. QED
  BY <1>1, <1>2 DEF Modes, PasswordModes

\* Whatever the KDC's verdict, what the child leaves on stderr is a set of the
\* markers minting.py looks for (minting.py:181-206).
LEMMA StderrType ==
    ASSUME NEW m, NEW v
    PROVE  Stderr(m, v) \subseteq SUBSET AllMarkers
BY DEF Stderr, AllMarkers

\* subprocess.run ends in one of the ways minting.py distinguishes.
LEMMA ResultsType ==
    ASSUME NEW m \in Modes, NEW v, NEW r \in Results(m, v, Faults)
    PROVE  r \in AllResults
<1>1. {{"other"}} \subseteq SUBSET AllMarkers /\ {{}} \subseteq SUBSET AllMarkers
  BY DEF AllMarkers
<1>2. \A texts : texts \subseteq SUBSET AllMarkers => FailedWith(texts) \subseteq AllResults
  BY DEF FailedWith, AllResults
<1>3. RaisedBy("oserror") \subseteq AllResults /\ RaisedBy("timeout") \subseteq AllResults
  BY <1>1 DEF RaisedBy, AllResults
<1>4. /\ ExitedZero({"good"}) \subseteq AllResults
      /\ ExitedZero({"missing", "empty", "unparsable"}) \subseteq AllResults
  BY <1>1 DEF ExitedZero, AllResults
<1>5. /\ FailedWith({{"other"}}) \subseteq AllResults
      /\ FailedWith(Stderr(m, v)) \subseteq AllResults
  BY <1>1, <1>2, StderrType
<1>6. QED
  BY <1>3, <1>4, <1>5 DEF Results

\* The last elements of a list of times are a list of times.
LEMMA LatestType ==
    ASSUME NEW list \in Seq(Nat)
    PROVE  Latest(list) \in Seq(Nat)
<1>1. Len(list) \in Nat /\ \A i \in 1..Len(list) : list[i] \in Nat
  OBVIOUS
<1>2. CASE Len(list) > MaxRejected
  <2>1. \A i \in (Len(list) - MaxRejected + 1)..Len(list) : list[i] \in Nat
    BY <1>1, <1>2, ServiceAssumption
  <2>2. QED
    BY <1>1, <1>2, <2>1, SubSeqProperties, ServiceAssumption DEF Latest
<1>3. QED
  BY <1>2 DEF Latest

\* The passwords that may still be rejected are counted, up to the bound.
LEMMA StrayCounts == \A n \in Nat : AtMostStrays(n) \in Nat /\ AtMostStrays(n + 1) \in Nat
BY ServiceAssumption DEF AtMostStrays

----------------------------------------------------------------------------
(* What one step of one request does to each part of IInv. *)

\* Sets of requests are finite, and one that loses a request is smaller: what the
\* counting of attempts in flight rests on (app.py:216 and 548).
LEMMA SlotSets ==
    ASSUME NEW T \in SUBSET Slots
    PROVE  /\ Cardinality(T) \in Nat
           /\ Cardinality(Slots) \in Nat
           /\ Cardinality(T) <= Cardinality(Slots)
           /\ \A R \in SUBSET T : Cardinality(R) \in Nat /\ Cardinality(R) <= Cardinality(T)
           /\ \A s \in T : \A R \in SUBSET (T \ {s}) : Cardinality(R) <= Cardinality(T) - 1
<1>1. IsFiniteSet(Slots) /\ IsFiniteSet(T)
  BY ServiceAssumption, FS_Subset
<1>2. /\ Cardinality(T) \in Nat
      /\ Cardinality(Slots) \in Nat
      /\ Cardinality(T) <= Cardinality(Slots)
  BY <1>1, FS_Subset, FS_CardinalityType
<1>3. \A R \in SUBSET T : Cardinality(R) \in Nat /\ Cardinality(R) <= Cardinality(T)
  BY <1>1, FS_Subset, FS_CardinalityType
<1>4. ASSUME NEW s \in T, NEW R \in SUBSET (T \ {s})
      PROVE  Cardinality(R) <= Cardinality(T) - 1
  <2>1. IsFiniteSet(T \ {s}) /\ Cardinality(T \ {s}) = Cardinality(T) - 1
    BY <1>1, <1>4, FS_RemoveElement
  <2>2. QED
    BY <1>4, <2>1, FS_Subset
<1>5. QED
  BY <1>2, <1>3, <1>4

\* The three ways a step may treat the budget of u: it leaves the list short of
\* the limit, it adds nothing, or it turns an attempt in flight into a failure.
BudgetKept(u) ==
    \/ Len(state'[u].failure_times) < MaxAttempts
    \/ /\ Len(state'[u].failure_times) <= Len(state[u].failure_times)
       /\ InFlight(u)' \subseteq InFlight(u)
    \/ /\ Len(state'[u].failure_times) <= Len(state[u].failure_times) + 1
       /\ \E s \in InFlight(u) : InFlight(u)' \subseteq InFlight(u) \ {s}

\* A step that treats every username in one of those three ways keeps the budget
\* (record_failure and reset, ratelimit.py:83-94).
LEMMA BudgetStep ==
    ASSUME TypeOK, AttemptBudget, state' \in [Users -> Entry],
           \A u \in Users : BudgetKept(u)
    PROVE  AttemptBudget'
<1> SUFFICES ASSUME NEW u \in Users
             PROVE  Len(state'[u].failure_times) + Cardinality(InFlight(u)')
                        <= MaxAttempts - 1 + Cardinality(Slots)
  BY DEF AttemptBudget
<1>1. InFlight(u) \in SUBSET Slots /\ InFlight(u)' \in SUBSET Slots
  BY DEF InFlight
<1>2. Len(state[u].failure_times) \in Nat /\ Len(state'[u].failure_times) \in Nat
  BY DEF TypeOK, LimiterTypeOK, Entry
<1>3. /\ Cardinality(InFlight(u)) \in Nat /\ Cardinality(InFlight(u)') \in Nat
      /\ Cardinality(Slots) \in Nat /\ Cardinality(InFlight(u)') <= Cardinality(Slots)
  BY <1>1, SlotSets
<1>4. Len(state[u].failure_times) + Cardinality(InFlight(u))
          <= MaxAttempts - 1 + Cardinality(Slots)
  BY DEF AttemptBudget
<1>5. CASE Len(state'[u].failure_times) < MaxAttempts
  BY <1>2, <1>3, <1>5, LimiterAssumption
<1>6. CASE /\ Len(state'[u].failure_times) <= Len(state[u].failure_times)
           /\ InFlight(u)' \subseteq InFlight(u)
  <2>1. Cardinality(InFlight(u)') <= Cardinality(InFlight(u))
    BY <1>1, <1>6, SlotSets
  <2>2. QED
    BY <1>2, <1>3, <1>4, <1>6, <2>1, LimiterAssumption
<1>7. CASE /\ Len(state'[u].failure_times) <= Len(state[u].failure_times) + 1
           /\ \E s \in InFlight(u) : InFlight(u)' \subseteq InFlight(u) \ {s}
  <2>1. Cardinality(InFlight(u)') <= Cardinality(InFlight(u)) - 1
    BY <1>1, <1>7, SlotSets
  <2>2. QED
    BY <1>2, <1>3, <1>4, <1>7, <2>1, LimiterAssumption
<1>8. QED
  BY <1>5, <1>6, <1>7 DEF BudgetKept

\* A request that neither enters nor leaves the executor's queue.
LEMMA QueueStep ==
    ASSUME TypeOK, QueueMatchesPc, NEW s \in Slots, NEW p,
           pc[s] # "queued", p # "queued", pc' = [pc EXCEPT ![s] = p], queue' = queue
    PROVE  QueueMatchesPc'
BY DEF QueueMatchesPc, TypeOK

\* Entries survive when the limiter's state does and time only moves on.
LEMMA EntriesStep ==
    ASSUME TypeOK, EntriesBounded, UNCHANGED state, now' \in Nat, now' >= now
    PROVE  EntriesBounded'
<1> SUFFICES ASSUME NEW u \in Users
             PROVE  EntryBounded(u)'
  BY DEF EntriesBounded
<1>1. /\ now \in Nat /\ Lockout \in Nat
      /\ state[u].locked_until \in Nat \cup {None}
      /\ EntryBounded(u)
  BY LimiterAssumption DEF TypeOK, LimiterTypeOK, Entry, EntriesBounded
<1>2. QED
  BY <1>1, LimiterAssumption DEF EntryBounded

\* Answering a request keeps the types of everything Answer writes.
LEMMA AnswerType ==
    ASSUME TypeOK, NEW s \in Slots, NEW code \in Nat, NEW lines \in Lines,
           Answer(s, code, lines)
    PROVE  /\ pc' \in [Slots -> PCs]
           /\ mode' \in [Slots -> Modes \cup {"none"}]
           /\ user' \in [Slots -> Users \cup {None}]
           /\ \A t \in Slots : pc'[t] # "idle" => mode'[t] \in Modes /\ user'[t] \in Users
           /\ verdict' \in [Slots -> AllVerdicts]
           /\ result' \in [Slots -> AllResults]
           /\ status' \in [Slots -> Nat]
           /\ audit' \in [Slots -> Lines]
           /\ queue' \in Seq(Slots)
           /\ crashes' \in Nat
<1>1. NoResult \in AllResults
  BY DEF NoResult, AllResults
<1>2. "idle" \in PCs /\ "none" \in AllVerdicts
  BY DEF PCs, AllVerdicts
<1>3. audit[s] \o lines \in Lines
  BY ConcatProperties DEF TypeOK, Lines
<1>4. /\ pc' \in [Slots -> PCs]
      /\ mode' \in [Slots -> Modes \cup {"none"}]
      /\ user' \in [Slots -> Users \cup {None}]
      /\ \A t \in Slots : pc'[t] # "idle" => mode'[t] \in Modes /\ user'[t] \in Users
  BY <1>2 DEF Answer, TypeOK
<1>5. verdict' \in [Slots -> AllVerdicts] /\ result' \in [Slots -> AllResults]
  BY <1>1, <1>2 DEF Answer, TypeOK
<1>6. status' \in [Slots -> Nat] /\ audit' \in [Slots -> Lines]
  BY <1>3 DEF Answer, TypeOK, Lines
<1>7. QED
  BY <1>4, <1>5, <1>6 DEF Answer, TypeOK

\* An answer takes its request out of flight and puts no other there.
LEMMA AnswerInFlight ==
    ASSUME TypeOK, NEW s \in Slots, NEW code, NEW lines, Answer(s, code, lines),
           NEW u \in Users
    PROVE  InFlight(u)' \subseteq InFlight(u) \ {s}
BY DEF Answer, InFlight, TypeOK

\* Consulting the limiter on behalf of a request.
LEMMA CheckedProperties ==
    ASSUME TypeOK, EntriesBounded, NEW s \in Slots, pc[s] = "verifying", Checked(s),
           now' = now
    PROVE  /\ state' \in [Users -> Entry]
           /\ EntriesBounded'
           /\ \A u \in Users :
                \/ state'[u] = state[u] /\ ~(mode[s] \in PasswordModes /\ user[s] = u)
                \/ Len(state'[u].failure_times) < MaxAttempts
<1>1. PICK u \in Users : u = user[s]
  BY DEF TypeOK
<1>2. CASE mode[s] \in PasswordModes
  <2>1. CheckPasses(u)
    BY <1>1, <1>2 DEF Checked
  <2>2. EntryBounded(u) /\ LimiterTypeOK
    BY DEF EntriesBounded, TypeOK
  <2>3. /\ state' \in [Users -> Entry]
        /\ Len(state'[u].failure_times) < MaxAttempts
        /\ \A v \in Users \ {u} : state'[v] = state[v]
        /\ EntryBounded(u)'
    BY <2>1, <2>2, CheckPassesProperties
  <2>4. \A v \in Users : EntryBounded(v)'
    BY <2>3 DEF EntriesBounded, EntryBounded
  <2>5. QED
    BY <1>1, <2>3, <2>4 DEF EntriesBounded
<1>3. CASE mode[s] \notin PasswordModes
  <2>1. UNCHANGED state
    BY <1>3 DEF Checked
  <2>2. EntriesBounded'
    BY <2>1 DEF EntriesBounded, EntryBounded
  <2>3. QED
    BY <1>3, <2>1, <2>2 DEF LimiterTypeOK, TypeOK
<1>4. QED
  BY <1>2, <1>3

\* Every answer: what the limiter did meanwhile must leave its entries bounded,
\* and may lengthen the list of u only if the request was in flight for u.
LEMMA AnswerInv ==
    ASSUME IInv, NEW s \in Slots, NEW code \in Nat, NEW lines \in Lines,
           pc[s] \in {"verifying", "exited"}, Answer(s, code, lines),
           now' = now, state' \in [Users -> Entry], EntriesBounded',
           buf' \in [Slots -> {"none", "held", "zeroed"}],
           rejected' \in [Users -> Seq(Nat)], hidden' \in [Users -> Seq(Nat)],
           strays' \in [Users -> Nat],
           \A u \in Users :
               \/ Len(state'[u].failure_times) < MaxAttempts
               \/ Len(state'[u].failure_times) <= Len(state[u].failure_times)
               \/ /\ s \in InFlight(u)
                  /\ Len(state'[u].failure_times) <= Len(state[u].failure_times) + 1
    PROVE  IInv'
<1>1. TypeOK /\ QueueMatchesPc /\ AttemptBudget
  BY DEF IInv
<1>2. TypeOK'
  BY <1>1, AnswerType DEF TypeOK, LimiterTypeOK, Lines
<1>3. QueueMatchesPc'
  BY <1>1, QueueStep DEF Answer
<1>4. \A u \in Users : InFlight(u)' \subseteq InFlight(u) \ {s}
  BY <1>1, AnswerInFlight
<1>5. \A u \in Users : BudgetKept(u)
  BY <1>4 DEF BudgetKept
<1>6. AttemptBudget'
  BY <1>1, <1>5, BudgetStep
<1>7. QED
  BY <1>2, <1>3, <1>6 DEF IInv

\* A refusal before the limiter changes anything.
LEMMA RefusalInv ==
    ASSUME IInv, NEW s \in Slots, NEW code \in Nat, NEW lines \in Lines,
           pc[s] = "verifying", Answer(s, code, lines),
           UNCHANGED <<limiterVars, buf, rejected, hidden, strays>>
    PROVE  IInv'
<1>1. TypeOK /\ EntriesBounded
  BY DEF IInv
<1>2. /\ state' = state /\ now' = now /\ buf' = buf
      /\ rejected' = rejected /\ hidden' = hidden /\ strays' = strays /\ now \in Nat
  BY <1>1 DEF limiterVars, TypeOK, LimiterTypeOK
<1>3. EntriesBounded'
  BY <1>1, <1>2, EntriesStep
<1>4. /\ state' \in [Users -> Entry]
      /\ buf' \in [Slots -> {"none", "held", "zeroed"}]
      /\ rejected' \in [Users -> Seq(Nat)] /\ hidden' \in [Users -> Seq(Nat)]
      /\ strays' \in [Users -> Nat]
  BY <1>1, <1>2 DEF TypeOK, LimiterTypeOK
<1>5. \A u \in Users : Len(state'[u].failure_times) <= Len(state[u].failure_times)
  BY <1>1, <1>2 DEF TypeOK, LimiterTypeOK, Entry
<1>6. QED
  BY <1>2, <1>3, <1>4, <1>5, AnswerInv

\* An OSError while the request is staged, after its check.
LEMMA StagingErrorInv ==
    ASSUME IInv, NEW s \in Slots, pc[s] = "verifying", Checked(s), Answer(s, 500, <<>>),
           NEW left \in {"none", "held", "zeroed"}, buf' = [buf EXCEPT ![s] = left],
           UNCHANGED <<now, rejected, hidden, strays>>
    PROVE  IInv'
<1>1. TypeOK /\ EntriesBounded
  BY DEF IInv
<1>2. /\ state' \in [Users -> Entry]
      /\ EntriesBounded'
      /\ \A u \in Users : state'[u] = state[u] \/ Len(state'[u].failure_times) < MaxAttempts
  BY <1>1, CheckedProperties
<1>3. /\ buf' \in [Slots -> {"none", "held", "zeroed"}]
      /\ rejected' \in [Users -> Seq(Nat)] /\ hidden' \in [Users -> Seq(Nat)]
      /\ strays' \in [Users -> Nat]
  BY <1>1 DEF TypeOK
<1>4. \A u \in Users : Len(state[u].failure_times) \in Nat
  BY <1>1 DEF TypeOK, LimiterTypeOK, Entry
<1>5. 500 \in Nat /\ <<>> \in Lines
  BY DEF Lines
<1>6. \A u \in Users :
         \/ Len(state'[u].failure_times) < MaxAttempts
         \/ Len(state'[u].failure_times) <= Len(state[u].failure_times)
  BY <1>2, <1>4
<1>7. QED
  BY <1>2, <1>3, <1>5, <1>6, AnswerInv

\* The last step of a handler: record_failure, reset or neither.
LEMMA ResumeInv ==
    ASSUME IInv, NEW s \in Slots, Resume(s)
    PROVE  IInv'
<1> DEFINE outcome == Outcome(mode[s], result[s])
           reply == ReplyTo(mode[s], outcome)
<1>1. TypeOK /\ EntriesBounded /\ LimiterTypeOK /\ pc[s] = "exited" /\ mode[s] \in Modes
  BY DEF IInv, TypeOK, Resume
<1>2. PICK u \in Users : u = user[s]
  BY <1>1 DEF TypeOK
<1>3. EntryBounded(u)
  BY <1>1 DEF EntriesBounded
<1>4. reply.code \in Nat /\ reply.lines \in Lines
  BY ReplyType
<1>5. Settle(s, outcome) /\ Answer(s, reply.code, reply.lines) /\ now' = now
  BY DEF Resume
<1>6. buf' \in [Slots -> {"none", "held", "zeroed"}]
  BY <1>1 DEF Resume, ZeroedSecret, TypeOK
<1>7. rejected' \in [Users -> Seq(Nat)] /\ hidden' \in [Users -> Seq(Nat)]
  <2>1. now \in Nat /\ hidden[user[s]] \in Seq(Nat)
    BY <1>1, <1>2 DEF TypeOK, LimiterTypeOK
  <2>2. Latest(Append(hidden[user[s]], now)) \in Seq(Nat)
    BY <2>1, AppendProperties, LatestType
  <2>3. rejected' \in [Users -> Seq(Nat)]
    BY <1>1 DEF Resume, TypeOK
  <2>4. QED
    BY <1>1, <2>2, <2>3 DEF Resume, TypeOK
<1>7a. strays' \in [Users -> Nat]
  BY <1>1, StrayCounts DEF Resume, TypeOK
<1>8. \A v \in Users : Len(state[v].failure_times) \in Nat
  BY <1>1 DEF LimiterTypeOK, Entry
<1>9. /\ state' \in [Users -> Entry]
      /\ EntriesBounded'
      /\ \A v \in Users :
           \/ Len(state'[v].failure_times) < MaxAttempts
           \/ Len(state'[v].failure_times) <= Len(state[v].failure_times)
           \/ /\ s \in InFlight(v)
              /\ Len(state'[v].failure_times) <= Len(state[v].failure_times) + 1
  <2>1. CASE outcome = "BadPasswordError"
    <3>1. RecordFailure(u)
      BY <1>2, <1>5, <2>1 DEF Settle
    <3>2. s \in InFlight(u)
      BY <1>1, <1>2, <2>1, BadPasswordNeedsPassword DEF InFlight
    <3>3. /\ state' \in [Users -> Entry]
          /\ Len(state'[u].failure_times) <= Len(state[u].failure_times) + 1
          /\ \A v \in Users \ {u} : state'[v] = state[v]
          /\ EntryBounded(u)'
      BY <1>1, <1>3, <1>5, <3>1, RecordFailureProperties
    <3>4. \A v \in Users : EntryBounded(v)'
      BY <1>1, <1>5, <3>3 DEF EntriesBounded, EntryBounded
    <3>5. QED
      BY <1>8, <3>2, <3>3, <3>4 DEF EntriesBounded
  <2>2. CASE outcome = "ok" /\ mode[s] \in PasswordModes
    <3>1. Reset(u)
      BY <1>2, <1>5, <2>2 DEF Settle
    <3>2. /\ state' \in [Users -> Entry]
          /\ state'[u] = Fresh
          /\ \A v \in Users \ {u} : state'[v] = state[v]
          /\ EntryBounded(u)'
      BY <1>1, <3>1, ResetProperties
    <3>3. \A v \in Users : EntryBounded(v)'
      BY <1>1, <1>5, <3>2 DEF EntriesBounded, EntryBounded
    <3>4. Len(state'[u].failure_times) = 0
      BY <3>2, FreshProperties
    <3>5. QED
      BY <1>8, <3>2, <3>3, <3>4 DEF EntriesBounded
  <2>3. CASE outcome # "BadPasswordError" /\ ~(outcome = "ok" /\ mode[s] \in PasswordModes)
    <3>1. state' = state
      BY <1>5, <2>3 DEF Settle
    <3>2. \A v \in Users : EntryBounded(v)'
      BY <1>1, <1>5, <3>1 DEF EntriesBounded, EntryBounded
    <3>3. QED
      BY <1>1, <1>8, <3>1, <3>2 DEF EntriesBounded, LimiterTypeOK
  <2>4. QED
    BY <2>1, <2>2, <2>3
<1>10. PICK code \in Nat, lines \in Lines : code = reply.code /\ lines = reply.lines
  BY <1>4
<1>11. Answer(s, code, lines)
  BY <1>5, <1>10
<1>12. QED
  BY <1>1, <1>5, <1>6, <1>7, <1>7a, <1>9, <1>11, AnswerInv

\* A step that leaves the limiter, the clock and the requests in flight as they
\* are: only the types and the queue are left to show.
LEMMA QuietInv ==
    ASSUME IInv, TypeOK', QueueMatchesPc', UNCHANGED limiterVars,
           \A u \in Users : InFlight(u)' \subseteq InFlight(u)
    PROVE  IInv'
<1>1. TypeOK /\ EntriesBounded /\ AttemptBudget /\ LimiterTypeOK
  BY DEF IInv, TypeOK
<1>2. state' = state /\ now' = now /\ now \in Nat
  BY <1>1 DEF limiterVars, LimiterTypeOK
<1>3. EntriesBounded'
  BY <1>1, <1>2, EntriesStep
<1>4. \A u \in Users : BudgetKept(u)
  BY <1>1, <1>2 DEF BudgetKept, LimiterTypeOK, Entry
<1>5. AttemptBudget'
  BY <1>1, <1>2, <1>4, BudgetStep DEF LimiterTypeOK
<1>6. QED
  BY <1>3, <1>5 DEF IInv

\* A new request only waits for its token: it is not in flight yet (app.py:128-156).
LEMMA ArriveInv ==
    ASSUME IInv, NEW s \in Slots, Arrive(s)
    PROVE  IInv'
<1>1. TypeOK /\ QueueMatchesPc
  BY DEF IInv
<1>2. PICK m \in Modes, u \in Users : /\ mode' = [mode EXCEPT ![s] = m]
                                      /\ user' = [user EXCEPT ![s] = u]
  BY ServiceAssumption DEF Arrive
<1>3. /\ pc[s] = "idle"
      /\ pc' = [pc EXCEPT ![s] = "verifying"]
      /\ buf' = [buf EXCEPT ![s] = "none"]
      /\ status' = [status EXCEPT ![s] = 0]
      /\ audit' = [audit EXCEPT ![s] = <<>>]
      /\ UNCHANGED <<limiterVars, verdict, result, queue, rejected, hidden, strays, crashes>>
  BY DEF Arrive
<1>4. TypeOK'
  BY <1>1, <1>2, <1>3 DEF TypeOK, LimiterTypeOK, limiterVars, PCs
<1>5. QueueMatchesPc'
  BY <1>1, <1>3, QueueStep
<1>6. \A v \in Users : InFlight(v)' \subseteq InFlight(v)
  BY <1>1, <1>2, <1>3 DEF InFlight, TypeOK
<1>7. QED
  BY <1>3, <1>4, <1>5, <1>6, QuietInv

\* A body FastAPI refuses reaches no handler (MintRequest, app.py:63-67).
LEMMA RejectBodyInv ==
    ASSUME IInv, NEW s \in Slots, RejectBody(s)
    PROVE  IInv'
<1>1. TypeOK /\ QueueMatchesPc
  BY DEF IInv
<1>2. TypeOK'
  BY <1>1 DEF RejectBody, TypeOK, LimiterTypeOK, limiterVars
<1>3. QueueMatchesPc' /\ \A v \in Users : InFlight(v)' \subseteq InFlight(v)
  BY <1>1 DEF RejectBody, QueueMatchesPc, InFlight
<1>4. QED
  BY <1>2, <1>3, QuietInv DEF RejectBody

\* The only step that puts a request in flight: its check has just passed, so the
\* list of its user is short again.
LEMMA SubmitInv ==
    ASSUME IInv, NEW s \in Slots, Submit(s)
    PROVE  IInv'
<1>1. TypeOK /\ QueueMatchesPc /\ EntriesBounded /\ AttemptBudget
  BY DEF IInv
<1>2. /\ pc[s] = "verifying" /\ Checked(s) /\ now' = now
      /\ buf' = [buf EXCEPT ![s] = Secret(s)]
      /\ pc' = [pc EXCEPT ![s] = "queued"]
      /\ queue' = Append(queue, s)
      /\ UNCHANGED <<mode, user, verdict, result, status, audit, rejected, hidden, strays, crashes>>
  BY DEF Submit
<1>3. /\ state' \in [Users -> Entry]
      /\ EntriesBounded'
      /\ \A u \in Users :
           \/ state'[u] = state[u] /\ ~(mode[s] \in PasswordModes /\ user[s] = u)
           \/ Len(state'[u].failure_times) < MaxAttempts
  BY <1>1, <1>2, CheckedProperties
<1>4. /\ queue' \in Seq(Slots)
      /\ Len(queue') = Len(queue) + 1
      /\ \A i \in 1..Len(queue) : queue'[i] = queue[i]
      /\ queue'[Len(queue) + 1] = s
      /\ DOMAIN queue = 1..Len(queue) /\ DOMAIN queue' = 1..Len(queue')
      /\ Len(queue) \in Nat
  BY <1>1, <1>2, AppendProperties DEF TypeOK
<1>5. TypeOK'
  <2>1. Secret(s) \in {"none", "held", "zeroed"}
    BY DEF Secret
  <2>2. QED
    BY <1>1, <1>2, <1>3, <1>4, <2>1 DEF TypeOK, LimiterTypeOK, PCs
<1>6. QueueMatchesPc'
  <2>1. \A i \in DOMAIN queue : queue[i] # s
    BY <1>1, <1>2 DEF QueueMatchesPc
  <2>2. \A i, j \in DOMAIN queue' : i # j => queue'[i] # queue'[j]
    BY <1>1, <1>4, <2>1 DEF QueueMatchesPc
  <2>3. \A i \in DOMAIN queue' : pc'[queue'[i]] = "queued"
    <3>1. pc'[s] = "queued" /\ \A t \in Slots : pc[t] = "queued" => pc'[t] = "queued"
      <4>1. pc \in [Slots -> PCs] /\ s \in Slots /\ pc' = [pc EXCEPT ![s] = "queued"]
        BY <1>1, <1>2 DEF TypeOK
      <4>2. QED
        BY <4>1
    <3>1a. \A i \in 1..Len(queue) : queue[i] \in Slots /\ pc[queue[i]] = "queued"
      <4>1. queue \in Seq(Slots)
        BY <1>1 DEF TypeOK
      <4>2. \A i \in 1..Len(queue) : queue[i] \in Slots
        BY <4>1
      <4>3. QED
        BY <1>1, <1>4, <4>2 DEF QueueMatchesPc
    <3>2. ASSUME NEW i \in DOMAIN queue'
          PROVE  i \in 1..Len(queue) \/ i = Len(queue) + 1
      BY <1>4
    <3>3. QED
      BY <1>4, <3>1, <3>1a, <3>2
  <2>4. ASSUME NEW t \in Slots, pc'[t] = "queued"
        PROVE  \E i \in DOMAIN queue' : queue'[i] = t
    <3>1. CASE t = s
      <4>1. Len(queue) + 1 \in DOMAIN queue'
        BY <1>4
      <4>2. QED
        BY <1>4, <3>1, <4>1
    <3>2. CASE t # s
      <4>1. PICK k \in DOMAIN queue : queue[k] = t
        BY <1>1, <1>2, <2>4, <3>2 DEF QueueMatchesPc, TypeOK
      <4>2. k \in DOMAIN queue' /\ queue'[k] = t
        BY <1>4, <4>1
      <4>3. QED
        BY <4>2
    <3>3. QED
      BY <3>1, <3>2
  <2>5. QED
    BY <2>2, <2>3, <2>4 DEF QueueMatchesPc
<1>7. \A u \in Users : BudgetKept(u)
  <2>1. \A u \in Users : (mode[s] \in PasswordModes /\ user[s] = u)
                          \/ InFlight(u)' \subseteq InFlight(u)
    BY <1>1, <1>2 DEF InFlight, TypeOK
  <2>2. \A u \in Users : Len(state[u].failure_times) \in Nat
    BY <1>1 DEF TypeOK, LimiterTypeOK, Entry
  <2>3. QED
    BY <1>3, <2>1, <2>2 DEF BudgetKept
<1>8. AttemptBudget'
  BY <1>1, <1>3, <1>7, BudgetStep
<1>9. QED
  BY <1>3, <1>5, <1>6, <1>8 DEF IInv

\* A worker takes the oldest work item and no other (_run_subprocess,
\* minting.py:291-303).
LEMMA StartInv ==
    ASSUME IInv, NEW s \in Slots, Start(s)
    PROVE  IInv'
<1>1. TypeOK /\ QueueMatchesPc
  BY DEF IInv
<1>2. /\ queue # <<>> /\ s = Head(queue)
      /\ pc' = [pc EXCEPT ![s] = "running"]
      /\ queue' = Tail(queue)
      /\ UNCHANGED <<limiterVars, mode, user, verdict, result, buf, status, audit, rejected, hidden, strays, crashes>>
  BY DEF Start
<1>3. /\ queue \in Seq(Slots) /\ queue' \in Seq(Slots)
      /\ Len(queue) \in Nat \ {0} /\ Len(queue') = Len(queue) - 1
      /\ \A i \in 1..Len(queue') : queue'[i] = queue[i + 1]
      /\ DOMAIN queue = 1..Len(queue) /\ DOMAIN queue' = 1..Len(queue')
      /\ queue[1] = s
  BY <1>1, <1>2, HeadTailProperties DEF TypeOK
<1>4. pc[s] = "queued" /\ \A i \in DOMAIN queue : queue[i] = s => i = 1
  BY <1>1, <1>3 DEF QueueMatchesPc
<1>5. TypeOK'
  BY <1>1, <1>2, <1>3, <1>4 DEF TypeOK, LimiterTypeOK, limiterVars, PCs
<1>6. QueueMatchesPc'
  <2>1. \A i \in DOMAIN queue' : i + 1 \in DOMAIN queue /\ i + 1 # 1
    BY <1>3
  <2>2. \A i, j \in DOMAIN queue' : i # j => queue'[i] # queue'[j]
    <3>1. \A i, j \in DOMAIN queue' : i # j => i + 1 # j + 1
      BY <1>3
    <3>2. QED
      BY <1>1, <1>3, <2>1, <3>1 DEF QueueMatchesPc
  <2>3. \A i \in DOMAIN queue' : pc'[queue'[i]] = "queued"
    BY <1>1, <1>2, <1>3, <1>4, <2>1 DEF QueueMatchesPc, TypeOK
  <2>4. ASSUME NEW t \in Slots, pc'[t] = "queued"
        PROVE  \E i \in DOMAIN queue' : queue'[i] = t
    <3>1. t # s /\ pc[t] = "queued"
      BY <1>1, <1>2, <2>4 DEF TypeOK
    <3>2. PICK k \in DOMAIN queue : queue[k] = t
      BY <1>1, <3>1 DEF QueueMatchesPc
    <3>3. k - 1 \in DOMAIN queue' /\ (k - 1) + 1 = k
      BY <1>3, <3>1, <3>2
    <3>4. QED
      BY <1>3, <3>2, <3>3
  <2>5. QED
    BY <2>2, <2>3, <2>4 DEF QueueMatchesPc
<1>7. \A v \in Users : InFlight(v)' \subseteq InFlight(v)
  BY <1>1, <1>2, <1>4 DEF InFlight, TypeOK
<1>8. QED
  BY <1>2, <1>5, <1>6, <1>7, QuietInv

\* The KDC's answer reaches the child, not yet the service (minting.py:295-302).
LEMMA KdcAnswersInv ==
    ASSUME IInv, NEW s \in Slots, KdcAnswers(s)
    PROVE  IInv'
<1>1. TypeOK /\ QueueMatchesPc
  BY DEF IInv
<1>2. PICK v \in KdcVerdicts(mode[s]) :
         /\ verdict' = [verdict EXCEPT ![s] = v]
         /\ rejected' = IF v = "bad_secret" /\ mode[s] \in PasswordModes
                          THEN [rejected EXCEPT ![user[s]] = Latest(Append(@, now))]
                          ELSE rejected
  BY DEF KdcAnswers
<1>3. /\ pc[s] = "running"
      /\ UNCHANGED <<limiterVars, pc, mode, user, result, buf, status, audit, queue, hidden, strays, crashes>>
  BY DEF KdcAnswers
<1>4. v \in AllVerdicts
  BY <1>1, <1>2, <1>3 DEF TypeOK, AllVerdicts
<1>5. rejected' \in [Users -> Seq(Nat)]
  <2>1. user[s] \in Users /\ now \in Nat
    BY <1>1, <1>3 DEF TypeOK, LimiterTypeOK
  <2>2. Append(rejected[user[s]], now) \in Seq(Nat)
    BY <1>1, <2>1, AppendProperties DEF TypeOK
  <2>3. Latest(Append(rejected[user[s]], now)) \in Seq(Nat)
    BY <2>2, LatestType
  <2>4. QED
    BY <1>1, <1>2, <2>3 DEF TypeOK
<1>6. TypeOK'
  BY <1>1, <1>2, <1>3, <1>4, <1>5 DEF TypeOK, LimiterTypeOK, limiterVars
<1>7. QueueMatchesPc' /\ \A u \in Users : InFlight(u)' \subseteq InFlight(u)
  BY <1>1, <1>3 DEF QueueMatchesPc, InFlight
<1>8. QED
  BY <1>3, <1>6, <1>7, QuietInv

\* The end of the subprocess leaves the attempt in flight until its handler runs
\* (_run_subprocess, minting.py:293-314).
LEMMA SubprocessEndsInv ==
    ASSUME IInv, NEW s \in Slots, SubprocessEnds(s)
    PROVE  IInv'
<1>1. TypeOK /\ QueueMatchesPc
  BY DEF IInv
<1>2. PICK r \in Results(mode[s], verdict[s], Faults) : result' = [result EXCEPT ![s] = r]
  BY DEF SubprocessEnds
<1>3. /\ pc[s] = "running"
      /\ pc' = [pc EXCEPT ![s] = "exited"]
      /\ UNCHANGED <<limiterVars, mode, user, verdict, buf, status, audit, queue, rejected, hidden, strays, crashes>>
  BY DEF SubprocessEnds
<1>4. r \in AllResults
  BY <1>1, <1>2, <1>3, ResultsType DEF TypeOK
<1>5. TypeOK'
  BY <1>1, <1>2, <1>3, <1>4 DEF TypeOK, LimiterTypeOK, limiterVars, PCs
<1>6. QueueMatchesPc'
  BY <1>1, <1>3, QueueStep
<1>7. \A v \in Users : InFlight(v)' \subseteq InFlight(v)
  BY <1>1, <1>3 DEF InFlight, TypeOK
<1>8. QED
  BY <1>3, <1>5, <1>6, <1>7, QuietInv

\* A late answer of the KDC reaches no request and no limiter entry
\* (_run_subprocess, minting.py:307-314).
LEMMA StrayAnswersInv ==
    ASSUME IInv, NEW u \in Users, StrayAnswers(u)
    PROVE  IInv'
<1>1. TypeOK /\ QueueMatchesPc /\ now \in Nat
  BY DEF IInv, TypeOK, LimiterTypeOK
<1>2. /\ strays[u] > 0 /\ strays' = [strays EXCEPT ![u] = @ - 1]
      /\ UNCHANGED <<limiterVars, reqVars, queue, crashes>>
  BY DEF StrayAnswers
<1>3. strays' \in [Users -> Nat]
  BY <1>1, <1>2 DEF TypeOK
<1>4. /\ Latest(Append(rejected[u], now)) \in Seq(Nat)
      /\ Latest(Append(hidden[u], now)) \in Seq(Nat)
  BY <1>1, AppendProperties, LatestType DEF TypeOK
<1>5. rejected' \in [Users -> Seq(Nat)] /\ hidden' \in [Users -> Seq(Nat)]
  BY <1>1, <1>4 DEF StrayAnswers, TypeOK
<1>6. TypeOK'
  BY <1>1, <1>2, <1>3, <1>5 DEF TypeOK, LimiterTypeOK, limiterVars, reqVars
<1>7. QueueMatchesPc' /\ \A v \in Users : InFlight(v)' \subseteq InFlight(v)
  BY <1>1, <1>2 DEF QueueMatchesPc, InFlight, reqVars
<1>8. QED
  BY <1>2, <1>6, <1>7, QuietInv

\* Time alone moves no request and no limiter entry (time.monotonic, ratelimit.py:63).
LEMMA TimePassesInv ==
    ASSUME IInv, TimePasses
    PROVE  IInv'
<1>1. TypeOK /\ QueueMatchesPc /\ EntriesBounded /\ AttemptBudget /\ now \in Nat
  BY DEF IInv, TypeOK, LimiterTypeOK
<1>2. /\ now' = now + 1
      /\ UNCHANGED <<state, pc, mode, user, verdict, result, buf, status, audit,
                     queue, rejected, hidden, strays, crashes>>
  BY DEF TimePasses, Tick, reqVars
<1>3. TypeOK'
  BY <1>1, <1>2 DEF TypeOK, LimiterTypeOK
<1>4. QueueMatchesPc' /\ AttemptBudget'
  BY <1>1, <1>2 DEF QueueMatchesPc, AttemptBudget, InFlight
<1>5. EntriesBounded'
  BY <1>1, <1>2, EntriesStep
<1>6. QED
  BY <1>3, <1>4, <1>5 DEF IInv

\* A state with nothing in flight and a fresh limiter.
LEMMA BlankInv ==
    ASSUME TypeOK, state = [u \in Users |-> Fresh], pc = [s \in Slots |-> "idle"],
           queue = <<>>
    PROVE  IInv
<1>1. QueueMatchesPc
  BY DEF QueueMatchesPc
<1>2. EntriesBounded
  BY FreshProperties, LimiterAssumption DEF EntriesBounded, EntryBounded
<1>3. AttemptBudget
  <2> SUFFICES ASSUME NEW u \in Users
               PROVE  Len(state[u].failure_times) + Cardinality(InFlight(u))
                          <= MaxAttempts - 1 + Cardinality(Slots)
    BY DEF AttemptBudget
  <2>1. InFlight(u) \in SUBSET Slots
    BY DEF InFlight
  <2>2. Len(state[u].failure_times) = 0
    BY FreshProperties
  <2>3. QED
    BY <2>1, <2>2, SlotSets, LimiterAssumption
<1>4. QED
  BY <1>1, <1>2, <1>3 DEF IInv

\* The application starts with an empty limiter (create_app, app.py:661-665).
LEMMA InitInv == Init => IInv
<1> SUFFICES ASSUME Init
             PROVE  IInv
  OBVIOUS
<1>1. NoResult \in AllResults /\ "idle" \in PCs /\ "none" \in AllVerdicts
  BY DEF NoResult, AllResults, PCs, AllVerdicts
<1>2. TypeOK
  BY <1>1, FreshProperties DEF Init, LimiterInit, TypeOK, LimiterTypeOK
<1>3. QED
  BY <1>2, BlankInv DEF Init, LimiterInit

\* A restart leaves nothing in flight and an empty limiter (RateLimiter.__init__,
\* ratelimit.py:57-69).
LEMMA CrashInv ==
    ASSUME IInv, Crash
    PROVE  IInv'
<1>1. NoResult \in AllResults /\ "idle" \in PCs /\ "none" \in AllVerdicts
  BY DEF NoResult, AllResults, PCs, AllVerdicts
<1>2. TypeOK
  BY DEF IInv
<1>2a. strays' \in [Users -> Nat]
  <2>1. ASSUME NEW u \in Users
        PROVE  AtMostStrays(strays[u]
                              + Cardinality({s \in Slots : user[s] = u /\ Unanswered(s)})) \in Nat
    <3> DEFINE late == {s \in Slots : user[s] = u /\ Unanswered(s)}
    <3>1. Cardinality(late) \in Nat /\ strays[u] \in Nat
      <4>1. late \in SUBSET Slots
        OBVIOUS
      <4>2. QED
        BY <1>2, <4>1, SlotSets DEF TypeOK
    <3> HIDE DEF late
    <3>2. strays[u] + Cardinality(late) \in Nat
      BY <3>1
    <3>3. QED
      BY <3>2, StrayCounts DEF late
  <2>2. QED
    BY <2>1 DEF Crash
<1>3. TypeOK'
  BY <1>1, <1>2, <1>2a, FreshProperties DEF Crash, TypeOK, LimiterTypeOK
<1>4. /\ state' = [u \in Users |-> Fresh]
      /\ pc' = [s \in Slots |-> "idle"]
      /\ queue' = <<>>
  BY DEF Crash
<1>5. (TypeOK /\ state = [u \in Users |-> Fresh] /\ pc = [s \in Slots |-> "idle"]
         /\ queue = <<>> => IInv)'
  BY BlankInv, PTL
<1>6. QED
  BY <1>3, <1>4, <1>5

----------------------------------------------------------------------------
(* The invariant, and what follows from it. *)

\* Every step of a handler, a worker, the KDC or the clock keeps the invariant
\* (app.py:128-613).
LEMMA NextInv ==
    ASSUME IInv, [Next]_vars
    PROVE  IInv'
<1>1. /\ 401 \in Nat /\ 422 \in Nat /\ 429 \in Nat /\ 500 \in Nat /\ 502 \in Nat
      /\ <<>> \in Lines /\ <<"denied">> \in Lines /\ <<"error">> \in Lines
  BY DEF Lines
<1>2. ASSUME NEW s \in Slots, Handle(s)
      PROVE  IInv'
  <2>1. CASE VerifyFails(s)
    BY <1>1, <2>1, RefusalInv DEF VerifyFails
  <2>2. CASE InvalidRequest(s)
    BY <1>1, <2>2, RefusalInv DEF InvalidRequest
  <2>3. CASE RateLimited(s)
    BY <1>1, <2>3, RefusalInv DEF RateLimited
  <2>4. CASE InvalidBlob(s)
    BY <1>1, <2>4, RefusalInv DEF InvalidBlob
  <2>5. CASE MkdirFails(s)
    <3>1. PICK left \in {"none", "held", "zeroed"} : left = Secret(s)
      BY DEF Secret
    <3>2. QED
      BY <2>5, <3>1, StagingErrorInv DEF MkdirFails
  <2>6. CASE StageFails(s)
    <3>1. PICK left \in {"none", "held", "zeroed"} : left = ZeroedSecret(s)
      BY DEF ZeroedSecret
    <3>2. QED
      BY <2>6, <3>1, StagingErrorInv DEF StageFails
  <2>7. CASE Submit(s)
    BY <2>7, SubmitInv
  <2>8. QED
    BY <1>2, <2>1, <2>2, <2>3, <2>4, <2>5, <2>6, <2>7 DEF Handle
<1>3. CASE UNCHANGED vars
  BY <1>3 DEF vars, limiterVars, reqVars, IInv, TypeOK, LimiterTypeOK, QueueMatchesPc,
              EntriesBounded, EntryBounded, AttemptBudget, InFlight
<1>4. QED
  BY <1>2, <1>3, ArriveInv, RejectBodyInv, StartInv, KdcAnswersInv, SubprocessEndsInv,
     ResumeInv, StrayAnswersInv, TimePassesInv, CrashInv DEF Next

\* The inductive invariant of the service: types, work queue, entry bound and
\* attempt budget hold together in every execution (app.py:128-613).
THEOREM Invariant == Spec => []IInv
<1>1. Init => IInv
  BY InitInv
<1>2. IInv /\ [Next]_vars => IInv'
  BY NextInv
<1>3. QED
  BY <1>1, <1>2, PTL DEF Spec

\* Every variable keeps its type in every execution of the service.
THEOREM TypeCorrect == Spec => []TypeOK
<1>1. IInv => TypeOK
  BY DEF IInv
<1>2. QED
  BY <1>1, Invariant, PTL

\* The executor's queue and the requests that wait for it agree at all times
\* (_run_subprocess, minting.py:291-303).
THEOREM QueueCorrect == Spec => []QueueMatchesPc
<1>1. IInv => QueueMatchesPc
  BY DEF IInv
<1>2. QED
  BY <1>1, Invariant, PTL

\* A full list of failures is always locked (record_failure, ratelimit.py:83-91).
THEOREM UnlockedIsShort == Spec => []UnlockedBelowLimit
<1>1. IInv => UnlockedBelowLimit
  BY DEF IInv, EntriesBounded, EntryBounded, UnlockedBelowLimit
<1>2. QED
  BY <1>1, Invariant, PTL

\* However many requests race past check, the failures recorded for a username
\* and the attempts still in flight exceed MaxAttempts - 1 by no more than the
\* number of slots (app.py:214-269 and 548-568).
THEOREM AttemptsBounded == Spec => []AttemptBudget
<1>1. IInv => AttemptBudget
  BY DEF IInv
<1>2. QED
  BY <1>1, Invariant, PTL
====
