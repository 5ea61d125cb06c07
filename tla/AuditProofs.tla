---- MODULE AuditProofs ----
(***************************************************************************)
(* Every answer TokenService gives leaves the audit lines its status calls *)
(* for, and no secret in the buffers of the request, for every set of      *)
(* slots and every failure of the environment.                             *)
(*                                                                         *)
(* The argument: a handler is silent until its only answer (Silent), so    *)
(* the lines of a request are those of that one answer; and it holds no    *)
(* secret before it has been verified.                                     *)
(***************************************************************************)
EXTENDS TokenServiceProofs

\* The audit lines that go with a status.
Coherent(code, lines) ==
    CASE code \in {0, 500} -> lines = <<>>
      [] code = 200 -> lines = <<"issued">>
      [] code = 502 -> lines = <<"error">>
      [] code = 422 -> lines \in {<<>>, <<"denied">>}
      [] OTHER -> lines = <<"denied">>

\* A request in progress has neither been answered nor audited.
Silent ==
    \A s \in Slots :
        /\ pc[s] # "idle" => status[s] = 0 /\ audit[s] = <<>>
        /\ pc[s] = "verifying" => buf[s] = "none"

AuditInv == Silent /\ AuditMatchesAnswer /\ BufferReleased

----------------------------------------------------------------------------
\* The except clauses pair each status with its audit outcome (app.py:268-613).
LEMMA RepliesCohere ==
    ASSUME NEW m, NEW outcome
    PROVE  Coherent(ReplyTo(m, outcome).code, ReplyTo(m, outcome).lines)
<1>1. Coherent(Uncaught.code, Uncaught.lines)
  BY DEF Coherent, Uncaught
<1>2. /\ Coherent(Reply(200, "issued").code, Reply(200, "issued").lines)
      /\ Coherent(Reply(502, "error").code, Reply(502, "error").lines)
      /\ \A code \in {400, 403, 422} :
            Coherent(Reply(code, "denied").code, Reply(code, "denied").lines)
  BY DEF Coherent, Reply
<1>3. Coherent(MintReply(outcome).code, MintReply(outcome).lines)
  BY <1>1, <1>2 DEF MintReply
<1>4. Coherent(RenewReply(outcome).code, RenewReply(outcome).lines)
  BY <1>1, <1>2 DEF RenewReply
<1>5. Coherent(KeytabReply(outcome).code, KeytabReply(outcome).lines)
  BY <1>1, <1>2 DEF KeytabReply
<1>6. QED
  BY <1>3, <1>4, <1>5 DEF ReplyTo

\* An answer is the first and only one of its request, so its lines are the
\* request's (app.py:92-115).
LEMMA AnswerAudit ==
    ASSUME TypeOK, AuditInv, NEW s \in Slots, NEW code \in Nat, NEW lines \in Lines,
           pc[s] # "idle", Answer(s, code, lines), Coherent(code, lines),
           \A t \in Slots \ {s} : buf'[t] = buf[t],
           buf'[s] # "held" \/ code = 500
    PROVE  AuditInv'
<1>1. audit[s] = <<>> /\ <<>> \o lines = lines
  BY ConcatEmptySeq DEF AuditInv, Silent, Lines
<1>2. pc'[s] = "idle" /\ status'[s] = code /\ audit'[s] = lines
  BY <1>1 DEF Answer, TypeOK
<1>3. \A t \in Slots \ {s} : pc'[t] = pc[t] /\ status'[t] = status[t] /\ audit'[t] = audit[t]
  BY DEF Answer, TypeOK
<1>4. Silent'
  BY <1>2, <1>3 DEF AuditInv, Silent
<1>5. AuditMatchesAnswer'
  BY <1>2, <1>3 DEF AuditInv, AuditMatchesAnswer, Coherent
<1>6. BufferReleased'
  BY <1>2, <1>3 DEF AuditInv, BufferReleased
<1>7. QED
  BY <1>4, <1>5, <1>6 DEF AuditInv

\* A step within a request changes neither its answer nor its audit lines.
LEMMA QuietAudit ==
    ASSUME TypeOK, AuditInv, NEW s \in Slots, NEW p \in PCs \ {"idle", "verifying"},
           pc[s] # "idle", pc' = [pc EXCEPT ![s] = p], UNCHANGED <<status, audit>>,
           \A t \in Slots \ {s} : buf'[t] = buf[t]
    PROVE  AuditInv'
<1>1. pc'[s] = p /\ \A t \in Slots \ {s} : pc'[t] = pc[t]
  BY DEF TypeOK
<1>2. QED
  BY <1>1 DEF AuditInv, Silent, AuditMatchesAnswer, BufferReleased

\* Nothing has been answered yet.
LEMMA InitAudit == Init => AuditInv
BY DEF Init, AuditInv, Silent, AuditMatchesAnswer, BufferReleased

\* What the others keep.
Unchanged(t) == pc'[t] = pc[t] /\ status'[t] = status[t] /\ audit'[t] = audit[t] /\ buf'[t] = buf[t]

\* A new request forgets the answer before it, and a refused body is answered
\* before any handler runs (app.py:56-67).
LEMMA ArrivalAudit ==
    ASSUME TypeOK, AuditInv, NEW s \in Slots, Arrive(s) \/ RejectBody(s)
    PROVE  AuditInv'
<1>1. CASE Arrive(s)
  <2>1. /\ pc'[s] = "verifying" /\ status'[s] = 0 /\ audit'[s] = <<>> /\ buf'[s] = "none"
        /\ \A t \in Slots \ {s} : Unchanged(t)
    BY <1>1 DEF Arrive, TypeOK, Unchanged
  <2>2. QED
    BY <2>1 DEF Unchanged, AuditInv, Silent, AuditMatchesAnswer, BufferReleased
<1>2. CASE RejectBody(s)
  <2>1. /\ pc'[s] = "idle" /\ status'[s] = 422 /\ audit'[s] = <<>> /\ buf'[s] = "none"
        /\ \A t \in Slots \ {s} : Unchanged(t)
    BY <1>2 DEF RejectBody, TypeOK, Unchanged
  <2>2. Silent' /\ BufferReleased'
    BY <2>1 DEF Unchanged, AuditInv, Silent, BufferReleased
  <2>3. AuditMatchesAnswer'
    BY <2>1 DEF Unchanged, AuditInv, AuditMatchesAnswer
  <2>4. QED
    BY <2>2, <2>3 DEF AuditInv
<1>3. QED
  BY <1>1, <1>2

\* The refusals and the staging errors of a handler (app.py:140-244).
LEMMA HandleAudit ==
    ASSUME TypeOK, AuditInv, NEW s \in Slots, Handle(s)
    PROVE  AuditInv'
<1> /\ pc[s] = "verifying" /\ buf[s] = "none"
  BY DEF Handle, VerifyFails, InvalidRequest, RateLimited, InvalidBlob, MkdirFails,
         StageFails, Submit, AuditInv, Silent
<1>1. /\ Coherent(401, <<"denied">>) /\ Coherent(422, <<"denied">>) /\ Coherent(429, <<"denied">>)
      /\ Coherent(502, <<"error">>) /\ Coherent(500, <<>>)
  BY DEF Coherent
<1> <<"denied">> \in Lines /\ <<"error">> \in Lines /\ <<>> \in Lines
  BY DEF Lines
<1>2. CASE VerifyFails(s) \/ InvalidRequest(s) \/ RateLimited(s) \/ InvalidBlob(s)
  <2>1. \/ Answer(s, 401, <<"denied">>) \/ Answer(s, 422, <<"denied">>)
        \/ Answer(s, 429, <<"denied">>) \/ Answer(s, 502, <<"error">>) \/ Answer(s, 500, <<>>)
    BY <1>2 DEF VerifyFails, InvalidRequest, RateLimited, InvalidBlob
  <2>2. buf' = buf
    BY <1>2 DEF VerifyFails, InvalidRequest, RateLimited, InvalidBlob
  <2>3. buf'[s] # "held" /\ pc[s] # "idle" /\ \A t \in Slots \ {s} : buf'[t] = buf[t]
    BY <2>2
  <2>4. ASSUME NEW code \in Nat, NEW lines \in Lines, Coherent(code, lines), Answer(s, code, lines)
        PROVE  AuditInv'
    BY <2>3, <2>4, AnswerAudit
  <2>5. CASE Answer(s, 401, <<"denied">>)
    BY <1>1, <2>4, <2>5
  <2>6. CASE Answer(s, 422, <<"denied">>)
    BY <1>1, <2>4, <2>6
  <2>7. CASE Answer(s, 429, <<"denied">>)
    BY <1>1, <2>4, <2>7
  <2>8. CASE Answer(s, 502, <<"error">>)
    BY <1>1, <2>4, <2>8
  <2>9. CASE Answer(s, 500, <<>>)
    BY <1>1, <2>4, <2>9
  <2>10. QED
    BY <2>1, <2>5, <2>6, <2>7, <2>8, <2>9
<1>3. CASE MkdirFails(s) \/ StageFails(s)
  <2>1. Answer(s, 500, <<>>) /\ \A t \in Slots \ {s} : buf'[t] = buf[t]
    BY <1>3 DEF MkdirFails, StageFails, TypeOK
  <2>2. Coherent(500, <<>>) /\ <<>> \in Lines /\ 500 \in Nat
    BY <1>1
  <2>3. \A code \in Nat, lines \in Lines :
           code = 500 /\ Coherent(code, lines) /\ Answer(s, code, lines) => AuditInv'
    BY <2>1, AnswerAudit
  <2>4. QED
    BY <2>1, <2>2, <2>3
<1>4. CASE Submit(s)
  <2>1. pc' = [pc EXCEPT ![s] = "queued"] /\ \A t \in Slots \ {s} : buf'[t] = buf[t]
    BY <1>4 DEF Submit, TypeOK
  <2>2. QED
    BY <1>4, <2>1, QuietAudit DEF Submit, PCs
<1>5. QED
  BY <1>2, <1>3, <1>4 DEF Handle

\* The handler that resumes has zeroed its secret and answers once
\* (minting.py:414-420, app.py:268-613).
LEMMA ResumeAudit ==
    ASSUME TypeOK, AuditInv, NEW s \in Slots, Resume(s)
    PROVE  AuditInv'
<1> DEFINE reply == ReplyTo(mode[s], Outcome(mode[s], result[s]))
<1>1. pc[s] # "idle" /\ Answer(s, reply.code, reply.lines)
  BY DEF Resume
<1>2. reply.code \in Nat /\ reply.lines \in Lines /\ Coherent(reply.code, reply.lines)
  BY ReplyType, RepliesCohere
<1>3. buf'[s] # "held" /\ \A t \in Slots \ {s} : buf'[t] = buf[t]
  BY DEF Resume, ZeroedSecret, TypeOK
<1> HIDE DEF reply
<1>4. QED
  BY <1>1, <1>2, <1>3, AnswerAudit

\* Every step keeps the audit trail and the buffers right.
LEMMA NextAudit == IInv /\ AuditInv /\ [Next]_vars => AuditInv'
<1> SUFFICES ASSUME IInv, AuditInv, [Next]_vars PROVE AuditInv'
  OBVIOUS
<1> TypeOK /\ QueueMatchesPc
  BY DEF IInv
<1>1. ASSUME NEW s \in Slots, Arrive(s) \/ RejectBody(s) PROVE AuditInv'
  BY <1>1, ArrivalAudit
<1>2. ASSUME NEW s \in Slots, Handle(s) PROVE AuditInv'
  BY <1>2, HandleAudit
<1>3. ASSUME NEW s \in Slots, Start(s) PROVE AuditInv'
  <2>1. pc[s] # "idle"
    BY <1>3 DEF Start, TypeOK, QueueMatchesPc
  <2>2. QED
    BY <1>3, <2>1, QuietAudit DEF Start, PCs
<1>4. ASSUME NEW s \in Slots, KdcAnswers(s) PROVE AuditInv'
  BY <1>4 DEF KdcAnswers, AuditInv, Silent, AuditMatchesAnswer, BufferReleased
<1>5. ASSUME NEW s \in Slots, SubprocessEnds(s) PROVE AuditInv'
  BY <1>5, QuietAudit DEF SubprocessEnds, PCs
<1>6. ASSUME NEW s \in Slots, Resume(s) PROVE AuditInv'
  BY <1>6, ResumeAudit
<1>6a. ASSUME NEW u \in Users, StrayAnswers(u) PROVE AuditInv'
  BY <1>6a DEF StrayAnswers, reqVars, AuditInv, Silent, AuditMatchesAnswer, BufferReleased
<1>7. ASSUME TimePasses \/ UNCHANGED vars PROVE AuditInv'
  BY <1>7 DEF TimePasses, vars, reqVars, AuditInv, Silent, AuditMatchesAnswer, BufferReleased
<1>8. ASSUME Crash PROVE AuditInv'
  BY <1>8 DEF Crash, AuditInv, Silent, AuditMatchesAnswer, BufferReleased
<1>9. QED
  BY <1>1, <1>2, <1>3, <1>4, <1>5, <1>6, <1>6a, <1>7, <1>8 DEF Next

----------------------------------------------------------------------------
\* Audit trail, answers and buffers stay right together.
LEMMA AuditInvariant == Spec => []AuditInv
<1>1. Init => AuditInv
  BY InitAudit
<1>2. IInv /\ AuditInv /\ [Next]_vars => AuditInv'
  BY NextAudit
<1>3. QED
  BY <1>1, <1>2, Invariant, PTL DEF Spec

\* An answered request has exactly the audit lines its status calls for, whatever
\* failed on the way (app.py:92-115).
THEOREM AuditsMatch == Spec => []AuditMatchesAnswer
<1>1. AuditInv => AuditMatchesAnswer
  BY DEF AuditInv
<1>2. QED
  BY <1>1, AuditInvariant, PTL

\* Only a 500 can leave a secret in a request's buffers (minting.py:337-340).
THEOREM BuffersAreReleased == Spec => []BufferReleased
<1>1. AuditInv => BufferReleased
  BY DEF AuditInv
<1>2. QED
  BY <1>1, AuditInvariant, PTL
====
