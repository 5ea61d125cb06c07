---- MODULE WorkspaceProofs ----
(***************************************************************************)
(* Proofs about Workspace, for any number of slots and attempts.           *)
(*                                                                         *)
(* The argument: a directory belongs to one attempt for ever (IdsOK), all  *)
(* its files were written by that attempt's own processes (FilesOK), the   *)
(* only process that can write into it once the subprocess has been reaped *)
(* is the orphan of a bootstrap that timed out (OrphansOK), so the file    *)
(* that is read after exit 0 is the child's, or the one a renewal staged   *)
(* (ExitOK), and what rmtree leaves is the orphan's (EmptiedOK).           *)
(***************************************************************************)
EXTENDS Workspace, TLAPS

\* Attempts are numbered once, and a request in progress has one of its own.
IdsOK ==
    /\ dirs \subseteq 1..attempts
    /\ \A s \in Live : /\ id[s] \in 1..attempts
                       /\ mode[s] \in Modes
                       /\ id[s] \notin lost
    /\ \A s, t \in Live : s # t => id[s] # id[t]

\* A file's writer is the attempt its directory was made for, and a ccache holds the
\* TGT of its origin or none.
FilesOK ==
    \A f \in files :
        /\ f.by = f.dir
        /\ f.from = "child" /\ f.name = "ccache" => f.creds \in Caches(f.by)
        /\ f.from = "caller" => f.creds \in Caches(0)

\* An orphan's request, while in progress, has timed out.
OrphansOK ==
    \A n \in orphans :
        /\ n \in 1..attempts
        /\ \A s \in Live : id[s] = n => pc[s] # "running" /\ exit[s] = "failed"

\* Until exit 0 is answered the output is the child's, or what a renewal staged.
ExitOK ==
    \A s \in Slots :
        pc[s] = "running" \/ (pc[s] = "exited" /\ exit[s] = "exit0") =>
            \A f \in Output(s) :
                f.from = "child" \/ (f.from = "caller" /\ mode[s] = "renew")

\* What is in a directory rmtree has emptied came from an orphan.
EmptiedOK ==
    \A s \in Slots : pc[s] = "emptied" => \A f \in FilesOf(s) : f.from = "orphan"

\* The inductive invariant.
IInv ==
    /\ TypeOK
    /\ IdsOK
    /\ FilesOK
    /\ OrphansOK
    /\ ExitOK
    /\ EmptiedOK
    /\ NothingLeftBehind
    /\ AnswersOwnOutput

----------------------------------------------------------------------------
(* The pure operators. *)

\* read_ccache finds the attempt's own TGT wherever kinit put it, or none
\* (ccache.py:70-88).
LEMMA ReadCcacheFinds ==
    ASSUME NEW n \in Nat, NEW creds \in Caches(n)
    PROVE  ReadCcache(creds) \in {n, None}
<1> DEFINE found == {i \in DOMAIN creds : creds[i].server = "krbtgt"}
           first == CHOOSE i \in found : \A j \in found : i <= j
<1>1. CASE found = {}
  BY <1>1 DEF ReadCcache
<1>2. CASE found # {}
  <2>1. \E k \in 1..3 : found = {k} /\ creds[k].endtime = n
    <3>1. CASE creds = <<Tgt(n)>>
      <4>1. found = {1} /\ creds[1].endtime = n
        BY <3>1 DEF Tgt
      <4>2. QED
        BY <4>1
    <3>2. CASE creds = <<Config, Tgt(n)>>
      <4>1. found = {2} /\ creds[2].endtime = n
        BY <3>2 DEF Config, Tgt
      <4>2. QED
        BY <4>1
    <3>3. CASE creds = <<Cross(n), Config, Tgt(n)>>
      <4>1. DOMAIN creds = 1..3 /\ creds[1] = Cross(n) /\ creds[2] = Config /\ creds[3] = Tgt(n)
        BY <3>3
      <4>2. /\ creds[1].server # "krbtgt"
            /\ creds[2].server # "krbtgt"
            /\ creds[3].server = "krbtgt"
        BY <4>1 DEF Cross, Config, Tgt
      <4>3. found = {3}
        BY <4>1, <4>2
      <4>4. creds[3].endtime = n
        BY <4>1 DEF Tgt
      <4>5. QED
        BY <4>3, <4>4
    <3>4. CASE creds = <<Config>>
      BY <1>2, <3>4 DEF Config
    <3>5. QED
      BY <3>1, <3>2, <3>3, <3>4 DEF Caches
  <2> PICK k \in 1..3 : found = {k} /\ creds[k].endtime = n
    BY <2>1
  <2>2. first = k
    OBVIOUS
  <2>3. QED
    BY <1>2, <2>2 DEF ReadCcache
<1>3. QED
  BY <1>1, <1>2

\* The answer carries its own request's bytes and times.
Own(a) ==
    /\ a.by = a.id
    /\ \/ a.from = "child" /\ a.times \subseteq {a.id}
       \/ a.from = "caller" /\ a.times = {0} /\ a.mode = "renew"

\* Exit 0 and a credential in the answer mean the child's bytes and times, or those
\* the caller of a renewal sent (minting.py:404-413, 477-482, 562-569).
LEMMA ReadingIsOwn ==
    ASSUME IInv, NEW s \in Slots, pc[s] = "exited", Reading(s).how = "issued"
    PROVE  Own(Reading(s)) /\ Reading(s) \in Answers
<1> DEFINE f == CHOOSE g \in Output(s) : TRUE
           unreadable == mode[s] # "bootstrap"
                            /\ \E g \in Output(s) : ReadCcache(g.creds) = None
<1>1. exit[s] = "exit0" /\ Output(s) # {} /\ ~unreadable /\ Reading(s) = Issued(s, f)
  BY DEF IInv, TypeOK, Reading, Failed, Nothing
<1>2. f \in Output(s) /\ f \in files /\ f.dir = id[s] /\ f.name = OutputName(mode[s])
  BY <1>1 DEF Output, FilesOf, DirName
<1>3. f.from = "child" \/ (f.from = "caller" /\ mode[s] = "renew")
  BY <1>1, <1>2 DEF IInv, ExitOK
<1>4. f.by = id[s]
  BY <1>2 DEF IInv, FilesOK
<1>5. id[s] \in 0..MaxAttempts /\ id[s] \in Nat /\ 0 \in 0..MaxAttempts /\ 0 \in Nat
  BY WorkspaceAssumption DEF IInv, TypeOK
<1>6. mode[s] \in Modes \cup {"none"}
  BY DEF IInv, TypeOK
<1> DEFINE a == Issued(s, f)
<1>7. /\ a.by = f.by /\ a.id = id[s] /\ a.from = f.from /\ a.mode = mode[s]
      /\ a.times = IF mode[s] = "bootstrap" THEN {} ELSE {ReadCcache(f.creds)}
  BY DEF Issued
<1>8. CASE mode[s] = "bootstrap"
  <2>1. f.from = "child"
    BY <1>3, <1>8
  <2>2. Own(a)
    BY <1>4, <1>7, <1>8, <2>1 DEF Own
  <2>3. a \in Answers
    BY <1>4, <1>5, <1>6, <1>8, <2>1 DEF Issued, Answers
  <2>4. QED
    BY <1>1, <2>2, <2>3
<1>9. CASE mode[s] # "bootstrap" /\ f.from = "child"
  <2>1. f.creds \in Caches(id[s])
    BY <1>2, <1>4, <1>9 DEF IInv, FilesOK, OutputName
  <2>2. ReadCcache(f.creds) = id[s]
    BY <1>1, <1>2, <1>5, <1>9, <2>1, ReadCcacheFinds
  <2>3. Own(a)
    BY <1>4, <1>7, <1>9, <2>2 DEF Own
  <2>4. a \in Answers
    BY <1>4, <1>5, <1>6, <1>9, <2>2 DEF Issued, Answers
  <2>5. QED
    BY <1>1, <2>3, <2>4
<1>10. CASE mode[s] # "bootstrap" /\ f.from = "caller"
  <2>1. f.creds \in Caches(0)
    BY <1>2, <1>10 DEF IInv, FilesOK
  <2>2. ReadCcache(f.creds) = 0
    BY <1>1, <1>2, <1>5, <1>10, <2>1, ReadCcacheFinds
  <2>3. mode[s] = "renew"
    BY <1>3, <1>10
  <2>4. Own(a)
    BY <1>4, <1>7, <1>10, <2>2, <2>3 DEF Own
  <2>5. a \in Answers
    BY <1>4, <1>5, <1>6, <1>10, <2>2 DEF Issued, Answers
  <2>6. QED
    BY <1>1, <2>4, <2>5
<1>11. QED
  BY <1>3, <1>8, <1>9, <1>10

\* Every other outcome is an answer without a credential.
LEMMA FailedType == \A how \in {"refused", "error", "uncaught"} :
                       Failed(how) \in Answers /\ Failed(how).how = how
  BY WorkspaceAssumption DEF Failed, Nothing, Answers

\* Whatever is read, the answer is one (minting.py:370-413).
LEMMA ReadingType ==
    ASSUME IInv, NEW s \in Slots, pc[s] = "exited"
    PROVE  Reading(s) \in Answers
<1>1. CASE Reading(s).how = "issued"
  BY <1>1, ReadingIsOwn
<1>2. CASE Reading(s).how # "issued"
  BY <1>2, FailedType DEF Reading, Issued
<1>3. QED
  BY <1>1, <1>2

\* No answer yet.
LEMMA NothingType == Nothing \in Answers /\ Nothing.how = "none"
  BY WorkspaceAssumption DEF Nothing, Answers

----------------------------------------------------------------------------
(* The steps. *)

\* Nothing exists before the first request.
LEMMA InitInv == Init => IInv
<1> SUFFICES ASSUME Init PROVE IInv
  OBVIOUS
<1> USE DEF Init
<1>1. TypeOK
  BY WorkspaceAssumption, NothingType DEF TypeOK, InUse, Live
<1>2. IdsOK /\ FilesOK /\ OrphansOK /\ NothingLeftBehind
  BY DEF IdsOK, Live, FilesOK, OrphansOK, NothingLeftBehind
<1>3. ExitOK /\ EmptiedOK /\ AnswersOwnOutput
  BY DEF ExitOK, EmptiedOK, AnswersOwnOutput, Nothing
<1>4. QED
  BY <1>1, <1>2, <1>3 DEF IInv

\* A new attempt gets a directory nobody has used (mkdtemp, minting.py:355-364).
LEMMA StageInv ==
    ASSUME IInv, NEW s \in Slots, NEW m \in Modes, NEW sent \in Caches(0), Stage(s, m, sent)
    PROVE  IInv'
<1> USE DEF IInv, Stage, DirName, Put, LoopFree
<1> DEFINE n == attempts + 1
<1>1. n \in 1..MaxAttempts /\ n \notin dirs /\ n \notin lost /\ n \notin orphans
  BY WorkspaceAssumption DEF TypeOK, IdsOK, OrphansOK
<1>2. \A f \in files : f.dir # n
  BY <1>1 DEF TypeOK
<1>3. /\ \A f \in files' : \/ f \in files
                           \/ /\ f.dir = n /\ f.by = n /\ f.from = "caller"
                              /\ f.creds \in Caches(0)
                              /\ f.name = StagedName(m) /\ m \in {"keytab", "renew"}
      /\ files \subseteq files'
  BY <1>2
<1>4. Live' = Live \cup {s} /\ s \notin Live
  BY DEF TypeOK, Live
<1>5. id'[s] = n /\ pc'[s] = "running" /\ mode'[s] = m /\ n \notin {id[t] : t \in Live}
  BY <1>1 DEF TypeOK, IdsOK
<1>6. \A t \in Slots \ {s} : /\ id'[t] = id[t] /\ pc'[t] = pc[t] /\ mode'[t] = mode[t]
                             /\ answer'[t] = answer[t]
  BY DEF TypeOK
<1>7. InUse' = InUse \cup {n}
  BY <1>4, <1>5, <1>6 DEF InUse, Live
<1>8. TypeOK'
  BY <1>1, <1>3, <1>7, NothingType DEF TypeOK
<1>9. IdsOK'
  BY <1>1, <1>4, <1>5, <1>6 DEF IdsOK, TypeOK
<1>10. FilesOK'
  BY <1>3 DEF FilesOK
<1>11. OrphansOK'
  BY <1>1, <1>4, <1>5, <1>6 DEF OrphansOK, TypeOK
<1>12. ExitOK'
  <2>1. \A f \in Output(s)' : f.from = "caller" /\ mode'[s] = "renew"
    BY <1>2, <1>3, <1>5 DEF Output, FilesOf, OutputName, StagedName
  <2>2. ASSUME NEW t \in Slots \ {s}, t \in Live
        PROVE  Output(t)' \subseteq Output(t)
    BY <1>3, <1>5, <1>6, <2>2 DEF Output, FilesOf
  <2>3. \A t \in Slots \ {s} :
           pc'[t] = "running" \/ (pc'[t] = "exited" /\ exit'[t] = "exit0")
             => /\ t \in Live
                /\ pc[t] = "running" \/ (pc[t] = "exited" /\ exit[t] = "exit0")
    BY <1>6 DEF Live
  <2>4. QED
    BY <1>6, <2>1, <2>2, <2>3 DEF ExitOK
<1>13. EmptiedOK'
  BY <1>5, <1>6 DEF EmptiedOK
<1>14. NothingLeftBehind'
  BY <1>3, <1>7 DEF NothingLeftBehind
<1>15. AnswersOwnOutput'
  BY <1>6 DEF AnswersOwnOutput, Nothing, TypeOK
<1>16. QED
  BY <1>8, <1>9, <1>10, <1>11, <1>12, <1>13, <1>14, <1>15

\* A refused or failed attempt leaves nothing but its number.
LEMMA StageEndsInv ==
    ASSUME IInv, NEW s \in Slots, NEW how \in {"refused", "uncaught"}, StageEnds(s, how)
    PROVE  IInv'
<1> USE DEF IInv, StageEnds
<1>1. attempts' \in 0..MaxAttempts /\ 1..attempts \subseteq 1..attempts'
  BY WorkspaceAssumption DEF TypeOK
<1>2. TypeOK'
  BY <1>1, FailedType DEF TypeOK, InUse, Live
<1>3. IdsOK' /\ OrphansOK'
  BY <1>1 DEF IdsOK, OrphansOK, Live
<1>4. FilesOK' /\ ExitOK' /\ EmptiedOK' /\ NothingLeftBehind'
  BY DEF FilesOK, ExitOK, EmptiedOK, NothingLeftBehind, Output, FilesOf, InUse, Live
<1>5. AnswersOwnOutput'
  BY FailedType DEF AnswersOwnOutput, TypeOK
<1>6. QED
  BY <1>2, <1>3, <1>4, <1>5

\* A subprocess writes into its own directory only, and while it runs nobody
\* reads there.
LEMMA ChildWritesInv ==
    ASSUME IInv, NEW s \in Slots, ChildWrites(s)
    PROVE  IInv'
<1> USE DEF IInv, ChildWrites, DirName
<1>1. s \in Live /\ id[s] \in 1..MaxAttempts /\ id[s] \in dirs
  BY WorkspaceAssumption DEF Live, TypeOK, IdsOK, InUse
<1>2. ASSUME NEW creds \in IF mode[s] = "bootstrap" THEN {<<>>} ELSE Caches(id[s]),
             files' = Put(File(s, OutputName(mode[s]), "child", creds))
      PROVE  \A f \in files' :
                \/ f \in files
                \/ /\ f.dir = id[s] /\ f.by = id[s] /\ f.from = "child"
                   /\ f.name = "ccache" => f.creds \in Caches(id[s])
  BY <1>2 DEF Put, File, OutputName
<1>3. \A f \in files' :
         \/ f \in files
         \/ /\ f.dir = id[s] /\ f.by = id[s] /\ f.from = "child"
            /\ f.name = "ccache" => f.creds \in Caches(id[s])
  BY <1>2
<1>4. TypeOK'
  BY <1>1, <1>3 DEF TypeOK, InUse, Live
<1>5. IdsOK' /\ OrphansOK'
  BY DEF IdsOK, OrphansOK, Live
<1>6. FilesOK'
  BY <1>3 DEF FilesOK
<1>7. ExitOK' /\ EmptiedOK'
  BY <1>1, <1>3 DEF ExitOK, EmptiedOK, Output, FilesOf, IdsOK, Live
<1>8. NothingLeftBehind'
  BY <1>1, <1>3 DEF NothingLeftBehind, InUse, Live
<1>9. AnswersOwnOutput'
  BY DEF AnswersOwnOutput
<1>10. QED
  BY <1>4, <1>5, <1>6, <1>7, <1>8, <1>9

\* The exit itself touches no file.
LEMMA ChildExitsInv ==
    ASSUME IInv, NEW s \in Slots, ChildExits(s)
    PROVE  IInv'
<1> USE DEF IInv, ChildExits
<1>1. s \in Live /\ Live' = Live /\ InUse' = InUse
  BY DEF Live, InUse, TypeOK
<1>2. \A t \in Slots \ {s} : pc'[t] = pc[t] /\ exit'[t] = exit[t]
  BY DEF TypeOK
<1>3. pc[s] = "running" /\ pc'[s] = "exited"
  BY DEF TypeOK
<1>4. TypeOK'
  BY <1>1 DEF TypeOK
<1>5. IdsOK'
  BY <1>1 DEF IdsOK
<1>6. OrphansOK'
  BY <1>1, <1>2 DEF OrphansOK, Live
<1>7. ExitOK' /\ EmptiedOK'
  BY <1>2, <1>3 DEF ExitOK, EmptiedOK, Output, FilesOf
<1>8. FilesOK' /\ NothingLeftBehind' /\ AnswersOwnOutput'
  BY <1>1 DEF FilesOK, NothingLeftBehind, AnswersOwnOutput
<1>9. QED
  BY <1>4, <1>5, <1>6, <1>7, <1>8

\* A timeout may leave an orphan, of a request that has failed.
LEMMA TimesOutInv ==
    ASSUME IInv, NEW s \in Slots, TimesOut(s)
    PROVE  IInv'
<1> USE DEF IInv, TimesOut
<1>1. s \in Live /\ Live' = Live /\ InUse' = InUse
  BY DEF Live, InUse, TypeOK
<1>2. \A t \in Slots \ {s} : pc'[t] = pc[t] /\ exit'[t] = exit[t]
  BY DEF TypeOK
<1>3. pc'[s] = "exited" /\ exit'[s] = "failed" /\ orphans' \subseteq orphans \cup {id[s]}
  BY DEF TypeOK
<1>4. id[s] \in 1..attempts /\ id[s] \in 1..MaxAttempts
  BY <1>1, WorkspaceAssumption DEF IdsOK, TypeOK
<1>5. TypeOK'
  BY <1>1, <1>3, <1>4 DEF TypeOK
<1>6. IdsOK'
  BY <1>1 DEF IdsOK
<1>7. OrphansOK'
  BY <1>1, <1>2, <1>3, <1>4 DEF OrphansOK, IdsOK, Live
<1>8. ExitOK' /\ EmptiedOK'
  BY <1>2, <1>3 DEF ExitOK, EmptiedOK, Output, FilesOf
<1>9. FilesOK' /\ NothingLeftBehind' /\ AnswersOwnOutput'
  BY <1>1 DEF FilesOK, NothingLeftBehind, AnswersOwnOutput
<1>10. QED
  BY <1>5, <1>6, <1>7, <1>8, <1>9

\* An orphan writes into the directory of its own attempt, if it is there.
LEMMA OrphanWritesInv ==
    ASSUME IInv, NEW n \in 1..MaxAttempts, OrphanWrites(n)
    PROVE  IInv'
<1> USE DEF IInv, OrphanWrites, DirName
<1>1. \A f \in files' :
         \/ f \in files
         \/ f.dir = n /\ f.by = n /\ f.from = "orphan"
  BY DEF Put
<1>2. TypeOK'
  BY <1>1 DEF TypeOK, InUse, Live
<1>3. IdsOK' /\ OrphansOK'
  BY DEF IdsOK, OrphansOK, Live
<1>4. FilesOK' /\ NothingLeftBehind'
  BY <1>1 DEF FilesOK, NothingLeftBehind, InUse, Live
<1>5. \A t \in Slots : pc[t] = "running" \/ (pc[t] = "exited" /\ exit[t] = "exit0")
                        => id[t] # n
  BY DEF OrphansOK, Live
<1>6. ExitOK'
  BY <1>1, <1>5 DEF ExitOK, Output, FilesOf
<1>7. EmptiedOK'
  BY <1>1 DEF EmptiedOK, FilesOf
<1>8. AnswersOwnOutput'
  BY DEF AnswersOwnOutput
<1>9. QED
  BY <1>2, <1>3, <1>4, <1>6, <1>7, <1>8

\* The end of an orphan changes no file.
LEMMA OrphanEndsInv ==
    ASSUME IInv, NEW n \in 1..MaxAttempts, OrphanEnds(n)
    PROVE  IInv'
<1> USE DEF IInv, OrphanEnds
<1>1. TypeOK' /\ IdsOK' /\ OrphansOK'
  BY DEF TypeOK, IdsOK, OrphansOK, InUse, Live
<1>2. FilesOK' /\ ExitOK' /\ EmptiedOK' /\ NothingLeftBehind' /\ AnswersOwnOutput'
  BY DEF FilesOK, ExitOK, EmptiedOK, NothingLeftBehind, AnswersOwnOutput,
         Output, FilesOf, InUse, Live
<1>3. QED
  BY <1>1, <1>2

\* The output is read and the files are unlinked in one step of the event loop.
LEMMA ResumeInv ==
    ASSUME IInv, NEW s \in Slots, Resume(s)
    PROVE  IInv'
<1> USE DEF IInv, Resume
<1>1. s \in Live /\ Live' = Live /\ InUse' = InUse
  BY DEF Live, InUse, TypeOK
<1>2. \A t \in Slots \ {s} : pc'[t] = pc[t] /\ answer'[t] = answer[t]
  BY DEF TypeOK
<1>3. /\ pc'[s] = "emptied"
      /\ files' \subseteq files
      /\ \A f \in files' : f.dir # DirName(id[s])
  BY DEF TypeOK, Removed, FilesOf
<1>4. TypeOK'
  BY <1>1, <1>3, ReadingType DEF TypeOK
<1>5. IdsOK'
  BY <1>1 DEF IdsOK
<1>6. OrphansOK'
  BY <1>1, <1>2, <1>3 DEF OrphansOK
<1>7. FilesOK' /\ NothingLeftBehind'
  BY <1>1, <1>3 DEF FilesOK, NothingLeftBehind
<1>8. ExitOK' /\ EmptiedOK'
  BY <1>2, <1>3 DEF ExitOK, EmptiedOK, Output, FilesOf
<1>9. AnswersOwnOutput'
  <2>1. answer'[s].how = "issued" => Own(answer'[s])
    BY ReadingIsOwn DEF TypeOK
  <2>2. QED
    BY <1>2, <2>1 DEF AnswersOwnOutput, Own
<1>10. QED
  BY <1>4, <1>5, <1>6, <1>7, <1>8, <1>9

\* The directory goes with the request, or stays with an orphan's file in it.
LEMMA RmdirInv ==
    ASSUME IInv, NEW s \in Slots, Rmdir(s)
    PROVE  IInv'
<1> USE DEF IInv, Rmdir, Done, DirName
<1>1. s \in Live /\ Live' = Live \ {s}
  BY DEF Live, TypeOK
<1>2. \A t \in Slots \ {s} : /\ pc'[t] = pc[t] /\ mode'[t] = mode[t] /\ id'[t] = id[t]
                             /\ exit'[t] = exit[t] /\ answer'[t] = answer[t]
  BY DEF TypeOK
<1>3. pc'[s] = "idle"
  BY DEF TypeOK
<1>4. InUse' = InUse \ {id[s]}
  BY <1>1, <1>2 DEF InUse, IdsOK
<1>5. /\ dirs \ {id[s]} \subseteq dirs' /\ dirs' \subseteq dirs
      /\ id[s] \in dirs' \/ FilesOf(s) = {}
  BY DEF TypeOK, InUse, Live
<1>6. TypeOK'
  <2>1. answer' \in [Slots -> Answers]
    BY FailedType DEF TypeOK
  <2>2. /\ pc' \in [Slots -> {"idle", "running", "exited", "emptied"}]
        /\ mode' \in [Slots -> Modes \cup {"none"}]
        /\ exit' \in [Slots -> {"none", "exit0", "failed"}]
        /\ id' \in [Slots -> 0..MaxAttempts]
    BY WorkspaceAssumption DEF TypeOK
  <2>3. lost' \subseteq dirs'
    BY <1>1, <1>5 DEF TypeOK, IdsOK
  <2>4. \A f \in files' : f.dir \in dirs' /\ f.by \in 1..MaxAttempts
    BY <1>5 DEF TypeOK, FilesOf
  <2>5. InUse' \subseteq dirs'
    BY <1>4, <1>5 DEF TypeOK
  <2>6. QED
    BY <1>5, <2>1, <2>2, <2>3, <2>4, <2>5 DEF TypeOK
<1>7. IdsOK'
  BY <1>1, <1>2, <1>5 DEF IdsOK
<1>8. OrphansOK'
  BY <1>1, <1>2 DEF OrphansOK
<1>9. FilesOK'
  BY DEF FilesOK
<1>10. ExitOK' /\ EmptiedOK'
  BY <1>2, <1>3 DEF ExitOK, EmptiedOK, Output, FilesOf
<1>11. NothingLeftBehind'
  BY <1>4 DEF NothingLeftBehind, EmptiedOK, FilesOf
<1>12. AnswersOwnOutput'
  BY <1>2, FailedType DEF AnswersOwnOutput, TypeOK
<1>13. QED
  BY <1>6, <1>7, <1>8, <1>9, <1>10, <1>11, <1>12

\* A restart forgets the requests and keeps the directories.
LEMMA CrashInv ==
    ASSUME IInv, Crash
    PROVE  IInv'
<1> USE DEF IInv, Crash
<1>1. Live' = {} /\ InUse' = {}
  BY DEF Live, InUse
<1>2. TypeOK'
  BY <1>1, WorkspaceAssumption, NothingType DEF TypeOK
<1>3. IdsOK' /\ FilesOK' /\ OrphansOK'
  BY <1>1 DEF IdsOK, FilesOK, OrphansOK
<1>4. ExitOK' /\ EmptiedOK' /\ AnswersOwnOutput'
  BY DEF ExitOK, EmptiedOK, AnswersOwnOutput, Nothing
<1>5. NothingLeftBehind'
  BY DEF NothingLeftBehind, TypeOK
<1>6. QED
  BY <1>2, <1>3, <1>4, <1>5

\* Every step keeps the inductive invariant.
LEMMA NextInv == IInv /\ [Next]_vars => IInv'
<1> SUFFICES ASSUME IInv, [Next]_vars PROVE IInv'
  OBVIOUS
<1>1. CASE UNCHANGED vars
  BY <1>1 DEF vars, IInv, TypeOK, IdsOK, FilesOK, OrphansOK, ExitOK, EmptiedOK,
              NothingLeftBehind, AnswersOwnOutput, Output, FilesOf, InUse, Live
<1>2. CASE Next
  BY <1>2, StageInv, StageEndsInv, ChildWritesInv, ChildExitsInv, TimesOutInv, ResumeInv,
     RmdirInv, OrphanWritesInv, OrphanEndsInv, CrashInv DEF Next
<1>3. QED
  BY <1>1, <1>2

----------------------------------------------------------------------------
(* The results. *)

\* The inductive invariant holds in every reachable state.
THEOREM Invariant == Spec => []IInv
<1>1. Init => IInv
  BY InitInv
<1>2. IInv /\ [Next]_vars => IInv'
  BY NextInv
<1>3. QED
  BY <1>1, <1>2, PTL DEF Spec

\* Every variable keeps its type, every file has a directory and every request in
\* progress has its own (minting.py:355, 445, 519).
THEOREM TypeCorrect == Spec => []TypeOK
<1>1. IInv => TypeOK
  BY DEF IInv
<1>2. QED
  BY <1>1, Invariant, PTL

\* No request is ever answered with bytes or times that are neither its own
\* subprocess's nor, for a renewal, its caller's (minting.py:404-413, 450, 477-482,
\* 562-569).
THEOREM OutputIsOwn == Spec => []AnswersOwnOutput
<1>1. IInv => AnswersOwnOutput
  BY DEF IInv
<1>2. QED
  BY <1>1, Invariant, PTL

\* Short of a restart, only an orphan's keytab outlives its request on the tmpfs
\* (minting.py:356, 445, 519).
THEOREM OnlyOrphansLeaveFiles == Spec => []NothingLeftBehind
<1>1. IInv => NothingLeftBehind
  BY DEF IInv
<1>2. QED
  BY <1>1, Invariant, PTL
====
