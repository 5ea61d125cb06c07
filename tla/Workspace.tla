---- MODULE Workspace ----
(***************************************************************************)
(* The working directories of mint_ticket, renew_ticket and mint_keytab on *)
(* the tmpfs: what the event loop, the subprocesses and the processes that *)
(* outlive them do to them, and which file an answer is read from.         *)
(*                                                                         *)
(* subprocess.run kills and reaps its direct child when it times out.  For *)
(* cern-get-keytab that is the Python script; the msktutil it runs through *)
(* a shell of its own lives on and may write its keytab at any later time. *)
(* rmtree is not atomic: a file written between the listing of the         *)
(* directory and its rmdir makes the rmdir fail.                           *)
(*                                                                         *)
(* Token verification and the limiter come before any of this and are      *)
(* TokenService's.  The event loop runs one step of a handler at a time,   *)
(* so no handler moves while another is inside rmtree.                     *)
(***************************************************************************)
EXTENDS Minting, Integers, Sequences, FiniteSets

CONSTANTS Slots,       \* requests that can be in progress at once
          MaxAttempts, \* bound: requests that get a working directory
          None         \* Python's None

ASSUME WorkspaceAssumption ==
    /\ IsFiniteSet(Slots)
    /\ MaxAttempts \in Nat
    /\ None \notin Nat

VARIABLES pc,       \* pc[s]: where the request of s is
          mode,     \* mode[s]: what it asks for, "none" when idle
          id,       \* id[s]: the number of its attempt, 0 when idle
          exit,     \* exit[s]: how subprocess.run ended
          dirs,     \* the directories under ccache_tmp_root
          files,    \* the files in them
          orphans,  \* the attempts whose msktutil has outlived its script
          lost,     \* the directories that existed when the container last died
          attempts, \* the attempts so far
          answer    \* answer[s]: what the last request of s was answered

vars == <<pc, mode, id, exit, dirs, files, orphans, lost, attempts, answer>>

----------------------------------------------------------------------------
(* Credential caches. *)

\* A cache is a list of credentials.  A config entry has an all-zero endtime; the
\* endtime of a ticket stands for the attempt that obtained it, 0 for one the
\* caller brought.
Config == [server |-> "X-CACHECONF:", endtime |-> 0]
Tgt(n) == [server |-> "krbtgt", endtime |-> n]
Cross(n) == [server |-> "other_krbtgt", endtime |-> 0]

\* The caches kinit may write, or a caller may send.
Caches(n) == {<<Tgt(n)>>, <<Config, Tgt(n)>>, <<Cross(n), Config, Tgt(n)>>, <<Config>>}

\* Mutant: the times of the first credential, whatever it is for.
ReadCcacheFirst(creds) == creds[1].endtime

\* read_ccache: the times of the first ticket of the own realm's TGT that is not
\* a config entry; None for CcacheParseError.
ReadCcache(creds) ==
    LET found == {i \in DOMAIN creds : creds[i].server = "krbtgt"}
    IN  IF found = {} THEN None
        ELSE creds[CHOOSE i \in found : \A j \in found : i <= j].endtime

----------------------------------------------------------------------------
(* Files and directories. *)

\* Mutant: one directory for everybody.
DirNameFixed(n) == 1

\* tempfile draws a name of eight random characters and never takes one in use;
\* that a name is drawn twice in the life of a tmpfs is left out.
DirName(n) == n

\* The file the subprocess is told to write, and its caller then reads.
OutputName(m) == IF m = "bootstrap" THEN "keytab" ELSE "ccache"

\* The file the caller's own credential is written to before the subprocess runs.
StagedName(m) == IF m = "keytab" THEN "keytab" ELSE "ccache"

File(s, name, from, creds) ==
    [dir |-> DirName(id[s]), name |-> name, from |-> from, by |-> id[s], creds |-> creds]

\* Writing a file replaces what was under its name.
Put(f) == {g \in files : g.dir # f.dir \/ g.name # f.name} \cup {f}

FilesOf(s) == {f \in files : f.dir = DirName(id[s])}
Output(s) == {f \in FilesOf(s) : f.name = OutputName(mode[s])}

----------------------------------------------------------------------------
(* Answers: "issued", "refused" (422), "error" (any other answer of the    *)
(* handler), "uncaught" (a 500 by an exception no handler names).          *)

Nothing == [how |-> "none", mode |-> "none", id |-> 0, from |-> "none", by |-> 0,
            times |-> {}]

Failed(how) == [Nothing EXCEPT !.how = how]

\* The bytes of f, and for a ccache the times read from it.
Issued(s, f) ==
    [how |-> "issued", mode |-> mode[s], id |-> id[s], from |-> f.from, by |-> f.by,
     times |-> IF mode[s] = "bootstrap" THEN {} ELSE {ReadCcache(f.creds)}]

Init ==
    /\ pc = [s \in Slots |-> "idle"]
    /\ mode = [s \in Slots |-> "none"]
    /\ id = [s \in Slots |-> 0]
    /\ exit = [s \in Slots |-> "none"]
    /\ dirs = {}
    /\ files = {}
    /\ orphans = {}
    /\ lost = {}
    /\ attempts = 0
    /\ answer = [s \in Slots |-> Nothing]

\* No handler is inside rmtree.
LoopFree == \A s \in Slots : pc[s] # "emptied"

\* The request of s ends.
Done(s) ==
    /\ pc' = [pc EXCEPT ![s] = "idle"]
    /\ mode' = [mode EXCEPT ![s] = "none"]
    /\ id' = [id EXCEPT ![s] = 0]
    /\ exit' = [exit EXCEPT ![s] = "none"]

----------------------------------------------------------------------------
(* The handler before its await: make the directory, write what the caller *)
(* sent into it, submit the subprocess.                                    *)

Stage(s, m, sent) ==
    LET n == attempts + 1
        staged == [dir |-> DirName(n), name |-> StagedName(m), from |-> "caller",
                   by |-> n, creds |-> sent]
    IN  /\ pc[s] = "idle" /\ LoopFree
        /\ attempts < MaxAttempts
        /\ m = "renew" => ReadCcache(sent) # None
        /\ attempts' = n
        /\ pc' = [pc EXCEPT ![s] = "running"]
        /\ mode' = [mode EXCEPT ![s] = m]
        /\ id' = [id EXCEPT ![s] = n]
        /\ dirs' = dirs \cup {DirName(n)}
        /\ files' = IF m \in {"keytab", "renew"} THEN Put(staged) ELSE files
        /\ answer' = [answer EXCEPT ![s] = Nothing]
        /\ UNCHANGED <<exit, orphans, lost>>

\* The sent ccache has no TGT, or a write fails: the directory made a moment ago
\* is removed again before anything else runs.
StageEnds(s, how) ==
    /\ pc[s] = "idle" /\ LoopFree
    /\ attempts < MaxAttempts
    /\ how \in {"refused", "uncaught"}
    /\ attempts' = attempts + 1
    /\ answer' = [answer EXCEPT ![s] = Failed(how)]
    /\ UNCHANGED <<pc, mode, id, exit, dirs, files, orphans, lost>>

----------------------------------------------------------------------------
(* The subprocess. *)

\* It writes its output, perhaps in several goes, or removes what is there.
ChildWrites(s) ==
    /\ pc[s] = "running"
    /\ \/ \E creds \in IF mode[s] = "bootstrap" THEN {<<>>} ELSE Caches(id[s]) :
             files' = Put(File(s, OutputName(mode[s]), "child", creds))
       \/ files' = files \ Output(s)
    /\ UNCHANGED <<pc, mode, id, exit, dirs, orphans, lost, attempts, answer>>

\* It exits.  Its 0 says nothing of what it wrote.
ChildExits(s) ==
    /\ pc[s] = "running"
    /\ \E how \in {"exit0", "failed"} : exit' = [exit EXCEPT ![s] = how]
    /\ pc' = [pc EXCEPT ![s] = "exited"]
    /\ UNCHANGED <<mode, id, dirs, files, orphans, lost, attempts, answer>>

\* It is killed.  msktutil lives on if cern-get-keytab was waiting for it.
TimesOut(s) ==
    /\ pc[s] = "running"
    /\ exit' = [exit EXCEPT ![s] = "failed"]
    /\ \/ UNCHANGED orphans
       \/ mode[s] = "bootstrap" /\ orphans' = orphans \cup {id[s]}
    /\ pc' = [pc EXCEPT ![s] = "exited"]
    /\ UNCHANGED <<mode, id, dirs, files, lost, attempts, answer>>

\* An orphan finds its directory, or gets ENOENT and writes nothing.
OrphanWrites(n) ==
    /\ n \in orphans
    /\ DirName(n) \in dirs
    /\ files' = Put([dir |-> DirName(n), name |-> "keytab", from |-> "orphan",
                     by |-> n, creds |-> <<>>])
    /\ UNCHANGED <<pc, mode, id, exit, dirs, orphans, lost, attempts, answer>>

OrphanEnds(n) ==
    /\ n \in orphans
    /\ orphans' = orphans \ {n}
    /\ UNCHANGED <<pc, mode, id, exit, dirs, files, lost, attempts, answer>>

----------------------------------------------------------------------------
(* The handler after its await. *)

\* What the body of the with statement makes of the directory.
Reading(s) ==
    LET out == Output(s)
        renew == mode[s] = "renew"
        unreadable == mode[s] # "bootstrap" /\ \E f \in out : ReadCcache(f.creds) = None
    IN  CASE exit[s] # "exit0" -> Failed("error")
          [] exit[s] = "exit0" /\ out = {} -> Failed(IF renew THEN "uncaught" ELSE "error")
          [] exit[s] = "exit0" /\ unreadable -> Failed(IF renew THEN "refused" ELSE "uncaught")
          [] OTHER -> Issued(s, CHOOSE f \in out : TRUE)

\* Mutant: a failure leaves the with statement's directory alone.
RemovedOnSuccess(s) == IF Reading(s).how = "issued" THEN FilesOf(s) ELSE {}

\* The files rmtree lists, and unlinks.
Removed(s) == FilesOf(s)

\* The output is read, and __exit__ begins: rmtree lists the directory and
\* unlinks every file it saw.
Resume(s) ==
    /\ pc[s] = "exited" /\ LoopFree
    /\ answer' = [answer EXCEPT ![s] = Reading(s)]
    /\ files' = files \ Removed(s)
    /\ pc' = [pc EXCEPT ![s] = "emptied"]
    /\ UNCHANGED <<mode, id, exit, dirs, orphans, lost, attempts>>

\* __exit__ ends with rmdir.  ENOTEMPTY takes the place of the answer, no handler
\* names it, and the directory stays.
Rmdir(s) ==
    /\ pc[s] = "emptied"
    /\ \/ /\ FilesOf(s) = {}
          /\ dirs' = dirs \ {DirName(id[s])}
          /\ UNCHANGED answer
       \/ /\ FilesOf(s) # {}
          /\ answer' = [answer EXCEPT ![s] = Failed("uncaught")]
          /\ UNCHANGED dirs
    /\ Done(s)
    /\ UNCHANGED <<files, orphans, lost, attempts>>

----------------------------------------------------------------------------
\* The container is restarted: every process dies, the emptyDir survives.
Crash ==
    /\ lost' = dirs
    /\ orphans' = {}
    /\ pc' = [s \in Slots |-> "idle"]
    /\ mode' = [s \in Slots |-> "none"]
    /\ id' = [s \in Slots |-> 0]
    /\ exit' = [s \in Slots |-> "none"]
    /\ answer' = [s \in Slots |-> Nothing]
    /\ UNCHANGED <<dirs, files, attempts>>

Next ==
    \/ \E s \in Slots :
         \/ \E m \in Modes, sent \in Caches(0) : Stage(s, m, sent)
         \/ \E how \in {"refused", "uncaught"} : StageEnds(s, how)
         \/ ChildWrites(s) \/ ChildExits(s) \/ TimesOut(s)
         \/ Resume(s) \/ Rmdir(s)
    \/ \E n \in 1..MaxAttempts : OrphanWrites(n) \/ OrphanEnds(n)
    \/ Crash

Spec == Init /\ [][Next]_vars
----------------------------------------------------------------------------
(* Properties. *)

Answers == [how   : {"none", "issued", "refused", "error", "uncaught"},
            mode  : Modes \cup {"none"},
            id    : 0..MaxAttempts,
            from  : {"none", "child", "caller"},
            by    : 0..MaxAttempts,
            times : SUBSET (0..MaxAttempts)]

Live == {s \in Slots : pc[s] # "idle"}
InUse == {DirName(id[s]) : s \in Live}

\* Every variable holds a value of its kind, every file is in a directory, and a
\* request in progress finds its own (minting.py:355, 445, 519).
TypeOK ==
    /\ pc \in [Slots -> {"idle", "running", "exited", "emptied"}]
    /\ mode \in [Slots -> Modes \cup {"none"}]
    /\ exit \in [Slots -> {"none", "exit0", "failed"}]
    /\ id \in [Slots -> 0..MaxAttempts]
    /\ attempts \in 0..MaxAttempts
    /\ dirs \subseteq 1..MaxAttempts
    /\ lost \subseteq dirs
    /\ orphans \subseteq 1..MaxAttempts
    /\ \A f \in files : f.dir \in dirs /\ f.by \in 1..MaxAttempts
    /\ InUse \subseteq dirs
    /\ answer \in [Slots -> Answers]

\* A request that is answered with a credential gets what its own subprocess wrote,
\* with the times of the ticket in those very bytes, never a config entry's zeros;
\* or, for a renewal whose kinit -R exits 0 without writing, the very ccache it sent,
\* with that one's times: never another request's file, an orphan's, or the keytab
\* it sent itself (minting.py:404-413, 450, 477-482, 562-569; ccache.py:57-62).
AnswersOwnOutput ==
    \A s \in Slots :
        answer[s].how = "issued" =>
            /\ answer[s].by = answer[s].id
            /\ \/ answer[s].from = "child" /\ answer[s].times \subseteq {answer[s].id}
               \/ /\ answer[s].from = "caller" /\ answer[s].times = {0}
                  /\ answer[s].mode = "renew"

\* What a request leaves on the tmpfs when it has been answered: of its credential
\* files nothing, on every path, but a keytab an orphaned msktutil wrote after the
\* listing; only a restart of the container leaves more
\* (TemporaryDirectory, minting.py:356, 445, 519; app.py:490 and README.md:87).
NothingLeftBehind ==
    \A f \in files : f.dir \in InUse \cup lost \/ f.from = "orphan"

\* "Never persists the keytab" (README.md:87; app.py:490, minting.py:508): restarts
\* aside, a keytab is on the tmpfs only while the request it belongs to is in progress.
KeytabNeverPersisted ==
    \A f \in files : f.name = "keytab" => f.dir \in InUse \cup lost
====
