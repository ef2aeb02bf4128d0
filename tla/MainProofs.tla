----------------------------- MODULE MainProofs -----------------------------
(***************************************************************************)
(* Proofs about the main process and its workers (MainProcess), for any    *)
(* number of slots, processes, helpers, configurations and connections.    *)
(*                                                                         *)
(* The inductive invariant MainInv says, of every worker pid, how the      *)
(* entry of the table and the process agree (PidOK), and that respawn      *)
(* timers belong to configurations that have been read.                    *)
(***************************************************************************)
EXTENDS MainProcess, TLAPS

(* One process: the finish scripts, and the signals to come.               *)
WorkerOK(q) ==
  /\ q.sigs # {} => q.st \in {"starting", "running"}
  /\ q.st \notin {"wait_scripts", "wanna_die"} => q.final = 0
  /\ q.st = "wait_scripts" => q.final = 1 /\ q.conns = 0
  /\ q.st = "wanna_die" =>
       /\ q.final <= 1
       /\ q.final = 1 => q.conns = 0
       /\ ~q.forced => q.conns = 0 /\ (Scripts => q.final = 1)

(* Nobody told the process to end.                                         *)
Fresh(q) ==
  q.sigs = {} /\ q.exit # "ok" /\ q.st \in {"free", "starting", "running", "dead"}

(* What main knows of a worker of the current configuration is enough to   *)
(* tell, once it is dead, that its slot has to be filled again.            *)
SlotOK(e, q) ==
  /\ e.st = "running"
  /\ "usr2" \notin q.sigs /\ q.exit # "usr2"
  /\ e.asked = "no" => Fresh(q)
  /\ e.asked = "asked" => LossMax > 0 /\ -e.nbeats >= LossMax

(* The entry e and the process q of the same worker pid.                   *)
PidOK(m, e, q) ==
  /\ ~e.helper
  /\ q.st # "free" => e.st # "none"
  /\ WorkerOK(q)
  /\ e.st # "none" =>
       /\ m.st # "exited"
       /\ e.job.gen <= m.gen
       /\ e.job.gen = m.gen => ~e.old
       /\ ~e.old => e.hb /\ (q.st # "dead" => e.srv)
       /\ m.st = "up" /\ ~e.old => SlotOK(e, q)

(* So for every worker.                                                    *)
PidsOK == \A p \in Pids : PidOK(main, table[p], proc[p])

(* Respawn timers belong to configurations that have been read.            *)
WaitOK == \A j \in wait : j.gen <= main.gen

(* The inductive invariant.                                                *)
MainInv == TypeOK /\ PidsOK /\ WaitOK /\ SlotOnce /\ SlotCovered

(***************************************************************************)
(* One process.                                                            *)
(***************************************************************************)

(* The record of a pid that is not in use.                                 *)
LEMMA NoProcessOK ==
  NoProcess \in Process /\ NoProcess.st = "free" /\ WorkerOK(NoProcess)
BY MainAssumption DEF NoProcess, Process, Working, Closing, WorkerOK

(* A new worker has nothing to account for.                                *)
LEMMA NewProcessOK ==
  /\ NewProcess \in Process /\ WorkerOK(NewProcess)
  /\ NewProcess.st = "starting" /\ NewProcess.sigs = {} /\ NewProcess.exit = "none"
<1> DEFINE n == NoProcess
<1>1. n \in Process /\ n.sigs = {} /\ n.exit = "none" /\ n.final = 0
  BY NoProcessOK DEF NoProcess
<1>2. NewProcess = [n EXCEPT !.st = "starting"]
  BY DEF NewProcess
<1> HIDE DEF n
<1> QED
  BY <1>1, <1>2 DEF Process, Working, WorkerOK

(* A signal is noted by a worker that is not closing and changes nothing   *)
(* else of it; helpers end.                                                *)
LEMMA SignalledOK ==
  ASSUME NEW q \in Process, NEW s \in {"term", "usr2"}, WorkerOK(q)
  PROVE  /\ Signalled(q, s) \in Process /\ WorkerOK(Signalled(q, s))
         /\ Signalled(q, s).st = "free" <=> q.st = "free"
         /\ Signalled(q, s).st = "dead" => q.st \in {"dead", "helper"}
         /\ Signalled(q, s).exit = q.exit
         /\ Signalled(q, s).sigs \subseteq q.sigs \cup {s}
<1>1. Signalled(q, s) \in Process
  BY ZenonT(60) DEF Process, Signalled, Working, Closing
<1>2. WorkerOK(Signalled(q, s))
  BY DEF Process, Signalled, Working, Closing, WorkerOK
<1>3. /\ Signalled(q, s).st = "free" <=> q.st = "free"
      /\ Signalled(q, s).st = "dead" => q.st \in {"dead", "helper"}
  BY DEF Process, Signalled, Working, Closing
<1>4. Signalled(q, s).exit = q.exit /\ Signalled(q, s).sigs \subseteq q.sigs \cup {s}
  BY DEF Process, Signalled, Working, Closing
<1> QED
  BY <1>1, <1>2, <1>3, <1>4

(* A dead process is accounted for.                                        *)
LEMMA DeadOK ==
  ASSUME NEW q \in Process, NEW how \in {"ok", "usr2", "failed"}
  PROVE  /\ Dead(q, how) \in Process /\ WorkerOK(Dead(q, how))
         /\ Dead(q, how).st = "dead" /\ Dead(q, how).exit = how
         /\ Dead(q, how).sigs = {}
<1>1. ASSUME NEW h \in BOOLEAN, NEW f \in BOOLEAN, NEW c \in 0..MaxConns, NEW n \in 0..2
      PROVE  [q EXCEPT !.st = "dead", !.hung = h, !.conns = c, !.final = n,
                       !.forced = f, !.exit = how, !.sigs = {}] \in Process
  BY ZenonT(60) DEF Process
<1>2. 0 \in 0..MaxConns /\ 0 \in 0..2
  BY MainAssumption
<1>3. Dead(q, how) \in Process
  BY <1>1, <1>2, Zenon DEF Dead
<1>4. /\ Dead(q, how).st = "dead" /\ Dead(q, how).exit = how
      /\ Dead(q, how).sigs = {} /\ Dead(q, how).final = 0
  BY DEF Process, Dead
<1> QED
  BY <1>3, <1>4 DEF WorkerOK

(* SIGKILL ends what it meets.                                             *)
LEMMA KilledOK ==
  ASSUME NEW q \in Process, WorkerOK(q)
  PROVE  /\ Killed(q) \in Process /\ WorkerOK(Killed(q))
         /\ Killed(q).st = "free" <=> q.st = "free"
         /\ q.st = "dead" => Killed(q).st = "dead"
         /\ Killed(q).exit \in {q.exit, "failed"} /\ Killed(q).sigs \subseteq q.sigs
<1>1. CASE q.st \in Working
  <2>1. Killed(q) = Dead(q, "failed")
    BY <1>1 DEF Killed, Working, Closing
  <2> QED
    BY <1>1, <2>1, DeadOK DEF Working, Closing
<1>2. CASE q.st = "helper"
  BY <1>2, SMTT(30) DEF Killed, Process, WorkerOK
<1>3. CASE q.st \in {"free", "dead"}
  BY <1>3 DEF Killed, Working, Closing
<1> QED
  BY <1>1, <1>2, <1>3 DEF Process

(* What the steps of a worker do to its process.  Sub: what the entry of   *)
(* the table says of q, it says of r.                                      *)
Sub(q, r) ==
  /\ r \in Process /\ WorkerOK(r)
  /\ r.st # "free" => q.st # "free"
  /\ q.st = "dead" => r.st = "dead"
  /\ "usr2" \notin q.sigs => "usr2" \notin r.sigs
  /\ ("usr2" \notin q.sigs /\ q.exit # "usr2") => r.exit # "usr2"
  /\ Fresh(q) => Fresh(r)

(* rspamd_worker_call_finish_handlers runs with no connection left, and    *)
(* runs the scripts for the first time.                                    *)
LEMMA FinishOK ==
  ASSUME NEW q \in Process, WorkerOK(q), q.st \in Closing, q.conns = 0,
         Scripts => q.final = 0, NEW r \in FinishHandlers(q)
  PROVE  /\ r \in Process /\ WorkerOK(r) /\ r.st \in {"wait_scripts", "wanna_die"}
         /\ r.sigs = q.sigs /\ r.exit = q.exit
<1>0. q.sigs = {}
  BY DEF WorkerOK, Closing
<1>1. CASE Scripts
  <2>0. q.final + 1 = 1
    BY <1>1
  <2>1. PICK st \in {"wait_scripts", "wanna_die"} :
          r = [q EXCEPT !.st = st, !.final = q.final + 1]
    BY <1>1 DEF FinishHandlers
  <2>2. ASSUME NEW n \in 0..2 PROVE [q EXCEPT !.st = st, !.final = n] \in Process
    BY Zenon DEF Process, Working, Closing
  <2>3. r = [q EXCEPT !.st = st, !.final = 1]
    BY <1>1, <2>1, <2>0, Zenon
  <2>4. r \in Process
    <3>1. 1 \in 0..2
      OBVIOUS
    <3> QED
      BY <2>2, <2>3, <3>1, Zenon
  <2>5. /\ r.st = st /\ r.final = 1 /\ r.conns = 0
        /\ r.sigs = q.sigs /\ r.exit = q.exit
    BY <2>3 DEF Process
  <2> QED
    BY <1>1, <2>4, <2>5, <1>0 DEF WorkerOK
<1>2. CASE ~Scripts
  <2>1. r = [q EXCEPT !.st = "wanna_die"]
    BY <1>2 DEF FinishHandlers
  <2>2. /\ r \in Process /\ r.st = "wanna_die" /\ r.final = q.final /\ r.conns = 0
        /\ r.sigs = q.sigs /\ r.exit = q.exit
    BY <2>1 DEF Process, Working, Closing
  <2>3. q.final \in 0..1
    BY DEF WorkerOK, Process
  <2> QED
    BY <1>2, <2>2, <2>3, <1>0 DEF WorkerOK
<1> QED
  BY <1>1, <1>2

(* rspamd_worker_terminate_handlers waits for the connections first.       *)
LEMMA TerminateOK ==
  ASSUME NEW q \in Process, WorkerOK(q), q.st \in Closing \ {"wanna_die"},
         NEW r \in TerminateHandlers(q)
  PROVE  /\ r \in Process /\ WorkerOK(r) /\ r.st \in Closing
         /\ r.sigs = q.sigs /\ r.exit = q.exit
<1>1. CASE q.conns > 0
  <2>1. r = [q EXCEPT !.st = "wait_conns"]
    BY <1>1 DEF TerminateHandlers
  <2>2. q.st # "wait_scripts" /\ q.final = 0
    BY <1>1 DEF WorkerOK, Closing
  <2> QED
    BY <2>1, <2>2, SMTT(30) DEF Process, Working, Closing, WorkerOK
<1>2. CASE ~(q.conns > 0) /\ Scripts /\ q.st = "wait_scripts"
  <2>1. r = q
    BY <1>2 DEF TerminateHandlers
  <2> QED
    BY <2>1
<1>3. CASE ~(q.conns > 0) /\ ~(Scripts /\ q.st = "wait_scripts")
  <2>1. r \in FinishHandlers(q)
    BY <1>3 DEF TerminateHandlers
  <2>2. q.conns = 0
    BY <1>3 DEF Process
  <2>3. Scripts => q.final = 0
    BY <1>3 DEF WorkerOK, Closing
  <2> QED
    BY <2>1, <2>2, <2>3, FinishOK DEF Closing
<1> QED
  BY <1>1, <1>2, <1>3

(* Fewer connections are closing.                                          *)
LEMMA SubClosing ==
  ASSUME NEW q \in Process, NEW r \in Process, WorkerOK(r),
         q.st \in Closing, r.st \in Closing, r.sigs = q.sigs, r.exit = q.exit
  PROVE  Sub(q, r)
BY DEF Sub, Fresh, Closing

(* Fewer processes have ended.                                             *)
LEMMA SubDead ==
  ASSUME NEW q \in Process, q.st \in Working,
         NEW how \in {"ok", "usr2", "failed"},
         how = "ok" => q.st = "wanna_die",
         how = "usr2" => "usr2" \in q.sigs
  PROVE  Sub(q, Dead(q, how))
<1> DEFINE d == Dead(q, how)
<1>1. d \in Process /\ WorkerOK(d) /\ d.st = "dead" /\ d.exit = how /\ d.sigs = {}
  BY DeadOK
<1> HIDE DEF d
<1>2. Sub(q, d)
  BY <1>1 DEF Sub, Fresh, Working, Closing
<1> QED
  BY <1>2 DEF d

(* rspamd_worker_term_handler and rspamd_worker_usr2_handler.              *)
LEMMA SubSignal ==
  ASSUME NEW q \in Process, WorkerOK(q), NEW s \in {"term", "usr2"}, s \in q.sigs,
         q.st \in {"starting", "running"}, NEW r \in OnSignal(q, s)
  PROVE  Sub(q, r)
<1> DEFINE t == [q EXCEPT !.st = "terminating", !.sigs = {}]
<1>1. CASE q.st = "starting"
  <2>1. r = Dead(q, IF s = "usr2" THEN "usr2" ELSE "failed")
    BY <1>1 DEF OnSignal
  <2> QED
    BY <1>1, <2>1, SubDead DEF Working
<1>2. CASE q.st = "running"
  <2>1. /\ t \in Process /\ t.st = "terminating" /\ t.sigs = {} /\ t.exit = q.exit
        /\ t.final = q.final
    BY Zenon DEF Process, Working, Closing
  <2>2. q.final = 0
    BY <1>2 DEF WorkerOK
  <2>3. r \in (IF s = "usr2" THEN {t} ELSE TerminateHandlers(t))
    BY <1>2 DEF OnSignal
  <2> HIDE DEF t
  <2>4. WorkerOK(t)
    BY <2>1, <2>2 DEF WorkerOK
  <2>5. /\ r \in Process /\ WorkerOK(r) /\ r.st \in Closing
        /\ r.sigs = {} /\ r.exit = q.exit
    BY <2>1, <2>3, <2>4, TerminateOK DEF Closing
  <2> QED
    BY <1>2, <2>5 DEF Sub, Fresh, Closing
<1> QED
  BY <1>1, <1>2

(* Connections come and go, workers hang and resume.                       *)
LEMMA SubHung ==
  ASSUME NEW q \in Process, WorkerOK(q), NEW h \in BOOLEAN
  PROVE  Sub(q, [q EXCEPT !.hung = h])
<1> DEFINE r == [q EXCEPT !.hung = h]
<1>1. r \in Process
  BY Zenon DEF Process
<1>2. /\ r.st = q.st /\ r.sigs = q.sigs /\ r.exit = q.exit /\ r.final = q.final
      /\ r.conns = q.conns /\ r.forced = q.forced
  BY DEF Process
<1> HIDE DEF r
<1>3. WorkerOK(r)
  BY <1>2 DEF WorkerOK
<1>4. Sub(q, r)
  BY <1>1, <1>2, <1>3 DEF Sub, Fresh
<1> QED
  BY <1>4 DEF r

(* Fewer connections are open.                                             *)
LEMMA SubConns ==
  ASSUME NEW q \in Process, WorkerOK(q), q.st \in {"running", "terminating", "wait_conns"},
         NEW c \in 0..MaxConns
  PROVE  LET r == [q EXCEPT !.conns = c]
         IN  /\ Sub(q, r) /\ r.st = q.st /\ r.conns = c /\ r.final = 0
             /\ r.sigs = q.sigs /\ r.exit = q.exit
<1> DEFINE r == [q EXCEPT !.conns = c]
<1>1. r \in Process
  BY Zenon DEF Process
<1>2. /\ r.st = q.st /\ r.sigs = q.sigs /\ r.exit = q.exit /\ r.final = q.final
      /\ r.conns = c
  BY DEF Process
<1> HIDE DEF r
<1>3. WorkerOK(r) /\ r.final = 0
  BY <1>2 DEF WorkerOK
<1>4. Sub(q, r)
  BY <1>1, <1>2, <1>3 DEF Sub, Fresh
<1> QED
  BY <1>2, <1>3, <1>4 DEF r

(***************************************************************************)
(* The table and the timers.                                               *)
(***************************************************************************)

(* The entries of a pid before and after a step that neither adds nor      *)
(* removes a worker.                                                       *)
SameJob(e, f) ==
  /\ f.helper = e.helper
  /\ f.st = "none" <=> e.st = "none"
  /\ e.st # "none" => f.job = e.job

(* Such a step leaves the slots as they are.                               *)
LEMMA SlotsStay ==
  ASSUME MainInv, TypeOK', PidsOK', wait' = wait,
         main'.gen = main.gen, main'.given = main.given,
         main'.st = "up" => main.st = "up",
         \A p \in Pids : SameJob(table[p], table'[p])
  PROVE  MainInv'
<1>1. \A p \in Pids, j \in Job : Serves(p, j)' <=> Serves(p, j)
  BY DEF SameJob, Serves, IsWorker, Present
<1>2. SlotOnce'
  BY <1>1 DEF MainInv, SlotOnce
<1>3. \A s \in Slots : [slot |-> s, gen |-> main.gen] \in Job
  BY DEF MainInv, TypeOK, Main, Job
<1>4. SlotCovered'
  BY <1>1, <1>3 DEF MainInv, SlotCovered
<1>5. WaitOK'
  BY DEF MainInv, WaitOK
<1> QED
  BY <1>2, <1>4, <1>5 DEF MainInv

(* A step of the process of p alone.                                       *)
LEMMA ProcStep ==
  ASSUME MainInv, NEW p \in Pids, NEW r, Sub(proc[p], r),
         proc' = [proc EXCEPT ![p] = r], UNCHANGED <<main, wait, table>>,
         events' \in 0..MaxEvents
  PROVE  MainInv'
<1>1. TypeOK'
  BY Zenon DEF MainInv, TypeOK, Sub
<1>2. \A q \in Pids : proc'[q] = IF q = p THEN r ELSE proc[q]
  BY DEF MainInv, TypeOK, All
<1>3. PidOK(main, table[p], r)
  BY DEF MainInv, PidsOK, PidOK, SlotOK, Sub
<1>4. PidsOK'
  BY <1>2, <1>3 DEF MainInv, PidsOK
<1>5. \A q \in Pids : SameJob(table[q], table'[q])
  BY DEF SameJob
<1> QED
  BY <1>1, <1>4, <1>5, SlotsStay

(* A step that leaves the workers alone, but for what they have to tell.   *)
SamePid(q, r) == r.st = q.st /\ r.sigs = q.sigs /\ r.exit = q.exit
                 /\ r.final = q.final /\ r.conns = q.conns /\ r.forced = q.forced

(* A step of a process on its pipe.                                        *)
LEMMA PipeStep ==
  ASSUME MainInv, TypeOK', UNCHANGED <<main, wait>>,
         \A q \in Pids : table'[q] = table[q] /\ SamePid(proc[q], proc'[q])
  PROVE  MainInv'
<1>1. PidsOK'
  <2> SUFFICES ASSUME NEW q \in Pids PROVE PidOK(main', table'[q], proc'[q])
    BY DEF PidsOK
  <2>1. PidOK(main, table[q], proc[q]) /\ SamePid(proc[q], proc'[q])
    BY DEF MainInv, PidsOK
  <2>2. WorkerOK(proc'[q])
    BY <2>1 DEF PidOK, WorkerOK, SamePid
  <2>3. \A e : SlotOK(e, proc[q]) => SlotOK(e, proc'[q])
    BY <2>1 DEF SlotOK, Fresh, SamePid
  <2> QED
    BY <2>1, <2>2, <2>3 DEF PidOK, SamePid
<1>2. \A q \in Pids : SameJob(table[q], table'[q])
  BY DEF SameJob
<1> QED
  BY <1>1, <1>2, SlotsStay

(***************************************************************************)
(* The steps of a worker.                                                  *)
(***************************************************************************)

(* The process of an entry.                                                *)
LEMMA WorkerAt ==
  ASSUME MainInv, NEW p \in Pids
  PROVE  /\ proc[p] \in Process /\ WorkerOK(proc[p])
         /\ PidOK(main, table[p], proc[p])
         /\ table[p] \in Entry \cup {NoEntry}
BY DEF MainInv, TypeOK, PidsOK, PidOK, All

(* An event that is counted.                                               *)
LEMMA EventCount ==
  ASSUME MainInv, Event \/ UNCHANGED events
  PROVE  events' \in 0..MaxEvents
BY MainAssumption DEF MainInv, TypeOK, Event

(* A worker hangs.                                                         *)
LEMMA HangOK ==
  ASSUME MainInv, NEW p \in Pids, Hang(p) \/ Resume(p)
  PROVE  MainInv'
<1>1. PICK h \in BOOLEAN : /\ proc' = [proc EXCEPT ![p] = [proc[p] EXCEPT !.hung = h]]
                           /\ UNCHANGED <<main, wait, table>>
  BY Zenon DEF Hang, Resume, Become, Change
<1>2. Sub(proc[p], [proc[p] EXCEPT !.hung = h])
  BY WorkerAt, SubHung
<1>3. events' \in 0..MaxEvents
  BY EventCount DEF Hang, Resume, Change
<1> QED
  BY <1>1, <1>2, <1>3, ProcStep, Zenon

(* A process ends.                                                         *)
LEMMA EndOK ==
  ASSUME MainInv, NEW p \in Pids, Crash(p) \/ Exit(p)
  PROVE  MainInv'
<1>1. PICK how \in {"ok", "failed"} :
        /\ proc' = [proc EXCEPT ![p] = Dead(proc[p], how)]
        /\ proc[p].st \in Working /\ (how = "ok" => proc[p].st = "wanna_die")
        /\ UNCHANGED <<main, wait, table>>
  BY DEF Crash, Exit, Become, Change, Working, Closing
<1>2. Sub(proc[p], Dead(proc[p], how))
  BY <1>1, WorkerAt, SubDead
<1>3. events' \in 0..MaxEvents
  BY EventCount DEF Crash, Exit, Change
<1> QED
  BY <1>1, <1>2, <1>3, ProcStep, Zenon

(* A worker accepts a connection.                                          *)
LEMMA AcceptOK ==
  ASSUME MainInv, NEW p \in Pids, Accept(p)
  PROVE  MainInv'
<1> DEFINE c == proc[p].conns + 1
<1>1. c \in 0..MaxConns
  BY WorkerAt, MainAssumption DEF Accept, Process
<1>2. /\ proc' = [proc EXCEPT ![p] = [proc[p] EXCEPT !.conns = c]]
      /\ UNCHANGED <<main, wait, table>> /\ proc[p].st = "running"
  BY DEF Accept, Become
<1>3. events' \in 0..MaxEvents
  BY EventCount DEF Accept
<1> HIDE DEF c
<1>4. Sub(proc[p], [proc[p] EXCEPT !.conns = c])
  BY <1>1, <1>2, WorkerAt, SubConns
<1> QED
  BY <1>2, <1>3, <1>4, ProcStep, Zenon

(* Inclusion is transitive.                                                *)
LEMMA SubTrans ==
  ASSUME NEW q, NEW r, NEW s, Sub(q, r), Sub(r, s)
  PROVE  Sub(q, s)
BY DEF Sub

(* A connection of a worker is done.                                       *)
LEMMA ConnDoneOK ==
  ASSUME MainInv, NEW p \in Pids, ConnDone(p)
  PROVE  MainInv'
<1> DEFINE c == proc[p].conns - 1
           q == [proc[p] EXCEPT !.conns = c]
<1>1. c \in 0..MaxConns
  BY WorkerAt, MainAssumption, SMTT(30) DEF ConnDone, Process
<1>2. PICK r \in (IF q.st = "wait_conns" /\ q.conns = 0
                  THEN FinishHandlers(q)
                  ELSE IF q.st # "running"
                  THEN {[q EXCEPT !.st = "wait_conns"]}
                  ELSE {q}) : Change(p, r)
  BY DEF ConnDone
<1>3. proc[p].st \in {"running", "terminating", "wait_conns"}
  BY WorkerAt DEF ConnDone, LoopRuns, Working, Closing, WorkerOK
<1> HIDE DEF c
<1>4. /\ Sub(proc[p], q) /\ q.st = proc[p].st /\ q.conns = c /\ q.final = 0
      /\ q.sigs = proc[p].sigs /\ q.exit = proc[p].exit
  BY <1>1, <1>3, WorkerAt, SubConns
<1> HIDE DEF q
<1>5. q \in Process /\ WorkerOK(q)
  BY <1>4 DEF Sub
<1>6. Sub(q, r)
  <2>1. CASE q.st = "wait_conns" /\ q.conns = 0
    <3>1. r \in FinishHandlers(q) /\ q.st \in Closing
      BY <1>2, <2>1 DEF Closing
    <3> QED
      BY <1>4, <1>5, <2>1, <3>1, FinishOK, SubClosing DEF Closing
  <2>2. CASE ~(q.st = "wait_conns" /\ q.conns = 0) /\ q.st # "running"
    <3>1. r = [q EXCEPT !.st = "wait_conns"] /\ q.st \in {"terminating", "wait_conns"}
      BY <1>2, <1>3, <1>4, <2>2
    <3>2. /\ r \in Process /\ r.st = "wait_conns" /\ r.final = q.final
          /\ r.sigs = q.sigs /\ r.exit = q.exit
      BY <1>5, <3>1, Zenon DEF Process, Working, Closing
    <3>3. WorkerOK(r)
      BY <1>4, <1>5, <3>1, <3>2 DEF WorkerOK
    <3> QED
      BY <1>5, <3>1, <3>2, <3>3, SubClosing, Zenon DEF Closing
  <2>3. CASE ~(q.st = "wait_conns" /\ q.conns = 0) /\ q.st = "running"
    BY <1>2, <1>5, <2>3 DEF Sub
  <2> QED
    BY <2>1, <2>2, <2>3
<1>7. Sub(proc[p], r)
  BY <1>4, <1>6, SubTrans
<1>8. events' \in 0..MaxEvents
  BY <1>2, EventCount DEF Change
<1> QED
  BY <1>2, <1>7, <1>8, ProcStep, Zenon DEF Change, Become

(* A worker gets SIGTERM or SIGUSR2.                                       *)
LEMMA SignalOK ==
  ASSUME MainInv, NEW p \in Pids, NEW s \in {"term", "usr2"}, Signal(p, s)
  PROVE  MainInv'
<1>1. PICK r \in OnSignal(proc[p], s) : Change(p, r)
  BY DEF Signal
<1>2. s \in proc[p].sigs /\ proc[p].st \in {"starting", "running"}
  BY WorkerAt DEF Signal, WorkerOK
<1>3. Sub(proc[p], r)
  BY <1>2, WorkerAt, SubSignal
<1>4. events' \in 0..MaxEvents
  BY <1>1, EventCount DEF Change
<1> QED
  BY <1>1, <1>3, <1>4, ProcStep, Zenon DEF Change, Become

(* rspamd_worker_shutdown_check.                                           *)
LEMMA ShutdownCheckOK ==
  ASSUME MainInv, NEW p \in Pids, ShutdownCheck(p)
  PROVE  MainInv'
<1>1. PICK r \in TerminateHandlers(proc[p]) : Change(p, r)
  BY DEF ShutdownCheck
<1>2. proc[p].st \in Closing \ {"wanna_die"}
  BY DEF ShutdownCheck, LoopRuns
<1>3. Sub(proc[p], r)
  BY <1>2, WorkerAt, TerminateOK, SubClosing
<1>4. events' \in 0..MaxEvents
  BY <1>1, EventCount DEF Change
<1> QED
  BY <1>1, <1>3, <1>4, ProcStep, Zenon DEF Change, Become

(* The finish scripts are done.                                            *)
LEMMA ScriptsDoneOK ==
  ASSUME MainInv, NEW p \in Pids, ScriptsDone(p)
  PROVE  MainInv'
<1> DEFINE q == proc[p]
           r == [q EXCEPT !.st = "wanna_die"]
<1>1. Change(p, r) /\ q.st = "wait_scripts"
  BY DEF ScriptsDone
<1>2. q \in Process /\ WorkerOK(q)
  BY WorkerAt
<1> HIDE DEF q
<1>3. r \in Process
  BY <1>2, Zenon DEF Process, Working, Closing
<1>4. /\ r.st = "wanna_die" /\ r.sigs = q.sigs /\ r.exit = q.exit
      /\ r.final = q.final /\ r.conns = q.conns
  BY <1>2 DEF Process
<1>5. events' \in 0..MaxEvents
  BY <1>1, EventCount DEF Change
<1> HIDE DEF r
<1>6. WorkerOK(r)
  BY <1>1, <1>2, <1>4 DEF WorkerOK
<1>7. Sub(q, r)
  BY <1>1, <1>2, <1>3, <1>4, <1>6, SubClosing DEF Closing
<1> QED
  BY <1>1, <1>5, <1>7, ProcStep, Zenon DEF Change, Become, q

(* rspamd_worker_on_delayed_shutdown.                                      *)
LEMMA DelayedShutdownOK ==
  ASSUME MainInv, NEW p \in Pids, DelayedShutdown(p)
  PROVE  MainInv'
<1> DEFINE q == proc[p]
           r == [q EXCEPT !.st = "wanna_die", !.forced = TRUE]
<1>1. Change(p, r) /\ q.st \in Closing
  BY DEF DelayedShutdown
<1>2. q \in Process /\ WorkerOK(q)
  BY WorkerAt
<1> HIDE DEF q
<1>3. r \in Process
  <2>1. ASSUME NEW h \in BOOLEAN
        PROVE  [q EXCEPT !.st = "wanna_die", !.forced = h] \in Process
    BY <1>2, Zenon DEF Process, Working, Closing
  <2> QED
    BY <2>1, Zenon
<1>4. /\ r.st = "wanna_die" /\ r.sigs = q.sigs /\ r.exit = q.exit
      /\ r.final = q.final /\ r.conns = q.conns /\ r.forced
  BY <1>2 DEF Process
<1>5. events' \in 0..MaxEvents
  BY <1>1, EventCount DEF Change
<1> HIDE DEF r
<1>6. WorkerOK(r)
  BY <1>1, <1>2, <1>4 DEF WorkerOK, Closing, Process
<1>7. Sub(q, r)
  BY <1>1, <1>2, <1>3, <1>4, <1>6, SubClosing DEF Closing
<1> QED
  BY <1>1, <1>5, <1>7, ProcStep, Zenon DEF Change, Become, q

(* A pipe takes and gives notices about helpers.                           *)
LEMMA PipeOK ==
  ASSUME NEW q \in Process, NEW s \in Seq(Helpers \X {"create", "dead"})
  PROVE  /\ [q EXCEPT !.pipe = s] \in Process
         /\ SamePid(q, [q EXCEPT !.pipe = s])
BY Zenon DEF Process, SamePid

(* A worker starts a helper.                                               *)
LEMMA HelperOK ==
  ASSUME MainInv, NEW p \in Pids, NEW x \in Helpers, SpawnHelper(p, x) \/ ReapHelper(p, x)
  PROVE  MainInv'
<1> DEFINE note == IF SpawnHelper(p, x) THEN <<x, "create">> ELSE <<x, "dead">>
           h == IF SpawnHelper(p, x) THEN [NoProcess EXCEPT !.st = "helper", !.parent = p]
                ELSE [proc[x] EXCEPT !.parent = NoPid]
           s == Append(proc[p].pipe, note)
           q == [proc[p] EXCEPT !.pipe = s]
<1>1. x # p /\ x \in All /\ p \in All
  BY MainAssumption DEF All
<1>2. /\ proc' = [proc EXCEPT ![x] = h, ![p] = q]
      /\ UNCHANGED <<main, wait, table>>
  <2>1. CASE SpawnHelper(p, x)
    BY <1>1, <2>1, Zenon DEF SpawnHelper, MainInv, TypeOK
  <2>2. CASE ~SpawnHelper(p, x)
    BY <1>1, <2>2 DEF ReapHelper, MainInv, TypeOK
  <2> QED
    BY <2>1, <2>2
<1>3. h \in Process
  <2>1. CASE SpawnHelper(p, x)
    BY <2>1, NoProcessOK, Zenon DEF Process
  <2>2. CASE ~SpawnHelper(p, x)
    <3>1. ASSUME NEW y \in Process PROVE [y EXCEPT !.parent = NoPid] \in Process
      BY Zenon DEF Process
    <3>2. proc[x] \in Process
      BY <1>1 DEF MainInv, TypeOK
    <3> QED
      BY <2>2, <3>1, <3>2
  <2> QED
    BY <2>1, <2>2
<1>4. s \in Seq(Helpers \X {"create", "dead"})
  BY WorkerAt DEF Process
<1>5. events' \in 0..MaxEvents
  BY EventCount DEF SpawnHelper, ReapHelper
<1> HIDE DEF h, s
<1>6. q \in Process /\ SamePid(proc[p], q)
  BY <1>4, PipeOK, WorkerAt, Zenon
<1> HIDE DEF q
<1>7. TypeOK'
  BY <1>1, <1>2, <1>3, <1>5, <1>6 DEF MainInv, TypeOK
<1>8. \A i \in Pids : proc'[i] = IF i = p THEN q ELSE proc[i]
  BY <1>1, <1>2, MainAssumption DEF MainInv, TypeOK, All
<1>9. \A i \in Pids : table'[i] = table[i] /\ SamePid(proc[i], proc'[i])
  BY <1>2, <1>6, <1>8, Zenon DEF SamePid
<1> QED
  BY <1>2, <1>7, <1>9, PipeStep, Zenon

(* A helper exits.                                                         *)
LEMMA HelperExitOK ==
  ASSUME MainInv, NEW x \in Helpers, HelperExit(x)
  PROVE  MainInv'
<1> DEFINE h == [proc[x] EXCEPT !.st = "dead"]
<1>1. /\ proc' = [proc EXCEPT ![x] = h] /\ UNCHANGED <<main, wait, table, events>>
  BY DEF HelperExit, Change, Become
<1>2. h \in Process
  <2>1. ASSUME NEW y \in Process PROVE [y EXCEPT !.st = "dead"] \in Process
    BY SMTT(30) DEF Process
  <2>2. proc[x] \in Process
    BY DEF MainInv, TypeOK, All
  <2> QED
    BY <2>1, <2>2
<1> HIDE DEF h
<1>3. TypeOK'
  BY <1>1, <1>2, Zenon DEF MainInv, TypeOK
<1>4. \A i \in Pids : table'[i] = table[i] /\ SamePid(proc[i], proc'[i])
  BY <1>1, MainAssumption DEF MainInv, TypeOK, All, SamePid
<1> QED
  BY <1>1, <1>3, <1>4, PipeStep

(***************************************************************************)
(* The entries of the table.                                               *)
(***************************************************************************)

(* The entry of a pid.                                                     *)
LEMMA EntryAt ==
  ASSUME MainInv, NEW p \in All, Present(p)
  PROVE  table[p] \in Entry
BY DEF MainInv, TypeOK, Present, NoEntry

(* What a mark changes in an entry, and what it leaves.                    *)
SameMarks(e, f) ==
  /\ f.helper = e.helper /\ f.st = e.st /\ f.job = e.job /\ f.old = e.old
  /\ f.asked = e.asked /\ f.nbeats = e.nbeats

(* A heartbeat in an entry.                                                *)
LEMMA MarkBeat ==
  ASSUME NEW e \in Entry, NEW b \in BOOLEAN
  PROVE  LET f == [e EXCEPT !.beat = b]
         IN  f \in Entry /\ SameMarks(e, f) /\ f.hb = e.hb /\ f.srv = e.srv
BY DEF Entry, SameMarks

(* The busy mark of an entry.                                              *)
LEMMA MarkBusy ==
  ASSUME NEW e \in Entry, NEW b \in BOOLEAN
  PROVE  LET f == [e EXCEPT !.busy = b]
         IN  f \in Entry /\ SameMarks(e, f) /\ f.hb = e.hb /\ f.srv = e.srv
BY DEF Entry, SameMarks

(* The pipe of an entry.                                                   *)
LEMMA MarkSrv ==
  ASSUME NEW e \in Entry, NEW b \in BOOLEAN
  PROVE  LET f == [e EXCEPT !.srv = b]
         IN  f \in Entry /\ SameMarks(e, f) /\ f.hb = e.hb /\ f.srv = b
BY DEF Entry, SameMarks

(* The pipe and the heartbeat of an entry.                                 *)
LEMMA MarkBoth ==
  ASSUME NEW e \in Entry, NEW b \in BOOLEAN, NEW c \in BOOLEAN
  PROVE  LET f == [e EXCEPT !.srv = b, !.hb = c]
         IN  f \in Entry /\ SameMarks(e, f) /\ f.hb = c /\ f.srv = b
BY Zenon DEF Entry, SameMarks

(* A mark leaves the pid of an entry alone.                                *)
LEMMA MarkedPid ==
  ASSUME NEW m, NEW e \in Entry, NEW f \in Entry, NEW q, SameMarks(e, f),
         PidOK(m, e, q), ~e.old => f.hb /\ (q.st # "dead" => f.srv)
  PROVE  PidOK(m, f, q) /\ SameJob(e, f)
<1>1. SlotOK(e, q) => SlotOK(f, q)
  BY DEF SlotOK, SameMarks
<1> QED
  BY <1>1 DEF PidOK, SameMarks, SameJob

(* A step that marks the entry of p.                                       *)
LEMMA MarkStep ==
  ASSUME MainInv, NEW p \in Pids, Present(p), NEW f \in Entry, SameMarks(table[p], f),
         table' = [table EXCEPT ![p] = f], UNCHANGED <<main, wait>>,
         events' \in 0..MaxEvents, NEW r, Sub(proc[p], r),
         proc' = [proc EXCEPT ![p] = r],
         ~table[p].old => f.hb /\ (r.st # "dead" => f.srv)
  PROVE  MainInv'
<1>1. TypeOK'
  BY Zenon DEF MainInv, TypeOK, Sub
<1>2. \A q \in Pids : /\ proc'[q] = IF q = p THEN r ELSE proc[q]
                      /\ table'[q] = IF q = p THEN f ELSE table[q]
  BY SMTT(30) DEF MainInv, TypeOK, All
<1>3. PidOK(main, table[p], r)
  BY DEF MainInv, PidsOK, PidOK, SlotOK, Sub
<1>4. table[p] \in Entry
  BY EntryAt DEF All
<1>5. PidOK(main, f, r) /\ SameJob(table[p], f)
  BY <1>3, <1>4, MarkedPid
<1>6. PidsOK'
  BY <1>2, <1>5 DEF MainInv, PidsOK
<1>7. \A q \in Pids : SameJob(table[q], table'[q])
  BY <1>2, <1>5 DEF SameJob
<1> QED
  BY <1>1, <1>6, <1>7, SlotsStay

(* A worker sends its first heartbeat.                                     *)
LEMMA StartOK ==
  ASSUME MainInv, NEW p \in Pids, Start(p)
  PROVE  MainInv'
<1> DEFINE q == proc[p]
           r == [q EXCEPT !.st = "running"]
           e == table[p]
<1>1. q \in Process /\ WorkerOK(q) /\ PidOK(main, e, q) /\ q.st = "starting"
  BY WorkerAt DEF Start
<1>2. Present(p)
  BY <1>1 DEF PidOK, Present
<1>3. e \in Entry
  BY <1>2, EntryAt DEF All
<1>4. /\ proc' = [proc EXCEPT ![p] = r] /\ UNCHANGED <<main, wait, events>>
      /\ table' = [table EXCEPT ![p] = [e EXCEPT !.beat = e.srv]]
  BY DEF Start
<1>5. events' \in 0..MaxEvents
  BY <1>4, EventCount
<1> HIDE DEF q, e
<1>6. e.srv \in BOOLEAN
  BY <1>3 DEF Entry
<1>7. PICK f \in Entry : /\ f = [e EXCEPT !.beat = e.srv]
                         /\ SameMarks(e, f) /\ f.hb = e.hb /\ f.srv = e.srv
  BY <1>3, <1>6, MarkBeat, Zenon
<1>8. r \in Process
  BY <1>1, Zenon DEF Process, Working
<1>9. /\ r.st = "running" /\ r.sigs = q.sigs /\ r.exit = q.exit /\ r.final = q.final
  BY <1>1 DEF Process
<1> HIDE DEF r
<1>10. WorkerOK(r)
  BY <1>1, <1>9 DEF WorkerOK
<1>11. Sub(q, r)
  BY <1>1, <1>8, <1>9, <1>10 DEF Sub, Fresh
<1>12. ~e.old => f.hb /\ (r.st # "dead" => f.srv)
  BY <1>1, <1>7 DEF PidOK
<1>13. table' = [table EXCEPT ![p] = f]
  BY <1>4, <1>7
<1> QED
  BY <1>2, <1>4, <1>5, <1>7, <1>11, <1>12, <1>13, MarkStep, Zenon DEF q, e

(* Inclusion is reflexive.                                                 *)
LEMMA SubSame ==
  ASSUME NEW q \in Process, WorkerOK(q)
  PROVE  Sub(q, q)
BY DEF Sub

(* A worker reports that it is busy or no longer busy.                     *)
LEMMA SetBusyOK ==
  ASSUME MainInv, NEW p \in Pids, SetBusy(p)
  PROVE  MainInv'
<1> DEFINE e == table[p]
<1>1. proc[p] \in Process /\ WorkerOK(proc[p]) /\ PidOK(main, e, proc[p]) /\ proc[p].st = "running"
  BY WorkerAt DEF SetBusy
<1>2. Present(p)
  BY <1>1 DEF PidOK, Present
<1>3. e \in Entry
  BY <1>2, EntryAt DEF All
<1>4. /\ UNCHANGED <<main, wait, proc>>
      /\ table' = [table EXCEPT ![p] = [e EXCEPT !.busy = ~e.busy]]
  BY DEF SetBusy
<1>5. events' \in 0..MaxEvents
  BY EventCount DEF SetBusy
<1> HIDE DEF e
<1>6. (~e.busy) \in BOOLEAN
  OBVIOUS
<1>7. PICK f \in Entry : /\ f = [e EXCEPT !.busy = ~e.busy]
                         /\ SameMarks(e, f) /\ f.hb = e.hb /\ f.srv = e.srv
  BY <1>3, <1>6, MarkBusy, Zenon
<1>8. proc' = [proc EXCEPT ![p] = proc[p]]
  BY <1>4 DEF MainInv, TypeOK
<1>9. Sub(proc[p], proc[p])
  BY <1>1, SubSame
<1>10. ~e.old => f.hb /\ (proc[p].st # "dead" => f.srv)
  BY <1>1, <1>7, <1>2 DEF PidOK, Present, e
<1>11. table' = [table EXCEPT ![p] = f]
  BY <1>4, <1>7
<1> QED
  BY <1>2, <1>4, <1>5, <1>7, <1>8, <1>9, <1>10, <1>11, MarkStep, Zenon DEF e

(* The pipe of a process is closed.                                        *)
LEMMA SrvClosedOK ==
  ASSUME MainInv, NEW p \in Pids, SrvClosed(p)
  PROVE  MainInv'
<1> DEFINE e == table[p]
<1>1. proc[p] \in Process /\ WorkerOK(proc[p]) /\ PidOK(main, e, proc[p]) /\ proc[p].st = "dead"
  BY WorkerAt DEF SrvClosed
<1>2. Present(p)
  BY DEF SrvClosed, IsWorker
<1>3. e \in Entry
  BY <1>2, EntryAt DEF All
<1>4. /\ UNCHANGED <<main, wait, proc, events>>
      /\ table' = [table EXCEPT ![p] = [e EXCEPT !.srv = FALSE]]
  BY DEF SrvClosed
<1>5. events' \in 0..MaxEvents
  BY <1>4, EventCount
<1> HIDE DEF e
<1>6. PICK f \in Entry : f = [e EXCEPT !.srv = FALSE] /\ SameMarks(e, f) /\ f.hb = e.hb
  BY <1>3, MarkSrv, Zenon
<1>7. proc' = [proc EXCEPT ![p] = proc[p]]
  BY <1>4 DEF MainInv, TypeOK
<1>8. Sub(proc[p], proc[p])
  BY <1>1, SubSame
<1>9. ~e.old => f.hb /\ (proc[p].st # "dead" => f.srv)
  BY <1>1, <1>6, <1>2 DEF PidOK, Present, e
<1>10. table' = [table EXCEPT ![p] = f]
  BY <1>4, <1>6
<1> QED
  BY <1>2, <1>4, <1>5, <1>6, <1>7, <1>8, <1>9, <1>10, MarkStep, Zenon DEF e

(* The entry of a new worker.                                              *)
LEMMA NewEntryOK ==
  ASSUME NEW j \in Job
  PROVE  NewEntry(j) \in Entry
<1>1. 0 \in Floor..1
  BY MainAssumption DEF Floor
<1> QED
  BY <1>1 DEF NewEntry, Entry

(* The entry of a helper.                                                  *)
LEMMA HelperEntryOK ==
  ASSUME NEW e \in Entry
  PROVE  HelperEntry(e) \in Entry
<1> DEFINE n == NewEntry(e.job)
<1>1. n \in Entry
  BY NewEntryOK DEF Entry
<1>2. HelperEntry(e) = [n EXCEPT !.helper = TRUE, !.srv = FALSE, !.hb = FALSE]
  BY DEF HelperEntry
<1> HIDE DEF n
<1>3. ASSUME NEW a \in BOOLEAN, NEW b \in BOOLEAN, NEW c \in BOOLEAN
      PROVE  [n EXCEPT !.helper = a, !.srv = b, !.hb = c] \in Entry
  BY <1>1, Zenon DEF Entry
<1> QED
  BY <1>2, <1>3, Zenon

(* rspamd_srv_handler reads a command.                                     *)
LEMMA SrvReadOK ==
  ASSUME MainInv, NEW p \in Pids, SrvRead(p)
  PROVE  MainInv'
<1> DEFINE m == Head(proc[p].pipe)
           s == Tail(proc[p].pipe)
           q == [proc[p] EXCEPT !.pipe = s]
           f == IF m[2] = "create" THEN HelperEntry(table[p]) ELSE NoEntry
<1>1. proc[p] \in Process /\ proc[p].pipe # <<>> /\ Present(p)
  BY WorkerAt DEF SrvRead, IsWorker
<1>2. m \in Helpers \X {"create", "dead"} /\ s \in Seq(Helpers \X {"create", "dead"})
  BY <1>1 DEF Process
<1>3. m[1] \in Helpers
  BY <1>2
<1>4. /\ proc' = [proc EXCEPT ![p] = q] /\ UNCHANGED <<main, wait, events>>
      /\ table' = [table EXCEPT ![m[1]] = f]
  BY DEF SrvRead
<1>5. f \in Entry \cup {NoEntry}
  BY <1>1, EntryAt, HelperEntryOK DEF All
<1> HIDE DEF m, s, f
<1>6. q \in Process /\ SamePid(proc[p], q)
  BY <1>1, <1>2, PipeOK, ZenonT(60)
<1> HIDE DEF q
<1>7. TypeOK'
  BY <1>3, <1>4, <1>5, <1>6 DEF MainInv, TypeOK, All
<1>8. \A i \in Pids : /\ table'[i] = table[i]
                      /\ proc'[i] = IF i = p THEN q ELSE proc[i]
  BY <1>3, <1>4, MainAssumption DEF MainInv, TypeOK, All
<1>9. \A i \in Pids : table'[i] = table[i] /\ SamePid(proc[i], proc'[i])
  BY <1>6, <1>8 DEF SamePid
<1> QED
  BY <1>4, <1>7, <1>9, PipeStep

(* reread_config fails.                                                    *)
LEMMA ReloadFailsOK ==
  ASSUME MainInv, ReloadFails
  PROVE  MainInv'
<1>1. /\ table' = [p \in All |-> IF Present(p)
                     THEN [table[p] EXCEPT !.srv = TRUE, !.hb = TRUE] ELSE table[p]]
      /\ UNCHANGED <<main, wait, proc, events>>
  BY ZenonT(60) DEF ReloadFails
<1>2. ASSUME NEW p \in All, Present(p)
      PROVE  /\ table'[p] \in Entry /\ SameMarks(table[p], table'[p])
             /\ table'[p].hb /\ table'[p].srv
  <2>1. table[p] \in Entry
    BY <1>2, EntryAt
  <2> QED
    BY <1>1, <1>2, <2>1, MarkBoth, Zenon
<1>3. \A p \in All : ~Present(p) => table'[p] = table[p]
  BY <1>1, ZenonT(60)
<1>4. TypeOK'
  <2>1. \A p \in All : table'[p] \in Entry \cup {NoEntry}
    BY <1>2, <1>3 DEF MainInv, TypeOK
  <2>2. table' = [p \in All |-> table'[p]]
    BY <1>1, Zenon
  <2>3. table' \in [All -> Entry \cup {NoEntry}]
    BY <2>1, <2>2
  <2> QED
    BY <1>1, <2>3, Zenon DEF MainInv, TypeOK
<1>5. ASSUME NEW p \in Pids
      PROVE  PidOK(main', table'[p], proc'[p]) /\ SameJob(table[p], table'[p])
  <2>1. PidOK(main', table[p], proc'[p])
    BY <1>1, Zenon DEF MainInv, PidsOK
  <2>2. CASE Present(p)
    <3>1. table[p] \in Entry
      BY <2>2, EntryAt DEF All
    <3> QED
      BY <1>2, <2>1, <2>2, <3>1, MarkedPid DEF All
  <2>3. CASE ~Present(p)
    BY <1>3, <2>1, <2>3 DEF All, SameJob
  <2> QED
    BY <2>2, <2>3
<1>6. PidsOK'
  BY <1>5 DEF PidsOK
<1> QED
  BY <1>1, <1>4, <1>5, <1>6, SlotsStay, Zenon

(***************************************************************************)
(* The shutdown of main.                                                   *)
(***************************************************************************)

(* A step of the main process that changes its table.                      *)
LEMMA MainSet ==
  ASSUME MainInv, NEW st \in {"up", "stopping", "exited", "crashed"},
         NEW n \in -1..Attempts
  PROVE  LET m == [main EXCEPT !.st = st, !.attempts = n]
         IN  m \in Main /\ m.st = st /\ m.gen = main.gen /\ m.given = main.given
<1>1. main \in Main
  BY DEF MainInv, TypeOK
<1> QED
  BY <1>1, Zenon DEF Main

(* Main stops, or has nobody left when it exits: what the table says of    *)
(* the workers matters less and less.                                      *)
LEMMA StopStep ==
  ASSUME MainInv, main' \in Main, UNCHANGED <<wait, table, events>>,
         main'.st # "up", main'.gen = main.gen, main'.given = main.given,
         main'.st = "exited" => \A p \in Pids : ~Present(p),
         proc' \in [All -> Process],
         \A p \in Pids : WorkerOK(proc'[p]) /\ (proc'[p].st # "free" => proc[p].st # "free")
                         /\ (proc[p].st = "dead" => proc'[p].st = "dead")
  PROVE  MainInv'
<1>1. TypeOK'
  BY DEF MainInv, TypeOK
<1>2. PidsOK'
  <2> SUFFICES ASSUME NEW p \in Pids PROVE PidOK(main', table[p], proc'[p])
    BY DEF PidsOK
  <2>1. PidOK(main, table[p], proc[p])
    BY DEF MainInv, PidsOK
  <2> QED
    BY <2>1 DEF PidOK, Present
<1>3. \A q \in Pids : SameJob(table[q], table'[q])
  BY DEF SameJob
<1> QED
  BY <1>1, <1>2, <1>3, SlotsStay

(* rspamd_term_handler.                                                    *)
LEMMA TermOK ==
  ASSUME MainInv, Term
  PROVE  MainInv'
<1>1. /\ main' = [main EXCEPT !.st = "stopping", !.attempts = Attempts]
      /\ proc' = [p \in All |-> IF Present(p) THEN Signalled(proc[p], "term") ELSE proc[p]]
      /\ UNCHANGED <<wait, table, events>>
  BY DEF Term
<1>2. Attempts \in -1..Attempts
  BY MainAssumption
<1>3. /\ main' \in Main /\ main'.st = "stopping"
      /\ main'.gen = main.gen /\ main'.given = main.given
  BY <1>1, <1>2, MainSet, Zenon
<1>4. \A q \in Process : Signalled(q, "term") \in Process
  BY DEF Process, Signalled, Working, Closing
<1>5. proc' \in [All -> Process]
  BY <1>1, <1>4 DEF MainInv, TypeOK
<1>6. ASSUME NEW p \in Pids
      PROVE  WorkerOK(proc'[p]) /\ (proc'[p].st # "free" => proc[p].st # "free")
             /\ (proc[p].st = "dead" => proc'[p].st = "dead")
  <2>1. proc'[p] \in {proc[p], Signalled(proc[p], "term")}
    BY <1>1 DEF All
  <2>2. proc[p] \in Process /\ WorkerOK(proc[p])
    BY WorkerAt
  <2>3. proc[p].st = "dead" => Signalled(proc[p], "term") = proc[p]
    BY DEF Signalled
  <2> QED
    BY <2>1, <2>2, <2>3, SignalledOK
<1> QED
  BY <1>1, <1>3, <1>5, <1>6, StopStep

(* rspamd_final_timer_handler.                                             *)
LEMMA FinalTimerOK ==
  ASSUME MainInv, FinalTimer
  PROVE  MainInv'
<1> DEFINE n == IF main.attempts < 0 THEN main.attempts ELSE main.attempts - 1
           st == IF \A p \in All : ~Present(p) THEN "exited" ELSE main.st
<1>1. /\ main' = [main EXCEPT !.attempts = n, !.st = st]
      /\ proc' = [p \in All |-> IF Present(p) /\ main.attempts <= 0
                                THEN Killed(proc[p]) ELSE proc[p]]
      /\ UNCHANGED <<wait, table, events>> /\ main.st = "stopping"
  BY DEF FinalTimer
<1>2. main \in Main
  BY DEF MainInv, TypeOK
<1>3. n \in -1..Attempts
  BY <1>2, MainAssumption DEF Main
<1>4. st \in {"stopping", "exited"} /\ (st = "exited" => \A p \in All : ~Present(p))
  BY <1>1
<1> HIDE DEF n, st
<1>5. /\ main' \in Main /\ main'.st = st
      /\ main'.gen = main.gen /\ main'.given = main.given
  BY <1>1, <1>2, <1>3, <1>4, Zenon DEF Main
<1>6. \A p \in All : proc[p] \in Process
  BY DEF MainInv, TypeOK
<1>7. \A q \in Process : Killed(q) \in Process
  <2> SUFFICES ASSUME NEW q \in Process PROVE Killed(q) \in Process
    OBVIOUS
  <2>1. CASE q.st = "helper"
    BY <2>1, Zenon DEF Killed, Process
  <2>2. CASE q.st # "helper" /\ q.st \in Working
    BY <2>2, DeadOK DEF Killed
  <2>3. CASE q.st # "helper" /\ q.st \notin Working
    BY <2>3 DEF Killed
  <2> QED
    BY <2>1, <2>2, <2>3
<1>8. proc' \in [All -> Process]
  BY <1>1, <1>6, <1>7
<1>9. ASSUME NEW p \in Pids
      PROVE  WorkerOK(proc'[p]) /\ (proc'[p].st # "free" => proc[p].st # "free")
             /\ (proc[p].st = "dead" => proc'[p].st = "dead")
  <2>1. proc'[p] \in {proc[p], Killed(proc[p])}
    BY <1>1 DEF All
  <2>2. proc[p] \in Process /\ WorkerOK(proc[p])
    BY WorkerAt
  <2> QED
    BY <2>1, <2>2, KilledOK
<1> QED
  BY <1>1, <1>4, <1>5, <1>8, <1>9, StopStep DEF All

(* reread_config fails while a helper is in the table.                     *)
LEMMA ReloadCrashesOK ==
  ASSUME MainInv, ReloadCrashes
  PROVE  MainInv'
<1>1. /\ main' = [main EXCEPT !.st = "crashed"]
      /\ UNCHANGED <<wait, table, proc, events>>
  BY DEF ReloadCrashes
<1>2. main \in Main
  BY DEF MainInv, TypeOK
<1>3. /\ main' \in Main /\ main'.st = "crashed"
      /\ main'.gen = main.gen /\ main'.given = main.given
  BY <1>1, <1>2 DEF Main
<1>4. proc' \in [All -> Process] /\ \A p \in Pids : WorkerOK(proc'[p])
  BY <1>1, WorkerAt DEF MainInv, TypeOK
<1> QED
  BY <1>1, <1>3, <1>4, StopStep

(***************************************************************************)
(* Heartbeats.                                                             *)
(***************************************************************************)

(* A heartbeat is missed.                                                  *)
LEMMA CheckedOK ==
  ASSUME MainInv, NEW p \in Pids, Present(p)
  PROVE  LET e == table[p]
             f == Checked(p)
         IN  /\ f \in Entry /\ f.helper = e.helper /\ f.st = e.st /\ f.job = e.job
             /\ f.old = e.old /\ f.hb = e.hb /\ f.srv = e.srv
             /\ f.nbeats = Beats(p)
             /\ f.asked = IF TooManyLost(p) THEN "asked"
                          ELSE IF e.asked = "asked" /\ Beats(p) = 1 THEN "heard"
                          ELSE e.asked
<1> DEFINE e == table[p]
           a == IF TooManyLost(p) THEN "asked"
                ELSE IF e.asked = "asked" /\ Beats(p) = 1 THEN "heard" ELSE e.asked
           b == e.beat \/ Heard(p)
           n == Beats(p)
<1>1. e \in Entry
  BY EntryAt DEF All
<1>2. n \in Floor..1
  BY <1>1, MainAssumption DEF Beats, Entry, Floor
<1>3. a \in {"no", "asked", "heard"} /\ b \in BOOLEAN
  BY <1>1 DEF Entry
<1>4. Checked(p) = [e EXCEPT !.nbeats = n, !.beat = b, !.asked = a]
  BY DEF Checked
<1> HIDE DEF e, a, b, n
<1>5. [e EXCEPT !.nbeats = n, !.beat = b, !.asked = a] \in Entry
  BY <1>1, <1>2, <1>3, Zenon DEF Entry
<1>6. LET f == [e EXCEPT !.nbeats = n, !.beat = b, !.asked = a]
      IN  /\ f.helper = e.helper /\ f.st = e.st /\ f.job = e.job
          /\ f.old = e.old /\ f.hb = e.hb /\ f.srv = e.srv
          /\ f.nbeats = n /\ f.asked = a
  BY <1>1 DEF Entry
<1> QED
  BY <1>4, <1>5, <1>6 DEF e, a, n

(* While the loss lasts, what made main ask the worker to end is there.    *)
LEMMA StillLost ==
  ASSUME MainInv, NEW p \in Pids, Present(p),
         table[p].asked = "asked", LossMax > 0, -table[p].nbeats >= LossMax,
         ~TooManyLost(p)
  PROVE  Beats(p) = 1
<1>1. table[p].nbeats \in Int /\ table[p].nbeats < 0 /\ Floor \in Int
  BY EntryAt, MainAssumption DEF All, Entry, Floor
<1>2. CASE Lost(p)
  <2>1. -Beats(p) >= LossMax
    BY <1>1, <1>2, MainAssumption DEF Beats, Floor
  <2> QED
    BY <1>1, <1>2, <2>1 DEF TooManyLost
<1>3. CASE ~Lost(p)
  BY <1>1, <1>3 DEF Beats
<1> QED
  BY <1>2, <1>3

(* rspamd_main_heartbeat_cb.                                               *)
LEMMA HeartbeatCheckOK ==
  ASSUME MainInv, NEW p \in Pids, HeartbeatCheck(p)
  PROVE  MainInv'
<1> DEFINE e == table[p]
           f == Checked(p)
           q == proc[p]
           r == IF ForceKill(p) THEN Killed(q)
                ELSE IF TooManyLost(p) THEN Signalled(q, "term") ELSE q
<1>1. /\ proc' = [proc EXCEPT ![p] = r] /\ table' = [table EXCEPT ![p] = f]
      /\ UNCHANGED <<main, wait, events>> /\ Present(p) /\ main.st = "up"
  BY DEF HeartbeatCheck, IsWorker
<1>2. q \in Process /\ WorkerOK(q) /\ PidOK(main, e, q)
  BY WorkerAt
<1>3. /\ f \in Entry /\ f.helper = e.helper /\ f.st = e.st /\ f.job = e.job
      /\ f.old = e.old /\ f.hb = e.hb /\ f.srv = e.srv
      /\ f.nbeats = Beats(p)
      /\ f.asked = IF TooManyLost(p) THEN "asked"
                   ELSE IF e.asked = "asked" /\ Beats(p) = 1 THEN "heard"
                   ELSE e.asked
  BY <1>1, CheckedOK
<1>4. ForceKill(p) => TooManyLost(p)
  BY DEF ForceKill
<1>5. /\ r \in Process /\ WorkerOK(r) /\ (r.st # "free" => q.st # "free")
      /\ (q.st = "dead" => r.st = "dead")
      /\ r.exit \in {q.exit, "failed"} /\ r.sigs \subseteq q.sigs \cup {"term"}
      /\ ~TooManyLost(p) => r = q
  <2>1. CASE ForceKill(p)
    BY <1>2, <1>4, <2>1, KilledOK, SMTT(30)
  <2>2. CASE ~ForceKill(p) /\ TooManyLost(p)
    <3>1. q.st = "dead" => Signalled(q, "term") = q
      BY SMTT(30) DEF Signalled
    <3> QED
      BY <1>2, <2>2, <3>1, SignalledOK
  <2>3. CASE ~ForceKill(p) /\ ~TooManyLost(p)
    BY <1>2, <2>3
  <2> QED
    BY <2>1, <2>2, <2>3, ZenonT(60)
<1>6. ASSUME SlotOK(e, q) PROVE SlotOK(f, r)
  <2>1. f.asked = "no" => Fresh(r)
    BY <1>3, <1>5, <1>6 DEF SlotOK
  <2>2. f.asked = "asked" => LossMax > 0 /\ -f.nbeats >= LossMax
    <3>1. CASE TooManyLost(p)
      BY <1>3, <3>1, SMTT(30) DEF TooManyLost
    <3>2. CASE ~TooManyLost(p)
      BY <1>1, <1>3, <1>6, <3>2, StillLost, SMTT(30) DEF SlotOK
    <3> QED
      BY <3>1, <3>2, SMTT(30)
  <2>3. "usr2" \notin r.sigs /\ r.exit # "usr2" /\ f.st = "running"
    BY <1>3, <1>5, <1>6, SMTT(30) DEF SlotOK
  <2> QED
    BY <2>1, <2>2, <2>3, SMTT(30) DEF SlotOK
<1> HIDE DEF e, f, q, r
<1>7. PidOK(main, f, r) /\ SameJob(e, f)
  BY <1>2, <1>3, <1>5, <1>6 DEF PidOK, SameJob
<1>8. TypeOK'
  BY <1>1, <1>3, <1>5, Zenon DEF MainInv, TypeOK
<1>9. \A i \in Pids : /\ proc'[i] = IF i = p THEN r ELSE proc[i]
                      /\ table'[i] = IF i = p THEN f ELSE table[i]
  BY <1>1 DEF MainInv, TypeOK, All
<1>10. PidsOK'
  BY <1>1, <1>7, <1>9 DEF MainInv, PidsOK
<1>11. \A i \in Pids : SameJob(table[i], table'[i])
  BY <1>7, <1>9 DEF SameJob, e
<1> QED
  BY <1>1, <1>8, <1>10, <1>11, SlotsStay

(***************************************************************************)
(* Forking and reaping.                                                    *)
(***************************************************************************)

(* The entry and the process of a worker that was just forked.             *)
LEMMA NewPidOK ==
  ASSUME NEW m, m.st \in {"up", "stopping"}, NEW j \in Job, j.gen <= m.gen
  PROVE  PidOK(m, NewEntry(j), NewProcess)
<1>1. LET e == NewEntry(j)
      IN  /\ ~e.helper /\ e.st = "running" /\ e.job = j /\ ~e.old /\ e.hb /\ e.srv
          /\ e.asked = "no"
  BY DEF NewEntry
<1>2. Fresh(NewProcess) /\ NewProcess.exit # "usr2"
  BY NewProcessOK DEF Fresh
<1>3. SlotOK(NewEntry(j), NewProcess)
  BY <1>1, <1>2, NewProcessOK DEF SlotOK, Fresh
<1> QED
  BY <1>1, <1>3, NewProcessOK DEF PidOK

(* rspamd_fork_delayed_cb.                                                 *)
LEMMA ForkDelayedOK ==
  ASSUME MainInv, NEW j \in wait, ForkDelayed(j)
  PROVE  MainInv'
<1> DEFINE n == NewPid
<1>1. n \in Free
  BY Zenon DEF ForkDelayed, NewPid
<1>2. n \in Pids /\ n \in All /\ ~Present(n)
  BY <1>1 DEF Free, All
<1>3. /\ wait' = wait \ {j} /\ table' = [table EXCEPT ![n] = NewEntry(j)]
      /\ proc' = [proc EXCEPT ![n] = NewProcess] /\ UNCHANGED <<main, events>>
      /\ main.st \in {"up", "stopping"}
  BY DEF ForkDelayed, Up
<1> HIDE DEF n
<1>4. j \in Job /\ j.gen <= main.gen
  BY SMTT(30) DEF MainInv, TypeOK, WaitOK
<1>5. TypeOK'
  BY <1>2, <1>3, <1>4, NewEntryOK, NewProcessOK DEF MainInv, TypeOK
<1>6. \A i \in Pids : /\ proc'[i] = IF i = n THEN NewProcess ELSE proc[i]
                      /\ table'[i] = IF i = n THEN NewEntry(j) ELSE table[i]
  BY <1>3 DEF MainInv, TypeOK, All
<1>7. PidsOK'
  BY <1>3, <1>4, <1>6, NewPidOK DEF MainInv, PidsOK
<1>8. WaitOK'
  BY <1>3, SMTT(30) DEF MainInv, WaitOK
<1>9. \A i \in Pids, k \in Job :
        Serves(i, k)' <=> IF i = n THEN k = j ELSE Serves(i, k)
  BY <1>2, <1>6 DEF Serves, IsWorker, Present, NewEntry
<1>10. SlotOnce'
  BY <1>2, <1>3, <1>4, <1>9, SMTT(30) DEF MainInv, SlotOnce
<1>11. SlotCovered'
  <2>1. \A s \in Slots : [slot |-> s, gen |-> main.gen] \in Job
    BY DEF MainInv, TypeOK, Main, Job
  <2> SUFFICES ASSUME main.st = "up", NEW s \in Slots,
                      NEW k \in Job, k = [slot |-> s, gen |-> main.gen]
               PROVE  k \in wait' \/ (\E p \in Pids : Serves(p, k)') \/ s \in main.given
    BY <1>3, <2>1 DEF SlotCovered
  <2>2. k \in wait \/ (\E p \in Pids : Serves(p, k)) \/ s \in main.given
    BY SMTT(30) DEF MainInv, SlotCovered
  <2>3. ~Serves(n, k)
    BY <1>2 DEF Serves, IsWorker
  <2> QED
    BY <1>2, <1>3, <1>9, <2>2, <2>3
<1> QED
  BY <1>5, <1>7, <1>8, <1>10, <1>11 DEF MainInv

(* A worker of the current configuration that is reaped is replaced, or    *)
(* had been heard again after main asked it to end.                        *)
LEMMA ReplacedOrGiven ==
  ASSUME NEW e, NEW q \in Process, main.st = "up", ~e.old, SlotOK(e, q),
         e.asked \in {"no", "asked", "heard"}
  PROVE  NeedRefork(e, q.exit) \/ e.asked = "heard"
BY DEF NeedRefork, SlotOK, Fresh

(* rspamd_cld_handler.                                                     *)
LEMMA CldHandlerOK ==
  ASSUME MainInv, NEW p \in Pids, CldHandler(p)
  PROVE  MainInv'
<1> DEFINE e == table[p]
           j == e.job
           need == NeedRefork(e, proc[p].exit)
           g == IF ~need /\ e.asked = "heard" /\ j.gen = main.gen
                THEN main.given \cup {j.slot} ELSE main.given
<1>1. /\ Present(p) /\ main.st \in {"up", "stopping"} /\ Serves(p, j)
      /\ table' = [table EXCEPT ![p] = NoEntry]
      /\ proc' = [q \in All |-> IF q = p THEN NoProcess
                                ELSE IF proc[q].parent = p
                                THEN [proc[q] EXCEPT !.parent = NoPid] ELSE proc[q]]
      /\ wait' = IF need THEN wait \cup {j} ELSE wait
      /\ main' = [main EXCEPT !.given = g] /\ UNCHANGED events
  BY DEF CldHandler, IsWorker, Up, Serves
<1>2. e \in Entry /\ PidOK(main, e, proc[p]) /\ proc[p] \in Process
  BY <1>1, EntryAt, WorkerAt DEF All
<1>3. j \in Job /\ j.gen <= main.gen
  BY <1>1, <1>2 DEF Entry, PidOK, Present
<1>4. g \in SUBSET Slots /\ main \in Main
  BY <1>3 DEF MainInv, TypeOK, Main, Job
<1>5. need \/ main.st # "up" \/ j.gen # main.gen \/ j.slot \in g
  <2> SUFFICES ASSUME main.st = "up", j.gen = main.gen PROVE need \/ e.asked = "heard"
    OBVIOUS
  <2>1. ~e.old /\ SlotOK(e, proc[p])
    BY <1>1, <1>2 DEF PidOK, Present
  <2> QED
    BY <1>2, <2>1, ReplacedOrGiven DEF Entry
<1>6. main.given \subseteq g
  OBVIOUS
<1> HIDE DEF e, need, g
<1>7. /\ main' \in Main /\ main'.st = main.st /\ main'.gen = main.gen /\ main'.given = g
  BY <1>1, <1>4 DEF Main
<1>8. proc' \in [All -> Process]
  <2>1. ASSUME NEW y \in Process PROVE [y EXCEPT !.parent = NoPid] \in Process
    BY Zenon DEF Process
  <2>2. \A q \in All : proc[q] \in Process
    BY DEF MainInv, TypeOK
  <2> QED
    BY <1>1, <2>1, <2>2, NoProcessOK
<1>9. TypeOK'
  BY <1>1, <1>3, <1>7, <1>8 DEF MainInv, TypeOK, All
<1>10. \A i \in Pids : table'[i] = IF i = p THEN NoEntry ELSE table[i]
  BY <1>1 DEF MainInv, TypeOK, All
<1>11. ASSUME NEW i \in Pids, i # p
       PROVE  SamePid(proc[i], proc'[i])
  <2>1. ASSUME NEW y \in Process PROVE SamePid(y, [y EXCEPT !.parent = NoPid])
    BY DEF Process, SamePid
  <2>2. proc'[i] \in {proc[i], [proc[i] EXCEPT !.parent = NoPid]}
    BY <1>1, <1>11 DEF All
  <2>3. proc[i] \in Process
    BY WorkerAt
  <2>4. SamePid(proc[i], proc[i])
    BY DEF SamePid
  <2> QED
    BY <2>1, <2>2, <2>3, <2>4
<1>12. PidsOK'
  <2> SUFFICES ASSUME NEW i \in Pids PROVE PidOK(main', table'[i], proc'[i])
    BY DEF PidsOK
  <2>1. CASE i = p
    <3>1. proc'[i] = NoProcess /\ table'[i] = NoEntry
      BY <1>1, <1>10, <2>1, SMTT(30) DEF All
    <3> QED
      BY <3>1, NoProcessOK DEF PidOK, NoEntry
  <2>2. CASE i # p
    <3>1. PidOK(main, table[i], proc[i]) /\ table'[i] = table[i] /\ SamePid(proc[i], proc'[i])
      BY <1>10, <1>11, <2>2, Zenon DEF MainInv, PidsOK
    <3>2. WorkerOK(proc'[i])
      BY <3>1, SMTT(30) DEF PidOK, WorkerOK, SamePid
    <3>3. SlotOK(table[i], proc[i]) => SlotOK(table[i], proc'[i])
      BY <3>1 DEF SlotOK, Fresh, SamePid
    <3> QED
      BY <1>7, <3>1, <3>2, <3>3 DEF PidOK, SamePid
  <2> QED
    BY <2>1, <2>2
<1>13. WaitOK'
  BY <1>1, <1>3, <1>7, SMTT(30) DEF MainInv, WaitOK
<1>14. \A i \in Pids, k \in Job : Serves(i, k)' <=> i # p /\ Serves(i, k)
  BY <1>10 DEF Serves, IsWorker, Present, NoEntry
<1>15. SlotOnce'
  BY <1>1, <1>3, <1>14 DEF MainInv, SlotOnce
<1>16. SlotCovered'
  <2>1. \A s \in Slots : [slot |-> s, gen |-> main.gen] \in Job
    BY DEF MainInv, TypeOK, Main, Job
  <2> SUFFICES ASSUME main.st = "up", NEW s \in Slots,
                      NEW k \in Job, k = [slot |-> s, gen |-> main.gen]
               PROVE  k \in wait' \/ (\E i \in Pids : Serves(i, k)') \/ s \in g
    BY <1>7, <2>1, SMTT(30) DEF SlotCovered
  <2>2. k \in wait \/ (\E i \in Pids : Serves(i, k)) \/ s \in main.given
    BY DEF MainInv, SlotCovered
  <2>3. Serves(p, k) => k = j
    BY DEF Serves, e
  <2>4. k = j => j \in wait' \/ s \in g
    BY <1>1, <1>5
  <2> HIDE DEF j
  <2> QED
    BY <1>1, <1>6, <1>14, <2>2, <2>3, <2>4
<1> QED
  BY <1>9, <1>12, <1>13, <1>15, <1>16 DEF MainInv

(* The workers of a new configuration: one for every slot, on pids that    *)
(* nothing uses.                                                           *)
LEMMA SlotAt ==
  ASSUME NEW at \in [Slots -> Pids], \A s, t \in Slots : at[s] = at[t] => s = t,
         NEW s \in Slots, NEW p, at[s] = p
  PROVE  (CHOOSE t \in Slots : at[t] = p) = s
<1>1. (CHOOSE t \in Slots : at[t] = p) \in Slots /\ at[CHOOSE t \in Slots : at[t] = p] = p
  BY Zenon
<1> QED
  BY <1>1

(* The invariant holds at first.                                           *)
LEMMA InitOK == Init => MainInv
<1> SUFFICES ASSUME Init PROVE MainInv
  OBVIOUS
<1> DEFINE Used(p) == \E s \in Slots : First[s] = p
           J(p) == [slot |-> CHOOSE s \in Slots : First[s] = p, gen |-> 1]
<1>1. main \in Main /\ main.st = "up" /\ main.gen = 1 /\ wait = {} /\ events = 0
  BY MainAssumption DEF Init, Main
<1>2. /\ table = [p \in All |-> IF Used(p) THEN NewEntry(J(p)) ELSE NoEntry]
      /\ proc = [p \in All |-> IF Used(p) THEN NewProcess ELSE NoProcess]
  BY Zenon DEF Init
<1>3. ASSUME NEW s \in Slots
      PROVE  First[s] \in Pids /\ Used(First[s]) /\ J(First[s]) = [slot |-> s, gen |-> 1]
  BY MainAssumption, SlotAt
<1>4. \A s \in Slots : [slot |-> s, gen |-> 1] \in Job
  BY MainAssumption DEF Job
<1>5. ASSUME NEW p \in All, Used(p) PROVE J(p) \in Job /\ p \in Pids
  <2>1. PICK s \in Slots : First[s] = p
    BY <1>5
  <2> HIDE DEF J
  <2> QED
    BY <1>3, <1>4, <2>1, Zenon
<1> HIDE DEF J, Used
<1>6. TypeOK
  <2>1. \A p \in All : /\ table[p] \in Entry \cup {NoEntry}
                       /\ proc[p] \in Process
    BY <1>2, <1>5, NewEntryOK, NewProcessOK, NoProcessOK
  <2>2. table \in [All -> Entry \cup {NoEntry}] /\ proc \in [All -> Process]
    BY <1>2, <2>1
  <2> QED
    BY <1>1, <2>2, MainAssumption DEF TypeOK
<1>7. PidsOK
  <2> SUFFICES ASSUME NEW p \in Pids PROVE PidOK(main, table[p], proc[p])
    BY DEF PidsOK
  <2>1. CASE Used(p)
    <3>1. J(p) \in Job /\ J(p).gen = 1
      BY <1>5, <2>1 DEF All, J
    <3> QED
      BY <1>1, <1>2, <2>1, <3>1, NewPidOK DEF All
  <2>2. CASE ~Used(p)
    BY <1>2, <2>2, NoProcessOK, SMTT(30) DEF All, PidOK, NoEntry
  <2> QED
    BY <2>1, <2>2
<1>8. ASSUME NEW p \in Pids, NEW j \in Job
      PROVE  Serves(p, j) <=> Used(p) /\ j = J(p)
  BY <1>2 DEF Serves, IsWorker, Present, NewEntry, NoEntry, All
<1>9. ASSUME NEW p \in Pids, Used(p) PROVE First[J(p).slot] = p
  <2>1. PICK s \in Slots : First[s] = p
    BY <1>9 DEF Used
  <2>2. J(p) = [slot |-> s, gen |-> 1]
    BY <1>3, <2>1, Zenon
  <2>3. J(p).slot = s
    BY <2>2
  <2> QED
    BY <2>1, <2>3
<1>10. SlotOnce
  BY <1>1, <1>8, <1>9 DEF SlotOnce
<1>11. SlotCovered
  BY <1>1, <1>3, <1>4, <1>8, Zenon DEF SlotCovered
<1> QED
  BY <1>1, <1>6, <1>7, <1>10, <1>11 DEF MainInv, WaitOK

(* The workers of the old configuration are marked.                        *)
LEMMA ReplacedOK ==
  ASSUME NEW e \in Entry
  PROVE  LET f == Replaced(e)
         IN  /\ f \in Entry /\ f.helper = e.helper /\ f.st = "terminating"
             /\ f.job = e.job /\ f.old
<1>1. ASSUME NEW a \in BOOLEAN, NEW b \in BOOLEAN, NEW c \in BOOLEAN
      PROVE  [e EXCEPT !.st = "terminating", !.old = a, !.srv = b, !.hb = c] \in Entry
  BY Zenon DEF Entry
<1>2. Replaced(e) \in Entry
  BY <1>1, Zenon DEF Replaced
<1>3. LET f == Replaced(e)
      IN  f.helper = e.helper /\ f.st = "terminating" /\ f.job = e.job /\ f.old
  BY DEF Replaced, Entry
<1> QED
  BY <1>2, <1>3

(* rspamd_hup_handler, with a new configuration.                           *)
LEMMA ReloadOK ==
  ASSUME MainInv, Reload
  PROVE  MainInv'
<1> DEFINE g == main.gen + 1
<1>1. PICK at \in [Slots -> Free] :
        /\ \A s, t \in Slots : at[s] = at[t] => s = t
        /\ table' = [p \in All |->
             IF \E s \in Slots : at[s] = p
             THEN NewEntry([slot |-> CHOOSE s \in Slots : at[s] = p, gen |-> g])
             ELSE IF Present(p) THEN Replaced(table[p]) ELSE table[p]]
        /\ proc' = [p \in All |->
             IF \E s \in Slots : at[s] = p THEN NewProcess
             ELSE IF table[p].st = "running" THEN Signalled(proc[p], "usr2")
             ELSE proc[p]]
  BY DEF Reload
<1> DEFINE Used(p) == \E s \in Slots : at[s] = p
           J(p) == [slot |-> CHOOSE s \in Slots : at[s] = p, gen |-> g]
<1>2. /\ main' = [main EXCEPT !.gen = g, !.given = {}] /\ UNCHANGED <<wait, events>>
      /\ main.st = "up" /\ main.gen < MaxGen /\ main \in Main
  BY DEF Reload, MainInv, TypeOK
<1>3. g \in 1..MaxGen /\ g > main.gen /\ main.gen \in 1..MaxGen
  BY <1>2, MainAssumption DEF Main
<1>4. at \in [Slots -> Pids]
  BY DEF Free
<1>5. ASSUME NEW s \in Slots
      PROVE  at[s] \in Free /\ Used(at[s]) /\ J(at[s]) = [slot |-> s, gen |-> g]
  BY <1>1, <1>4, SlotAt
<1>6. \A s \in Slots : [slot |-> s, gen |-> g] \in Job
  BY <1>3, SMTT(30) DEF Job
<1>7. ASSUME NEW p \in All, Used(p)
      PROVE  /\ J(p) \in Job /\ J(p).gen = g /\ at[J(p).slot] = p
             /\ p \in Pids /\ ~Present(p)
  <2>1. PICK s \in Slots : at[s] = p
    BY <1>7
  <2>2. J(p) = [slot |-> s, gen |-> g] /\ p \in Free
    BY <1>5, <2>1
  <2> HIDE DEF J
  <2>3. J(p).slot = s /\ J(p).gen = g
    BY <2>2, SMTT(30)
  <2> QED
    BY <1>6, <2>1, <2>2, <2>3 DEF Free
<1>8. \A p \in All :
        /\ table'[p] = IF Used(p) THEN NewEntry(J(p))
                       ELSE IF Present(p) THEN Replaced(table[p]) ELSE table[p]
        /\ proc'[p] = IF Used(p) THEN NewProcess
                      ELSE IF table[p].st = "running" THEN Signalled(proc[p], "usr2")
                      ELSE proc[p]
  BY <1>1
<1> HIDE DEF J, Used, g
<1>9. /\ main' \in Main /\ main'.st = "up" /\ main'.gen = g /\ main'.given = {}
  BY <1>2, <1>3, Zenon DEF Main
<1>10. TypeOK'
  <2>1. ASSUME NEW q \in Process PROVE Signalled(q, "usr2") \in Process
    BY ZenonT(60) DEF Process, Signalled, Working, Closing
  <2>2. ASSUME NEW p \in All
        PROVE  table'[p] \in Entry \cup {NoEntry} /\ proc'[p] \in Process
    <3>1. proc[p] \in Process /\ table[p] \in Entry \cup {NoEntry}
      BY DEF MainInv, TypeOK
    <3>2. proc'[p] \in Process
      BY <1>8, <2>1, <3>1, NewProcessOK
    <3>3. CASE Used(p)
      BY <1>7, <1>8, <3>2, <3>3, NewEntryOK, SMTT(30)
    <3>4. CASE ~Used(p)
      BY <1>8, <3>1, <3>2, <3>4, EntryAt, ReplacedOK, SMTT(30)
    <3> QED
      BY <3>3, <3>4
  <2>3. table' = [p \in All |-> table'[p]] /\ proc' = [p \in All |-> proc'[p]]
    BY <1>1
  <2>4. table' \in [All -> Entry \cup {NoEntry}] /\ proc' \in [All -> Process]
    BY <2>2, <2>3
  <2> QED
    BY <1>2, <1>9, <2>4 DEF MainInv, TypeOK
<1>11. ASSUME NEW p \in Pids, ~Used(p)
       PROVE  /\ table'[p].helper = table[p].helper
              /\ table'[p].st = "none" <=> ~Present(p)
              /\ Present(p) => table'[p].job = table[p].job /\ table'[p].old
                               /\ table[p] \in Entry
  <2>1. CASE Present(p)
    BY <1>8, <1>11, <2>1, EntryAt, ReplacedOK, SMTT(30) DEF All
  <2>2. CASE ~Present(p)
    BY <1>8, <1>11, <2>2 DEF All, Present
  <2> QED
    BY <2>1, <2>2, SMTT(30)
<1>12. PidsOK'
  <2> SUFFICES ASSUME NEW p \in Pids PROVE PidOK(main', table'[p], proc'[p])
    BY DEF PidsOK
  <2>1. CASE Used(p)
    <3>1. table'[p] = NewEntry(J(p)) /\ proc'[p] = NewProcess
      BY <1>8, <2>1 DEF All
    <3>2. J(p) \in Job /\ J(p).gen <= main'.gen
      BY <1>3, <1>7, <1>9, <2>1, SMTT(30) DEF All, Job
    <3> QED
      BY <1>9, <3>1, <3>2, NewPidOK, SMTT(30)
  <2>2. CASE ~Used(p)
    <3>1. proc[p] \in Process /\ WorkerOK(proc[p]) /\ PidOK(main, table[p], proc[p])
      BY WorkerAt, Zenon
    <3>2. WorkerOK(proc'[p]) /\ (proc'[p].st # "free" => proc[p].st # "free")
      <4>1. \/ proc'[p] = Signalled(proc[p], "usr2")
            \/ proc'[p] = proc[p]
        BY <1>8, <2>2, Zenon DEF All
      <4>2. /\ WorkerOK(Signalled(proc[p], "usr2"))
            /\ Signalled(proc[p], "usr2").st = "free" <=> proc[p].st = "free"
        BY <3>1, SignalledOK, ZenonT(60)
      <4> QED
        BY <3>1, <4>1, <4>2, Zenon
    <3>3. Present(p) => table[p].job.gen \in 1..MaxGen /\ table[p].job.gen <= main.gen
      BY <1>11, <2>2, <3>1, SMTT(30) DEF Entry, Job, PidOK, Present
    <3>4. Present(p) => table'[p].job.gen < main'.gen
      BY <1>3, <1>9, <1>11, <2>2, <3>3, SMTT(30)
    <3>5. Present(p) => table'[p].job.gen <= main'.gen /\ table'[p].job.gen # main'.gen
      BY <1>3, <1>9, <1>11, <2>2, <3>3, <3>4, SMTT(30)
    <3> QED
      BY <1>9, <1>11, <2>2, <3>1, <3>2, <3>5 DEF PidOK, Present
  <2> QED
    BY <2>1, <2>2
<1>13. \A j \in wait : j.gen \in 1..MaxGen /\ j.gen <= main.gen
  BY DEF MainInv, TypeOK, WaitOK, Job
<1>14. WaitOK'
  BY <1>2, <1>3, <1>9, <1>13 DEF WaitOK
<1>15. ASSUME NEW p \in Pids, NEW j \in Job
       PROVE  Serves(p, j)' <=> IF Used(p) THEN j = J(p) ELSE Serves(p, j)
  <2>1. CASE Used(p)
    <3>1. table'[p] = NewEntry(J(p))
      BY <1>8, <2>1 DEF All
    <3>2. \A k : NewEntry(k).st = "running" /\ ~NewEntry(k).helper /\ NewEntry(k).job = k
      BY DEF NewEntry
    <3> QED
      BY <2>1, <3>1, <3>2 DEF Serves, IsWorker, Present
  <2>2. CASE ~Used(p)
    BY <1>11, <2>2, SMTT(30) DEF Serves, IsWorker, Present
  <2> QED
    BY <2>1, <2>2
<1>16. \A p \in Pids, j \in Job : Serves(p, j) => j.gen <= main.gen
  BY DEF MainInv, PidsOK, PidOK, Serves, IsWorker, Present
<1>17. \A j \in Job : j.gen = g => ~(j.gen <= main.gen)
  BY <1>3
<1>18. SlotOnce'
  <2> SUFFICES ASSUME NEW j \in Job
               PROVE  /\ \A p, q \in Pids : Serves(p, j)' /\ Serves(q, j)' => p = q
                      /\ j \in wait' => \A p \in Pids : ~Serves(p, j)'
    BY DEF SlotOnce
  <2>1. CASE j.gen = g
    <3>1. \A p \in Pids : Serves(p, j)' => Used(p) /\ j = J(p)
      BY <1>15, <1>16, <1>17, <2>1
    <3>2. j \notin wait'
      BY <1>2, <1>13, <1>17, <2>1, SMTT(30)
    <3>3. \A p \in Pids : Serves(p, j)' => at[j.slot] = p
      BY <1>7, <3>1 DEF All
    <3> QED
      BY <3>2, <3>3
  <2>2. CASE j.gen # g
    <3>1. \A p \in Pids : Serves(p, j)' => Serves(p, j)
      BY <1>7, <1>15, <2>2 DEF All
    <3> QED
      BY <1>2, <3>1, SMTT(30) DEF MainInv, SlotOnce
  <2> QED
    BY <2>1, <2>2
<1>19. SlotCovered'
  <2> SUFFICES ASSUME NEW s \in Slots, NEW k \in Job, k = [slot |-> s, gen |-> g]
               PROVE  \E p \in Pids : Serves(p, k)'
    BY <1>6, <1>9 DEF SlotCovered
  <2>1. at[s] \in Pids /\ Used(at[s]) /\ J(at[s]) = k
    BY <1>4, <1>5
  <2> QED
    BY <1>15, <2>1, SMTT(30)
<1> QED
  BY <1>10, <1>12, <1>14, <1>18, <1>19 DEF MainInv

(* Every step keeps the invariant.                                         *)
LEMMA NextOK ==
  ASSUME MainInv, [Next]_vars
  PROVE  MainInv'
<1>1. CASE MainStep
  BY <1>1, TermOK, FinalTimerOK, ReloadOK, ReloadFailsOK, ReloadCrashesOK,
     ForkDelayedOK, HeartbeatCheckOK, SrvReadOK, SrvClosedOK, CldHandlerOK, SMTT(30)
     DEF MainStep
<1>2. ASSUME NEW p \in Pids, WorkerStep(p) PROVE MainInv'
  BY <1>2, StartOK, HangOK, EndOK, SetBusyOK, AcceptOK, ConnDoneOK, SignalOK,
     ShutdownCheckOK, ScriptsDoneOK, DelayedShutdownOK, HelperOK, SMTT(30) DEF WorkerStep
<1>3. ASSUME UNCHANGED vars PROVE MainInv'
  <2>1. TypeOK'
    BY <1>3 DEF MainInv, TypeOK, vars
  <2>2. PidsOK' /\ WaitOK'
    BY <1>3, SMTT(30) DEF MainInv, PidsOK, WaitOK, vars
  <2>3. SlotOnce' /\ SlotCovered'
    BY <1>3 DEF MainInv, SlotOnce, SlotCovered, Serves, IsWorker, Present, vars
  <2> QED
    BY <2>1, <2>2, <2>3 DEF MainInv
<1> QED
  BY <1>1, <1>2, <1>3, HelperExitOK DEF Next, Over

(* The inductive invariant: MainInv holds in every reachable state.        *)
THEOREM MainInvariant == Spec => []MainInv
<1>1. MainInv /\ [Next]_vars => MainInv'
  BY NextOK
<1> QED
  BY InitOK, <1>1, PTL DEF Spec

(* Main knows of every worker process, leaves none behind when it exits, and*)
(* listens to every worker it relies on: rspamd_cld_handler, kill_old_workers,*)
(* rspamd_attach_worker and the final timer together.                      *)
THEOREM WorkersSupervised == Spec => []Supervised
<1>1. MainInv => Supervised
  BY DEF MainInv, PidsOK, PidOK, SlotOK, Supervised, NoWorkerLeft, Monitored, Up,
         IsWorker, Present
<1> QED
  BY <1>1, MainInvariant, PTL

(* A slot of a configuration never has two workers, or a worker and a respawn*)
(* timer, and a slot of the current one is never forgotten but in the race *)
(* SlotCovered names, whatever crashes, hangs, is killed or is reloaded.   *)
THEOREM SlotsServedOnce == Spec => [](TypeOK /\ SlotsKept)
<1>1. MainInv => TypeOK /\ SlotsKept
  BY Zenon DEF MainInv, SlotsKept
<1> QED
  BY <1>1, MainInvariant, PTL

(* The finish scripts of a worker run at most once, with no connection left,*)
(* and before it ends unless its shutdown timer fired.                     *)
THEOREM FinishScriptsOnce == Spec => []ScriptsOnce
<1>1. MainInv => ScriptsOnce
  BY DEF MainInv, TypeOK, PidsOK, PidOK, WorkerOK, ScriptsOnce, Process, All
<1> QED
  BY <1>1, MainInvariant, PTL
=============================================================================
