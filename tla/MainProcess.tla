----------------------------- MODULE MainProcess -----------------------------
(***************************************************************************)
(* The main process and its workers (rspamd.c, libserver/worker_util.c,    *)
(* the ON_FORK, HEARTBEAT and BUSY commands of libserver/rspamd_control.c, *)
(* worker:spawn_process of lua/lua_worker.c): forking, reload of the       *)
(* configuration, heartbeats, delayed respawn, the shutdown of a worker    *)
(* and of the main process, with workers that crash or hang at any moment. *)
(*                                                                         *)
(* A slot stands for one process that a configuration asks for (a worker   *)
(* section and an index), gen for the configuration a worker was forked    *)
(* from.  The main process is one event loop: its handlers are atomic.     *)
(* Busy marks reach it at once (a delay is a later send), the notices      *)
(* about forked helpers wait in the srv pipe of the worker.  Workers send  *)
(* a heartbeat every interval and are checked every two: a check finds a   *)
(* heartbeat if the worker is serving its loop, and otherwise finds none.  *)
(* Pids of the table are not reused by the system.  Left out: failures of  *)
(* fork and socketpair, log reopening, the control socket.                 *)
(***************************************************************************)
EXTENDS Integers, Sequences, FiniteSets

CONSTANTS
  Pids,      \* the process ids of workers
  First,     \* the ones that the first workers get, by slot
  Helpers,   \* the process ids of the processes that workers fork
  NoPid,
  Slots,     \* what every configuration asks for
  MaxGen,    \* bound on the configurations read
  LossMax,   \* heartbeats_loss_max
  Attempts,  \* shutdown_ts / TERMINATION_INTERVAL
  Scripts,   \* whether the configuration has on_term_scripts
  MaxConns,  \* max_tasks
  MaxEvents  \* bound on crashes, hangs, busy marks, connections, helpers

ASSUME MainAssumption ==
  /\ NoPid \notin Pids \cup Helpers
  /\ Pids \cap Helpers = {}
  /\ First \in [Slots -> Pids]
  /\ \A s, t \in Slots : First[s] = First[t] => s = t
  /\ LossMax \in Nat
  /\ Attempts \in Nat
  /\ MaxConns \in Nat
  /\ MaxEvents \in Nat
  /\ MaxGen \in Nat \ {0}
  /\ Scripts \in BOOLEAN

VARIABLES
  main,   \* struct rspamd_main
  wait,   \* the timers of rspamd_fork_delayed
  table,  \* rspamd_main->workers, by pid
  proc,   \* the processes
  events  \* how many of these there were

vars == <<main, wait, table, proc, events>>

(* given: the slots of the current configuration whose worker was not      *)
(* replaced, after main had asked it to terminate and had heard it again   *)
Main == [st : {"up", "stopping", "exited", "crashed"}, gen : 1..MaxGen,
         attempts : -1..Attempts, given : SUBSET Slots]

Job == [slot : Slots, gen : 1..MaxGen]

(* struct rspamd_worker as the main process has it.  helper: made by       *)
(* rspamd_control_handle_on_fork.  srv, hb: whether srv_ev and             *)
(* heartbeat_ev are started.  beat: whether last_event is set.  nbeats     *)
(* below Floor makes no difference.  asked: whether the check sent         *)
(* SIGTERM, and whether a heartbeat was noticed afterwards.                *)
Floor == -(LossMax + 2)

Entry == [job : Job, helper : BOOLEAN, st : {"running", "terminating"},
          old : BOOLEAN, srv : BOOLEAN, hb : BOOLEAN,
          beat : BOOLEAN, nbeats : Floor..1,
          busy : BOOLEAN, asked : {"no", "asked", "heard"}]

NoEntry == [helper |-> FALSE, st |-> "none"]

(* A process.  The states of a worker are those of its own copy of         *)
(* worker->state; final counts the runs of the finish scripts, forced is   *)
(* set when the shutdown timer ends the worker.                            *)
Closing == {"terminating", "wait_conns", "wait_scripts", "wanna_die"}

Working == {"starting", "running"} \cup Closing

Process == [st : {"free", "helper", "dead"} \cup Working, hung : BOOLEAN,
            conns : 0..MaxConns, final : 0..2, forced : BOOLEAN,
            exit : {"none", "ok", "usr2", "failed"},
            sigs : SUBSET {"term", "usr2"},
            pipe : Seq(Helpers \X {"create", "dead"}),
            parent : Pids \cup {NoPid}]

NoProcess == [st |-> "free", hung |-> FALSE, conns |-> 0, final |-> 0,
              forced |-> FALSE, exit |-> "none", sigs |-> {},
              pipe |-> <<>>, parent |-> NoPid]

All == Pids \cup Helpers

Up == main.st \in {"up", "stopping"}

Present(p) == table[p].st # "none"

IsWorker(p) == Present(p) /\ ~table[p].helper

Serves(p, j) == IsWorker(p) /\ table[p].job = j

-----------------------------------------------------------------------------
(* rspamd_fork_worker and rspamd_handle_main_fork                          *)
NewEntry(j) == [job |-> j, helper |-> FALSE, st |-> "running",
                old |-> FALSE, srv |-> TRUE, hb |-> TRUE, beat |-> FALSE,
                nbeats |-> 0, busy |-> FALSE, asked |-> "no"]

NewProcess == [NoProcess EXCEPT !.st = "starting"]

Free == {p \in Pids : proc[p].st = "free" /\ ~Present(p)}

(* The process id that the system gives to a new worker                    *)
NewPid == CHOOSE p \in Free : TRUE

(* spawn_workers starts one worker for every slot of the configuration     *)
Init ==
  /\ main = [st |-> "up", gen |-> 1, attempts |-> 0, given |-> {}]
  /\ wait = {}
  /\ table = [p \in All |->
       IF \E s \in Slots : First[s] = p
       THEN NewEntry([slot |-> CHOOSE s \in Slots : First[s] = p,
                      gen |-> 1])
       ELSE NoEntry]
  /\ proc = [p \in All |-> IF \E s \in Slots : First[s] = p
                           THEN NewProcess ELSE NoProcess]
  /\ events = 0

(* rspamd_fork_delayed_cb: it looks neither at wanna_die nor at the        *)
(* configuration the job belongs to                                        *)
ForkDelayed(j) ==
  /\ Up
  /\ j \in wait
  /\ Free # {}
  /\ wait' = wait \ {j}
  /\ table' = [table EXCEPT ![NewPid] = NewEntry(j)]
  /\ proc' = [proc EXCEPT ![NewPid] = NewProcess]
  /\ UNCHANGED <<main, events>>

-----------------------------------------------------------------------------
(* kill: a helper has the default handlers, a worker takes the signal when *)
(* its event loop runs and ignores it when it is closing, SIGKILL does not *)
(* wait                                                                    *)
Signalled(q, s) ==
  IF q.st = "helper" THEN [q EXCEPT !.st = "dead"]
  ELSE IF q.st \in {"starting", "running"}
  THEN [q EXCEPT !.sigs = @ \cup {s}]
  ELSE q

Dead(q, how) == [q EXCEPT !.st = "dead", !.hung = FALSE, !.conns = 0,
                          !.final = 0, !.forced = FALSE, !.exit = how,
                          !.sigs = {}]

Killed(q) ==
  IF q.st = "helper" THEN [q EXCEPT !.st = "dead"]
  ELSE IF q.st \in Working THEN Dead(q, "failed")
  ELSE q

(* rspamd_term_handler: SIGTERM to everything in the table                 *)
Term ==
  /\ main.st = "up"
  /\ main' = [main EXCEPT !.st = "stopping", !.attempts = Attempts]
  /\ proc' = [p \in All |-> IF Present(p) THEN Signalled(proc[p], "term")
                            ELSE proc[p]]
  /\ UNCHANGED <<wait, table, events>>

(* rspamd_final_timer_handler and rspamd_worker_wait: once the attempts    *)
(* are used up everything in the table is killed; the loop ends when the   *)
(* table is empty                                                          *)
FinalTimerPatient ==
  /\ main.st = "stopping"
  /\ main' = [main EXCEPT !.st = IF \A p \in All : ~Present(p)
                                 THEN "exited" ELSE @]
  /\ UNCHANGED <<wait, table, proc, events>>

FinalTimer ==
  /\ main.st = "stopping"
  /\ main' = [main EXCEPT !.attempts = IF @ < 0 THEN @ ELSE @ - 1,
                          !.st = IF \A p \in All : ~Present(p)
                                 THEN "exited" ELSE @]
  /\ proc' = [p \in All |-> IF Present(p) /\ main.attempts <= 0
                            THEN Killed(proc[p]) ELSE proc[p]]
  /\ UNCHANGED <<wait, table, events>>

-----------------------------------------------------------------------------
(* rspamd_hup_handler, reread_config succeeded: the watchers of all that   *)
(* is in the table are stopped, it is marked, the new workers are forked,  *)
(* and what was running is sent SIGUSR2 (kill_old_workers)                 *)
Replaced(e) == [e EXCEPT !.st = "terminating", !.old = TRUE,
                         !.srv = FALSE, !.hb = FALSE]

Reload ==
  /\ main.st = "up"
  /\ main.gen < MaxGen
  /\ main' = [main EXCEPT !.gen = @ + 1, !.given = {}]
  /\ \E at \in [Slots -> Free] :
       /\ \A s, t \in Slots : at[s] = at[t] => s = t
       /\ table' = [p \in All |->
            IF \E s \in Slots : at[s] = p
            THEN NewEntry([slot |-> CHOOSE s \in Slots : at[s] = p,
                           gen |-> main.gen + 1])
            ELSE IF Present(p) THEN Replaced(table[p]) ELSE table[p]]
       /\ proc' = [p \in All |->
            IF \E s \in Slots : at[s] = p THEN NewProcess
            ELSE IF table[p].st = "running" THEN Signalled(proc[p], "usr2")
            ELSE proc[p]]
  /\ UNCHANGED <<wait, events>>

(* rspamd_hup_handler, reread_config failed: the watchers of all that is   *)
(* in the table are started again.  Those of a helper were never           *)
(* initialised: its timer has no callback to call.                         *)
ReloadFailsDetached ==
  /\ main.st = "up"
  /\ \A x \in Helpers : ~Present(x)
  /\ table' = [p \in All |-> IF Present(p)
                 THEN [table[p] EXCEPT !.srv = TRUE, !.hb = FALSE]
                 ELSE table[p]]
  /\ UNCHANGED <<main, wait, proc, events>>

ReloadFails ==
  /\ main.st = "up"
  /\ \A x \in Helpers : ~Present(x)
  /\ table' = [p \in All |-> IF Present(p)
                 THEN [table[p] EXCEPT !.srv = TRUE, !.hb = TRUE]
                 ELSE table[p]]
  /\ UNCHANGED <<main, wait, proc, events>>

ReloadCrashes ==
  /\ main.st = "up"
  /\ \E x \in Helpers : Present(x)
  /\ main' = [main EXCEPT !.st = "crashed"]
  /\ UNCHANGED <<wait, table, proc, events>>

-----------------------------------------------------------------------------
(* rspamd_main_heartbeat_cb and rspamd_worker_heartbeat_cb                 *)
LoopRuns(p) == /\ ~proc[p].hung
               /\ proc[p].st \in (Working \ {"starting", "wanna_die"})

Heard(p) == LoopRuns(p) /\ table[p].srv

Lost(p) == table[p].beat /\ ~Heard(p)

Beats(p) ==
  LET n == table[p].nbeats
  IN IF Lost(p) THEN IF n > 0 THEN -1 ELSE IF n > Floor THEN n - 1 ELSE n
     ELSE IF n < 0 THEN 1 ELSE n

TooManyLost(p) == /\ Lost(p)
                  /\ table[p].nbeats <= 0
                  /\ LossMax > 0
                  /\ -Beats(p) >= LossMax

ForceKill(p) == TooManyLost(p) /\ -Beats(p) > LossMax + 1

Checked(p) ==
  [table[p] EXCEPT
     !.nbeats = Beats(p),
     !.beat = @ \/ Heard(p),
     !.asked = IF TooManyLost(p) THEN "asked"
               ELSE IF @ = "asked" /\ Beats(p) = 1 THEN "heard"
               ELSE @]

HeartbeatCheckSoft(p) ==
  /\ main.st = "up"
  /\ IsWorker(p) /\ table[p].hb /\ ~table[p].busy
  /\ table' = [table EXCEPT ![p] = Checked(p)]
  /\ proc' = [proc EXCEPT ![p] = IF TooManyLost(p)
                                 THEN Signalled(@, "term") ELSE @]
  /\ UNCHANGED <<main, wait, events>>

HeartbeatCheck(p) ==
  /\ main.st = "up"
  /\ IsWorker(p) /\ table[p].hb /\ ~table[p].busy
  /\ table' = [table EXCEPT ![p] = Checked(p)]
  /\ proc' = [proc EXCEPT ![p] =
                IF ForceKill(p) THEN Killed(@)
                ELSE IF TooManyLost(p) THEN Signalled(@, "term")
                ELSE @]
  /\ UNCHANGED <<main, wait, events>>

(* rspamd_srv_handler and rspamd_control_handle_on_fork                    *)
HelperEntry(e) == [NewEntry(e.job) EXCEPT !.helper = TRUE, !.srv = FALSE,
                                          !.hb = FALSE]

SrvRead(p) ==
  /\ Up
  /\ IsWorker(p) /\ table[p].srv
  /\ proc[p].pipe # <<>>
  /\ LET x == Head(proc[p].pipe)[1]
         what == Head(proc[p].pipe)[2]
     IN table' = [table EXCEPT ![x] = IF what = "create"
                                      THEN HelperEntry(table[p])
                                      ELSE NoEntry]
  /\ proc' = [proc EXCEPT ![p].pipe = Tail(@)]
  /\ UNCHANGED <<main, wait, events>>

(* rspamd_srv_handler at the end of the pipe of a worker that is gone      *)
SrvClosed(p) ==
  /\ Up
  /\ IsWorker(p) /\ table[p].srv
  /\ proc[p].st = "dead" /\ proc[p].pipe = <<>>
  /\ table' = [table EXCEPT ![p].srv = FALSE]
  /\ UNCHANGED <<main, wait, proc, events>>

(* rspamd_check_termination_clause                                         *)
NeedReforkSignalled(e, exit) ==
  /\ e.st = "running" /\ main.st = "up" /\ ~e.old
  /\ exit = "failed"

NeedRefork(e, exit) ==
  IF exit = "ok"
  THEN ~e.old /\ LossMax > 0 /\ -e.nbeats >= LossMax
  ELSE e.st = "running" /\ main.st = "up" /\ ~e.old /\ exit # "usr2"

(* rspamd_cld_handler: the child is reaped and its descriptors are closed, *)
(* with what was not read from them; its helpers have no parent any more   *)
CldHandler(p) ==
  /\ Up
  /\ IsWorker(p)
  /\ proc[p].st = "dead"
  /\ table' = [table EXCEPT ![p] = NoEntry]
  /\ proc' = [q \in All |->
                IF q = p THEN NoProcess
                ELSE IF proc[q].parent = p
                THEN [proc[q] EXCEPT !.parent = NoPid]
                ELSE proc[q]]
  /\ wait' = IF NeedRefork(table[p], proc[p].exit)
             THEN wait \cup {table[p].job} ELSE wait
  /\ main' = [main EXCEPT !.given =
                IF /\ ~NeedRefork(table[p], proc[p].exit)
                   /\ table[p].asked = "heard"
                   /\ table[p].job.gen = main.gen
                THEN @ \cup {table[p].job.slot} ELSE @]
  /\ UNCHANGED events

-----------------------------------------------------------------------------
(* A worker.  It serves events unless it hangs or has left its loop.       *)
Become(p, q) == /\ proc' = [proc EXCEPT ![p] = q]
                /\ UNCHANGED <<main, wait, table>>

Change(p, q) == Become(p, q) /\ UNCHANGED events

(* What the environment does to a worker, at most MaxEvents times          *)
Event == events < MaxEvents /\ events' = events + 1

(* rspamd_handle_child_fork up to the event loop, with the handlers of     *)
(* rspamd_worker_init_signals and the first heartbeat                      *)
Start(p) ==
  /\ proc[p].st = "starting" /\ ~proc[p].hung
  /\ proc' = [proc EXCEPT ![p].st = "running"]
  /\ table' = [table EXCEPT ![p].beat = table[p].srv]
  /\ UNCHANGED <<main, wait, events>>

Hang(p) ==
  /\ proc[p].st \in Working /\ ~proc[p].hung
  /\ Event
  /\ Become(p, [proc[p] EXCEPT !.hung = TRUE])

Resume(p) ==
  /\ proc[p].hung
  /\ Change(p, [proc[p] EXCEPT !.hung = FALSE])

Crash(p) ==
  /\ proc[p].st \in Working
  /\ Event
  /\ Become(p, Dead(proc[p], "failed"))

(* rspamd_worker_set_busy, RSPAMD_SRV_BUSY                                 *)
SetBusy(p) ==
  /\ Up
  /\ LoopRuns(p) /\ proc[p].st = "running"
  /\ table[p].srv
  /\ table' = [table EXCEPT ![p].busy = ~@]
  /\ Event
  /\ UNCHANGED <<main, wait, proc>>

(* accept_socket                                                           *)
Accept(p) ==
  /\ LoopRuns(p) /\ proc[p].st = "running"
  /\ proc[p].conns < MaxConns
  /\ Event
  /\ Become(p, [proc[p] EXCEPT !.conns = @ + 1])

(* rspamd_worker_call_finish_handlers: the scripts may leave events        *)
FinishHandlers(q) ==
  IF Scripts
  THEN {[q EXCEPT !.st = s, !.final = @ + 1] :
          s \in {"wait_scripts", "wanna_die"}}
  ELSE {[q EXCEPT !.st = "wanna_die"]}

(* rspamd_worker_terminate_handlers                                        *)
TerminateHandlersAgain(q) ==
  IF q.conns > 0 THEN {[q EXCEPT !.st = "wait_conns"]}
  ELSE FinishHandlers(q)

TerminateHandlers(q) ==
  IF q.conns > 0 THEN {[q EXCEPT !.st = "wait_conns"]}
  ELSE IF Scripts /\ q.st = "wait_scripts" THEN {q}
  ELSE FinishHandlers(q)

(* reduce_tasks_count                                                      *)
ConnDone(p) ==
  /\ LoopRuns(p)
  /\ proc[p].conns > 0
  /\ LET q == [proc[p] EXCEPT !.conns = @ - 1]
     IN \E r \in (IF q.st = "wait_conns" /\ q.conns = 0
                  THEN FinishHandlers(q)
                  ELSE IF q.st # "running"
                  THEN {[q EXCEPT !.st = "wait_conns"]}
                  ELSE {q}) : Change(p, r)

(* rspamd_worker_signal_handle: rspamd_worker_term_handler and             *)
(* rspamd_worker_usr2_handler act on a running worker only; before the     *)
(* handlers are there the signal ends the process                          *)
OnSignal(q, s) ==
  LET r == [q EXCEPT !.st = "terminating", !.sigs = {}]
  IN IF q.st = "starting"
     THEN {Dead(q, IF s = "usr2" THEN "usr2" ELSE "failed")}
     ELSE IF s = "usr2" THEN {r} ELSE TerminateHandlers(r)

Signal(p, s) ==
  /\ s \in proc[p].sigs
  /\ proc[p].st = "starting" \/ ~proc[p].hung
  /\ \E r \in OnSignal(proc[p], s) : Change(p, r)

(* rspamd_worker_shutdown_check                                            *)
ShutdownCheck(p) ==
  /\ LoopRuns(p) /\ proc[p].st \in Closing
  /\ \E r \in TerminateHandlers(proc[p]) : Change(p, r)

(* rspamd_worker_finalize: the events of the finish scripts are over       *)
ScriptsDone(p) ==
  /\ LoopRuns(p) /\ proc[p].st = "wait_scripts"
  /\ Change(p, [proc[p] EXCEPT !.st = "wanna_die"])

(* rspamd_worker_on_delayed_shutdown                                       *)
DelayedShutdownQuiet(p) ==
  /\ LoopRuns(p) /\ proc[p].st \in Closing
  /\ proc[p].conns = 0
  /\ Change(p, [proc[p] EXCEPT !.st = "wanna_die", !.forced = TRUE])

DelayedShutdown(p) ==
  /\ LoopRuns(p) /\ proc[p].st \in Closing
  /\ Change(p, [proc[p] EXCEPT !.st = "wanna_die", !.forced = TRUE])

(* the end of start_worker                                                 *)
Exit(p) ==
  /\ proc[p].st = "wanna_die" /\ ~proc[p].hung
  /\ Change(p, Dead(proc[p], "ok"))

(* lua_worker_spawn_process                                                *)
SpawnHelper(p, x) ==
  /\ LoopRuns(p)
  /\ proc[x].st = "free"
  /\ proc' = [proc EXCEPT
                ![x] = [NoProcess EXCEPT !.st = "helper", !.parent = p],
                ![p].pipe = Append(@, <<x, "create">>)]
  /\ Event
  /\ UNCHANGED <<main, wait, table>>

HelperExit(x) ==
  /\ proc[x].st = "helper"
  /\ Change(x, [proc[x] EXCEPT !.st = "dead"])

(* rspamd_lua_cld_handler and rspamd_lua_cbdata_free                       *)
ReapHelper(p, x) ==
  /\ LoopRuns(p)
  /\ proc[x].st = "dead" /\ proc[x].parent = p
  /\ proc' = [proc EXCEPT ![x].parent = NoPid,
                          ![p].pipe = Append(@, <<x, "dead">>)]
  /\ UNCHANGED <<main, wait, table, events>>

(* The end of main after its loop, and the end of the story after a crash  *)
Over == main.st \in {"exited", "crashed"} /\ UNCHANGED vars

-----------------------------------------------------------------------------
MainStep ==
  \/ Term \/ FinalTimer \/ Reload \/ ReloadFails \/ ReloadCrashes
  \/ \E j \in wait : ForkDelayed(j)
  \/ \E p \in Pids : \/ HeartbeatCheck(p) \/ SrvRead(p) \/ SrvClosed(p)
                      \/ CldHandler(p)

WorkerStep(p) ==
  \/ Start(p) \/ Hang(p) \/ Resume(p) \/ Crash(p)
  \/ SetBusy(p) \/ Accept(p) \/ ConnDone(p)
  \/ \E s \in {"term", "usr2"} : Signal(p, s)
  \/ ShutdownCheck(p) \/ ScriptsDone(p) \/ DelayedShutdown(p) \/ Exit(p)
  \/ \E x \in Helpers : SpawnHelper(p, x) \/ ReapHelper(p, x)

Next ==
  \/ MainStep
  \/ \E p \in Pids : WorkerStep(p)
  \/ \E x \in Helpers : HelperExit(x)
  \/ Over

Spec == Init /\ [][Next]_vars

(* What the event loops owe: the main process serves its timers and the    *)
(* watchers of its children, a worker that does not hang its signals and   *)
(* its shutdown timer.  Nothing is said of connections, helpers, crashes   *)
(* and reloads.                                                            *)
MainServes ==
  \/ FinalTimer
  \/ \E j \in wait : ForkDelayed(j)
  \/ \E p \in Pids : HeartbeatCheck(p) \/ SrvRead(p) \/ CldHandler(p)

WorkerServes(p) ==
  \/ \E s \in {"term", "usr2"} : Signal(p, s)
  \/ DelayedShutdown(p)
  \/ Exit(p)

Fairness == WF_vars(MainServes) /\ \A p \in Pids : WF_vars(WorkerServes(p))

FairSpec == Spec /\ Fairness

-----------------------------------------------------------------------------
(* The types of the state.                                                 *)
TypeOK ==
  /\ main \in Main
  /\ wait \subseteq Job
  /\ table \in [All -> Entry \cup {NoEntry}]
  /\ proc \in [All -> Process]
  /\ events \in 0..MaxEvents

(* While main runs its table has every worker process that exists, so that *)
(* its end (rspamd_final_timer_handler) leaves no worker behind.           *)
NoWorkerLeft ==
  /\ Up => \A p \in Pids : proc[p].st # "free" => Present(p)
  /\ main.st = "exited" => \A p \in Pids : proc[p].st = "free"

(* A slot of a configuration has one worker or one respawn timer           *)
(* (rspamd_cld_handler, rspamd_fork_delayed), whatever crashes, is killed  *)
(* for lost heartbeats or is reloaded.                                     *)
SlotOnce ==
  \A j \in Job :
    /\ \A p, q \in Pids : Serves(p, j) /\ Serves(q, j) => p = q
    /\ j \in wait => \A p \in Pids : ~Serves(p, j)

(* While main is up every slot of the current configuration has a worker   *)
(* or a respawn timer.  The only way to lose one: main asks a worker to    *)
(* terminate for lost heartbeats, hears it again, and takes its exit for a *)
(* normal one (rspamd_check_termination_clause).                           *)
SlotCovered ==
  main.st = "up" =>
    \A s \in Slots :
      LET j == [slot |-> s, gen |-> main.gen]
      IN \/ j \in wait
         \/ \E p \in Pids : Serves(p, j)
         \/ s \in main.given

(* A slot has one worker or respawn timer, and none is lost but in that    *)
(* one race.                                                               *)
SlotsKept == SlotOnce /\ SlotCovered

(* A living worker that is not being replaced is always listened to and    *)
(* checked, also after a reload that failed (rspamd_detach_worker,         *)
(* rspamd_attach_worker).                                                  *)
Monitored ==
  Up => \A p \in Pids :
          IsWorker(p) /\ ~table[p].old /\ proc[p].st # "dead"
            => table[p].srv /\ table[p].hb

(* Main knows of every worker, and hears of every one that it relies on.   *)
Supervised == NoWorkerLeft /\ Monitored

(* The finish scripts run with no connection left and at most once, and a  *)
(* worker whose shutdown timer did not fire ends after it has run them     *)
(* (rspamd_worker_terminate_handlers, reduce_tasks_count).                 *)
ScriptsOnce ==
  \A p \in Pids :
    /\ proc[p].final <= 1
    /\ proc[p].final = 1 => proc[p].conns = 0
    /\ proc[p].st = "wanna_die" /\ ~proc[p].forced
         => proc[p].conns = 0 /\ (Scripts => proc[p].final = 1)

(* What main knows of a helper that will never be taken out of its table:  *)
(* the worker that forked it is gone, or is not listened to any more.      *)
Stuck(x) ==
  Present(x) /\ \A p \in Pids : IsWorker(p) /\ table[p].srv
    => /\ proc[x].parent # p
       /\ \A i \in DOMAIN proc[p].pipe : proc[p].pipe[i] # <<x, "dead">>

(* Once SIGTERM came, main ends, unless its table has a helper whose end   *)
(* nobody will tell it (rspamd_term_handler, rspamd_final_timer_handler).  *)
ShutdownEnds ==
  (main.st = "stopping")
    ~> (main.st = "exited" \/ \E x \in Helpers : Stuck(x))

(* A worker that has sent a heartbeat, is not busy and hangs does not stay *)
(* so: it is killed and reaped, unless it comes back or main stops         *)
(* checking it (rspamd_main_heartbeat_cb).                                 *)
HungKilled ==
  \A p \in Pids :
    []<>~(/\ main.st = "up" /\ LossMax > 0
          /\ IsWorker(p) /\ table[p].hb /\ ~table[p].busy
          /\ table[p].beat /\ proc[p].hung)

(* A worker that was in the table when a reload replaced its configuration *)
(* (kill_old_workers marks it, and it gets SIGUSR2) does not stay, unless  *)
(* it hangs, as nobody checks its heartbeats then.  A worker that a        *)
(* respawn timer of the old configuration forks after the reload is not    *)
(* marked, and stays (kill_old_workers, rspamd_worker_usr2_handler).       *)
OldLeaves ==
  \A p \in Pids :
    []<>~(Up /\ IsWorker(p) /\ table[p].old /\ ~proc[p].hung)
=============================================================================
