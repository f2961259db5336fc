-------------------------------- MODULE Master --------------------------------
(***************************************************************************)
(* The master process and its workers: forking, the signals, reaping and   *)
(* restarting, and the end (src/server/my_process_cycle.cpp,               *)
(* src/server/my_signal.cpp).                                              *)
(*                                                                         *)
(* The master has its signals blocked except in sigsuspend, where the      *)
(* handlers run.  The handler of SIGCHLD calls waitpid itself, so the main *)
(* loop reaps only what dies between the handler and its own waitpid.      *)
(* Process identifiers are not used again; an entry of ngx_processes that  *)
(* was never written is 0, and kill(0) reaches the whole process group.    *)
(***************************************************************************)
EXTENDS Integers, FiniteSets, FiniteSetsExt

CONSTANTS
    WorkerProcesses,     \* configured number of workers
    MaxCrashes,          \* bound: workers that end with an error
    MaxForkErrors        \* bound: forks that fail

MasterAssumption ==
    WorkerProcesses \in Nat \ {0} /\ MaxCrashes \in Nat /\ MaxForkErrors \in Nat

VARIABLES
    mpc, slot,           \* master: program counter, next worker to start
    pending,             \* signals waiting for the master
    ngx_reap, g_stopEvent,
    ngx_processes,       \* the table of workers, by index
    ngx_last_process,
    proc,                \* state of each process
    failed,              \* processes that ended with an error
    term,                \* processes that have been sent SIGTERM
    restarted,           \* processes forked by ngx_reap_worker_processes
    late,                \* processes forked when g_stopEvent was set
    forkErrors

table == <<ngx_processes, ngx_last_process>>
flags == <<ngx_reap, g_stopEvent>>
procs == <<proc, failed, term, restarted, late, forkErrors>>
vars == <<mpc, slot, pending, flags, table, procs>>

Pids == 1 .. WorkerProcesses + MaxCrashes
Indices == 0 .. Cardinality(Pids)
Live == {p \in Pids : proc[p] \in {"start", "run", "stop"}}
Zombies == {p \in Pids : proc[p] = "zombie"}
Unused == {p \in Pids : proc[p] = "none"}

Init ==
    /\ mpc = "fork" /\ slot = 0
    /\ pending = {} /\ ngx_reap = FALSE /\ g_stopEvent = FALSE
    /\ ngx_processes = [i \in Indices |-> 0] /\ ngx_last_process = 0
    /\ proc = [p \in Pids |-> "none"]
    /\ failed = {} /\ term = {} /\ restarted = {} /\ late = {} /\ forkErrors = 0

-----------------------------------------------------------------------------
(* ngx_spawn_process: what fork and the parent's branch leave behind.      *)
Spawned(i, procsBefore) ==
    /\ Unused # {}
    /\ LET p == Min(Unused) IN
          /\ proc' = [procsBefore EXCEPT ![p] = "start"]
          /\ ngx_processes' = [ngx_processes EXCEPT ![i] = p]
          /\ ngx_last_process' = ngx_last_process + 1

ForkFails == forkErrors < MaxForkErrors /\ forkErrors' = forkErrors + 1

Start ==             \* ngx_start_worker_processes
    /\ mpc = "fork"
    /\ \/ /\ Spawned(slot, proc)
          /\ UNCHANGED <<pending, flags, failed, term, restarted, late, forkErrors>>
       \/ /\ ForkFails
          /\ UNCHANGED <<pending, flags, table, proc, failed, term, restarted, late>>
    /\ slot' = slot + 1
    /\ mpc' = IF slot + 1 = WorkerProcesses THEN "suspend" ELSE "fork"

(* sigsuspend: the handlers of all pending signals run.  That of SIGCHLD   *)
(* ends in ngx_process_get_status, which waits for every dead child.       *)
Handler(s) ==
    IF "CHLD" \in s THEN proc' = [p \in Pids |-> IF p \in Zombies THEN "gone" ELSE proc[p]]
                    ELSE UNCHANGED proc

Deliver ==
    /\ mpc = "suspend" /\ pending # {}
    /\ ngx_reap' = (ngx_reap \/ "CHLD" \in pending)
    /\ g_stopEvent' = (g_stopEvent \/ "STOP" \in pending)
    /\ Handler(pending)
    /\ pending' = {}
    /\ mpc' = IF ngx_reap' THEN "reap" ELSE "test"
    /\ UNCHANGED <<slot, table, failed, term, restarted, late, forkErrors>>

IndexOf(p) ==        \* the loop ends at ngx_last_process when p is not found
    Min({i \in 0 .. ngx_last_process - 1 : ngx_processes[i] = p} \cup {ngx_last_process})

Reaped(p) == [proc EXCEPT ![p] = "gone"]     \* waitpid

(* ngx_reap_worker_processes, one dead child.                              *)
ReapChild ==
    /\ mpc \in {"reap", "final"}
    /\ \E p \in Zombies :
          \/ /\ p \in failed /\ Spawned(IndexOf(p), Reaped(p))
             /\ restarted' = restarted \cup {Min(Unused)}
             /\ late' = IF g_stopEvent THEN late \cup {Min(Unused)} ELSE late
             /\ UNCHANGED forkErrors
          \/ /\ IF p \in failed THEN ForkFails ELSE UNCHANGED forkErrors
             /\ proc' = Reaped(p)
             /\ ngx_processes' = [ngx_processes EXCEPT ![IndexOf(p)] = -1]
             /\ UNCHANGED <<ngx_last_process, restarted, late>>
    /\ UNCHANGED <<mpc, slot, pending, flags, failed, term>>

ReapDoneForgets ==                                                  \* mutant
    /\ mpc \in {"reap", "final"} /\ Zombies = {}
    /\ ngx_reap' = FALSE /\ g_stopEvent' = FALSE
    /\ mpc' = IF mpc = "final" THEN "exited" ELSE "test"
    /\ UNCHANGED <<slot, pending, table, procs>>
ReapDone ==
    /\ mpc \in {"reap", "final"} /\ Zombies = {}
    /\ ngx_reap' = FALSE
    /\ mpc' = IF mpc = "final" THEN "exited" ELSE "test"
    /\ UNCHANGED <<slot, pending, g_stopEvent, table, procs>>

Again ==
    /\ mpc = "test" /\ ~g_stopEvent
    /\ mpc' = "suspend"
    /\ UNCHANGED <<slot, pending, flags, table, procs>>

(* ngx_signal_worker_processes with SIGTERM.                               *)
Listed == {ngx_processes[i] : i \in 0 .. ngx_last_process - 1}
SignalledUntested == Listed                                         \* mutant
SignalledFirst == Live \cap {ngx_processes[0]}                      \* mutant
Signalled == IF 0 \in Listed THEN Live ELSE Listed \cap Live

Stop ==
    /\ mpc = "test" /\ g_stopEvent
    /\ term' = term \cup Signalled
    /\ pending' = IF 0 \in Listed THEN pending \cup {"STOP"} ELSE pending
    /\ mpc' = "final"
    /\ UNCHANGED <<slot, flags, table, proc, failed, restarted, late, forkErrors>>

-----------------------------------------------------------------------------
(* The workers.  A dying child sends SIGCHLD to a master that still runs.  *)
Notify(signals) == pending' = IF mpc = "exited" THEN pending ELSE pending \cup signals

Ready(p) ==          \* ngx_worker_process_cycle unblocks the signals
    /\ proc[p] = "start"
    /\ proc' = [proc EXCEPT ![p] = "run"]
    /\ UNCHANGED <<mpc, slot, pending, flags, table, failed, term, restarted, late, forkErrors>>

Leave(p) ==          \* SIGTERM, or the fork, set g_stopEvent: the event loop ends
    /\ proc[p] = "run" /\ p \in term \cup late
    /\ proc' = [proc EXCEPT ![p] = "stop"]
    /\ UNCHANGED <<mpc, slot, pending, flags, table, failed, term, restarted, late, forkErrors>>

(* The worker returns from ngx_spawn_process into the code of the master.  *)
(* If that was the reaping, it finds g_stopEvent set and signals all in    *)
(* its table, where its own entry is 0: the process group.                 *)
Exit(p) ==
    /\ proc[p] = "stop"
    /\ proc' = [proc EXCEPT ![p] = "zombie"]
    /\ term' = IF p \in restarted THEN term \cup Live ELSE term
    /\ Notify(IF p \in restarted THEN {"CHLD", "STOP"} ELSE {"CHLD"})
    /\ UNCHANGED <<mpc, slot, flags, table, failed, restarted, late, forkErrors>>

Crash(p) ==          \* or exit(-1), exit(-2) when it cannot start
    /\ p \in Live /\ Cardinality(failed) < MaxCrashes
    /\ proc' = [proc EXCEPT ![p] = "zombie"] /\ failed' = failed \cup {p}
    /\ Notify({"CHLD"})
    /\ UNCHANGED <<mpc, slot, flags, table, term, restarted, late, forkErrors>>

(* SIGTERM or SIGQUIT for the master (mynginx-quit.sh).                    *)
Quit ==
    /\ mpc # "exited" /\ ~g_stopEvent
    /\ pending' = pending \cup {"STOP"}
    /\ UNCHANGED <<mpc, slot, flags, table, procs>>

MasterStep == Start \/ Deliver \/ ReapChild \/ ReapDone \/ Again \/ Stop
WorkerStep(p) == Ready(p) \/ Leave(p) \/ Exit(p)

Next == MasterStep \/ Quit \/ \E p \in Pids : WorkerStep(p) \/ Crash(p)

Spec == Init /\ [][Next]_vars

(* Every process runs.  Nobody has to ask for the end or to crash.         *)
FairSpec == Spec /\ WF_vars(MasterStep) /\ \A p \in Pids : WF_vars(WorkerStep(p))

-----------------------------------------------------------------------------
TypeOK ==
    /\ mpc \in {"fork", "suspend", "reap", "test", "final", "exited"}
    /\ slot \in 0 .. WorkerProcesses
    /\ pending \subseteq {"CHLD", "STOP"} /\ ngx_reap \in BOOLEAN /\ g_stopEvent \in BOOLEAN
    /\ ngx_processes \in [Indices -> Pids \cup {0, -1}]
    /\ ngx_last_process \in 0 .. Cardinality(Pids)
    /\ proc \in [Pids -> {"none", "start", "run", "stop", "zombie", "gone"}]
    /\ failed \subseteq Pids /\ term \subseteq Pids /\ restarted \subseteq Pids
    /\ late \subseteq restarted /\ forkErrors \in 0 .. MaxForkErrors

(* The signals of the end reach every worker there is, whatever crashed,   *)
(* was restarted or could not be forked before: the table and its length   *)
(* lead to each of them.  A worker forked later inherits g_stopEvent.      *)
EndReachesAll == mpc \in {"final", "exited"} => Live \subseteq term \cup late

(* A request to stop is not lost: the master exits, and every worker ends, *)
(* the ones that are restarted meanwhile included.                         *)
StopsAll == "STOP" \in pending ~> (mpc = "exited" /\ Live = {})

(* my_process_cycle.cpp: a worker that has crashed is restarted.           *)
CrashIsRestarted ==
    (mpc = "suspend" /\ failed # {}) ~> (restarted # {} \/ g_stopEvent)
=============================================================================
