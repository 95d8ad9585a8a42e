--------------------------- MODULE TaskProcessor ---------------------------
(***************************************************************************)
(* main/taskprocessor.c: a taskprocessor is a named singleton, an astobj2  *)
(* object in the container tps_singletons, with a queue of tasks and a     *)
(* thread that executes them.  One name is modelled; an instance is one    *)
(* object of that name, and a new one is created when the name is asked    *)
(* for after the last one was unlinked.                                    *)
(*                                                                         *)
(* Clients get a reference, push tasks and drop the reference with         *)
(* ast_taskprocessor_unreference, under the lock of the container.  CLI    *)
(* sessions ("core ping taskprocessor", "core show taskprocessors") take a *)
(* reference too, but drop it with a bare ao2_ref(tps, -1).                *)
(*                                                                         *)
(* taskprocessor_lock is held during one action and never between two.     *)
(***************************************************************************)
EXTENDS Integers, Sequences, FiniteSets

CONSTANTS
  Instances,    \* objects the allocator can provide for the name
  Clients,      \* modules using the name
  Permanent,    \* clients that keep their reference until the process ends
  Clis,         \* CLI sessions
  MaxTasks,     \* bound: tasks pushed in all, pings included
  AllocFails,   \* tps_task_alloc may fail
  None          \* NULL, nobody

ASSUME TaskProcessorConstants ==
  /\ MaxTasks \in Nat /\ AllocFails \in BOOLEAN
  /\ IsFiniteSet(Clients) /\ IsFiniteSet(Clis)
  /\ Clients \cap Clis = {} /\ Permanent \subseteq Clients
  /\ None \notin Instances \cup Clients \cup Clis

Threads == Clients \cup Clis

VARIABLES
  linked,       \* contents of tps_singletons
  clock,        \* owner of the lock of tps_singletons
  refs,         \* ref_counter of every instance
  life,         \* "unused", "alive", "dying" (in its destructor), "freed"
  queue,        \* tps_queue
  running,      \* poll_thread_run
  signalled,    \* poll_cond was signalled while the thread waited on it
  wpc,          \* where tps_processing_function is
  task,         \* the task it took off the queue
  mine,         \* the reference a client or CLI session holds
  pc,           \* where a client or CLI session is
  plock,        \* owner of cli_ping_cond_lock when kept across actions
  ponged,       \* CLI sessions signalled through cli_ping_cond
  pushed,       \* number of tasks pushed so far (they are numbered)
  done,         \* history: numbers of the tasks executed, in order
  misused       \* history: an instance was used after it was freed

object == <<refs, life>>
worker == <<wpc, task>>
queues == <<queue, running, signalled, pushed>>
client == <<mine, pc>>
ping == <<plock, ponged>>
vars == <<linked, clock, object, queues, worker, client, ping, done, misused>>

Init ==
  /\ linked = {} /\ clock = None
  /\ refs = [t \in Instances |-> 0]
  /\ life = [t \in Instances |-> "unused"]
  /\ queue = [t \in Instances |-> <<>>]
  /\ running = [t \in Instances |-> FALSE]
  /\ signalled = [t \in Instances |-> FALSE]
  /\ wpc = [t \in Instances |-> "none"]
  /\ task = [t \in Instances |-> None]
  /\ mine = [c \in Threads |-> None]
  /\ pc = [c \in Threads |-> "idle"]
  /\ plock = None /\ ponged = {}
  /\ pushed = 0 /\ done = <<>>
  /\ misused = FALSE

----------------------------------------------------------------------------
(* References.                                                             *)

\* ast_cond_signal(&tps->poll_cond)
Signal(t) == signalled' = [signalled EXCEPT ![t] = @ \/ wpc[t] = "waiting"]

\* Variant of BeginDestroy: the thread is not signalled.
BeginDestroy_Silent(t) ==
  /\ life' = [life EXCEPT ![t] = "dying"]
  /\ running' = [running EXCEPT ![t] = FALSE]
  /\ UNCHANGED signalled

\* tps_taskprocessor_destroy up to pthread_join, run by whoever dropped the
\* last reference.
BeginDestroy(t) ==
  /\ life' = [life EXCEPT ![t] = "dying"]
  /\ running' = [running EXCEPT ![t] = FALSE]
  /\ Signal(t)

\* Variant of DropRef: the last reference does not destroy the object.
DropRef_OffByOne(c, t, kept) ==
  /\ refs' = [refs EXCEPT ![t] = @ - 1]
  /\ IF refs[t] - 1 < 0
     THEN BeginDestroy(t) /\ pc' = [pc EXCEPT ![c] = "joining"]
     ELSE UNCHANGED <<life, running, signalled>> /\ pc' = [pc EXCEPT ![c] = kept]

\* ao2_ref(tps, -1) by thread c at label `kept' if the object survives.
DropRef(c, t, kept) ==
  /\ refs' = [refs EXCEPT ![t] = @ - 1]
  /\ IF refs[t] - 1 <= 0
     THEN BeginDestroy(t) /\ pc' = [pc EXCEPT ![c] = "joining"]
     ELSE UNCHANGED <<life, running, signalled>> /\ pc' = [pc EXCEPT ![c] = kept]

\* Variant of ast_taskprocessor_get: the container is not locked.
ast_taskprocessor_get_Unlocked(c) ==
  /\ pc[c] = "idle" /\ mine[c] = None
  /\ \/ \E t \in linked :
          /\ mine' = [mine EXCEPT ![c] = t]
          /\ refs' = [refs EXCEPT ![t] = @ + 1]
          /\ UNCHANGED <<linked, life, running, wpc>>
     \/ /\ linked = {}
        /\ \E t \in Instances :
             /\ life[t] = "unused"
             /\ mine' = [mine EXCEPT ![c] = t]
             /\ refs' = [refs EXCEPT ![t] = 2]
             /\ life' = [life EXCEPT ![t] = "alive"]
             /\ linked' = {t}
             /\ running' = [running EXCEPT ![t] = TRUE]
             /\ wpc' = [wpc EXCEPT ![t] = "top"]
  /\ UNCHANGED <<clock, queue, signalled, pushed, task, pc, ping, done, misused>>

\* ast_taskprocessor_get(name, TPS_REF_DEFAULT).  The object is created with
\* one reference and linking it adds another.
ast_taskprocessor_get(c) ==
  /\ pc[c] = "idle" /\ mine[c] = None /\ clock = None
  /\ \/ \E t \in linked :
          /\ mine' = [mine EXCEPT ![c] = t]
          /\ refs' = [refs EXCEPT ![t] = @ + 1]
          /\ UNCHANGED <<linked, life, running, wpc>>
     \/ /\ linked = {}
        /\ \E t \in Instances :
             /\ life[t] = "unused"
             /\ mine' = [mine EXCEPT ![c] = t]
             /\ refs' = [refs EXCEPT ![t] = 2]
             /\ life' = [life EXCEPT ![t] = "alive"]
             /\ linked' = {t}
             /\ running' = [running EXCEPT ![t] = TRUE]
             /\ wpc' = [wpc EXCEPT ![t] = "top"]
  /\ UNCHANGED <<clock, queue, signalled, pushed, task, pc, ping, done, misused>>

\* Variant of Append1: the task jumps the queue.
Append1_AtHead(t, kind) ==
  /\ pushed' = pushed + 1
  /\ queue' = [queue EXCEPT ![t] = <<[n |-> pushed + 1, kind |-> kind]>> \o @]
  /\ Signal(t)

\* Variant of Append1: the thread is not signalled.
Append1_Silent(t, kind) ==
  /\ pushed' = pushed + 1
  /\ queue' = [queue EXCEPT ![t] = Append(@, [n |-> pushed + 1, kind |-> kind])]
  /\ UNCHANGED signalled

Append1(t, kind) ==
  /\ pushed' = pushed + 1
  /\ queue' = [queue EXCEPT ![t] = Append(@, [n |-> pushed + 1, kind |-> kind])]
  /\ Signal(t)

\* ast_taskprocessor_push by a client; a failure leaves everything as it was.
ast_taskprocessor_push(c) ==
  /\ c \in Clients /\ pc[c] = "idle" /\ mine[c] # None /\ pushed < MaxTasks
  /\ Append1(mine[c], "work")
  /\ UNCHANGED <<linked, clock, object, running, worker, client, ping, done, misused>>

\* ast_taskprocessor_unreference, in the steps that touch the reference
\* count: other references may be dropped between them.
UnrefUnlink(c) ==
  /\ c \in Clients \ Permanent /\ pc[c] = "idle" /\ mine[c] # None /\ clock = None
  /\ clock' = c
  /\ linked' = linked \ {mine[c]}
  /\ refs' = IF mine[c] \in linked THEN [refs EXCEPT ![mine[c]] = @ - 1] ELSE refs
  /\ pc' = [pc EXCEPT ![c] = "unref"]
  /\ UNCHANGED <<life, queues, worker, mine, ping, done, misused>>

UnrefDrop(c) ==
  /\ pc[c] = "unref"
  /\ DropRef(c, mine[c], "relink")
  /\ UNCHANGED <<linked, clock, queue, pushed, worker, mine, ping, done, misused>>

UnrefRelink(c) ==
  /\ pc[c] = "relink"
  /\ linked' = linked \cup {mine[c]}
  /\ refs' = [refs EXCEPT ![mine[c]] = @ + 1]
  /\ misused' = (misused \/ life[mine[c]] # "alive")
  /\ clock' = None
  /\ mine' = [mine EXCEPT ![c] = None]
  /\ pc' = [pc EXCEPT ![c] = "idle"]
  /\ UNCHANGED <<life, queues, worker, ping, done>>

\* pthread_join returned: the destructor ends and the memory is freed.  A
\* client then also releases the lock of the container.
Join(c) ==
  /\ pc[c] = "joining" /\ wpc[mine[c]] = "exit"
  /\ life' = [life EXCEPT ![mine[c]] = "freed"]
  /\ clock' = IF clock = c THEN None ELSE clock
  /\ mine' = [mine EXCEPT ![c] = None]
  /\ pc' = [pc EXCEPT ![c] = "idle"]
  /\ UNCHANGED <<linked, refs, queues, worker, ping, done, misused>>

----------------------------------------------------------------------------
(* CLI sessions.                                                           *)

\* Variant of CliGet: no reference is taken.
CliGet_NoRef(k) ==
  /\ k \in Clis /\ pc[k] = "idle" /\ clock = None
  /\ \A c \in Permanent : mine[c] # None
  /\ \E t \in linked :
       /\ mine' = [mine EXCEPT ![k] = t]
       /\ UNCHANGED refs
  /\ \E next \in {"ping", "drop"} : pc' = [pc EXCEPT ![k] = next]
  /\ UNCHANGED <<linked, clock, life, queues, worker, ping, done, misused>>

\* ast_taskprocessor_get(name, TPS_REF_IF_EXISTS), or ao2_iterator_next in
\* cli_tps_report.  Permanent clients take their reference when Asterisk
\* starts, before there is a command line.
CliGet(k) ==
  /\ k \in Clis /\ pc[k] = "idle" /\ clock = None
  /\ \A c \in Permanent : mine[c] # None
  /\ \E t \in linked :
       /\ mine' = [mine EXCEPT ![k] = t]
       /\ refs' = [refs EXCEPT ![t] = @ + 1]
  /\ \E next \in {"ping", "drop"} : pc' = [pc EXCEPT ![k] = next]
  /\ UNCHANGED <<linked, clock, life, queues, worker, ping, done, misused>>

\* cli_tps_ping locks cli_ping_cond_lock, pushes the ping task and waits: the
\* wait releases the lock.  The mutex is recursive: a session that left it
\* locked can lock it again.
PingPush(k) ==
  /\ pc[k] = "ping" /\ plock \in {None, k} /\ pushed < MaxTasks
  /\ Append1(mine[k], "ping")
  /\ pc' = [pc EXCEPT ![k] = "waiting"]
  /\ UNCHANGED <<linked, clock, object, running, worker, mine, ping, done, misused>>

\* The push failed: the function returns with cli_ping_cond_lock locked.
PingPushFails(k) ==
  /\ AllocFails /\ pc[k] = "ping" /\ plock \in {None, k}
  /\ plock' = k
  /\ DropRef(k, mine[k], "dropped")
  /\ UNCHANGED <<linked, clock, queue, pushed, worker, mine, ponged, done, misused>>

\* ast_cond_timedwait returns because of the signal or after a second.
PingWake(k) ==
  /\ pc[k] = "waiting" /\ plock \in {None, k}
  /\ ponged' = ponged \ {k}
  /\ pc' = [pc EXCEPT ![k] = "drop"]
  /\ UNCHANGED <<linked, clock, object, queues, worker, mine, plock, done, misused>>

CliDrop(k) ==
  /\ pc[k] = "drop"
  /\ DropRef(k, mine[k], "dropped")
  /\ UNCHANGED <<linked, clock, queue, pushed, worker, mine, ping, done, misused>>

CliReturn(k) ==
  /\ pc[k] = "dropped"
  /\ mine' = [mine EXCEPT ![k] = None]
  /\ pc' = [pc EXCEPT ![k] = "idle"]
  /\ UNCHANGED <<linked, clock, object, queues, worker, ping, done, misused>>

----------------------------------------------------------------------------
(* tps_processing_function.                                                *)

WorkerTop(t) ==
  /\ wpc[t] = "top"
  /\ IF ~running[t]
     THEN wpc' = [wpc EXCEPT ![t] = "drain"] /\ UNCHANGED signalled
     ELSE /\ wpc' = [wpc EXCEPT ![t] = IF queue[t] = <<>> THEN "waiting" ELSE "pop"]
          /\ signalled' = [signalled EXCEPT ![t] = FALSE]
  /\ UNCHANGED <<linked, clock, object, queue, running, pushed, task, client, ping, done, misused>>

\* ast_cond_wait returns; poll_thread_run is looked at again.
WorkerWake(t) ==
  /\ wpc[t] = "waiting" /\ signalled[t]
  /\ signalled' = [signalled EXCEPT ![t] = FALSE]
  /\ wpc' = [wpc EXCEPT ![t] = IF running[t] THEN "pop" ELSE "drain"]
  /\ UNCHANGED <<linked, clock, object, queue, running, pushed, task, client, ping, done, misused>>

\* POSIX allows ast_cond_wait to return for no reason.
SpuriousWake(t) ==
  /\ wpc[t] = "waiting" /\ ~signalled[t]
  /\ wpc' = [wpc EXCEPT ![t] = IF running[t] THEN "pop" ELSE "drain"]
  /\ UNCHANGED <<linked, clock, object, queues, task, client, ping,
                 done, misused>>

\* tps_taskprocessor_pop; nothing to pop sends the thread back to the top.
WorkerPop(t) ==
  /\ wpc[t] = "pop"
  /\ IF queue[t] = <<>>
     THEN wpc' = [wpc EXCEPT ![t] = "top"] /\ UNCHANGED <<queue, task>>
     ELSE /\ task' = [task EXCEPT ![t] = Head(queue[t])]
          /\ queue' = [queue EXCEPT ![t] = Tail(@)]
          /\ wpc' = [wpc EXCEPT ![t] = "execute"]
  /\ UNCHANGED <<linked, clock, object, running, signalled, pushed,
                 client, ping, done, misused>>

\* t->execute(t->datap) has returned; the statistics are left out.
\* tps_ping_handler needs cli_ping_cond_lock and signals one waiting session.
WorkerExecute(t) ==
  /\ wpc[t] = "execute"
  /\ LET waiters == {k \in Clis : pc[k] = "waiting" /\ k \notin ponged}
     IN \/ task[t].kind = "work" /\ UNCHANGED ponged
        \/ /\ task[t].kind = "ping" /\ plock = None
           /\ \/ waiters = {} /\ UNCHANGED ponged
              \/ \E k \in waiters : ponged' = ponged \cup {k}
  /\ done' = Append(done, task[t].n)
  /\ task' = [task EXCEPT ![t] = None]
  /\ wpc' = [wpc EXCEPT ![t] = "top"]
  /\ UNCHANGED <<linked, clock, object, queues, client, plock, misused>>

\* After the loop the queue is purged, nothing is executed.
WorkerDrain(t) ==
  /\ wpc[t] = "drain"
  /\ queue' = [queue EXCEPT ![t] = <<>>]
  /\ wpc' = [wpc EXCEPT ![t] = "exit"]
  /\ UNCHANGED <<linked, clock, object, running, signalled, pushed, task, client, ping, done, misused>>

ClientStep(c) ==
  \/ ast_taskprocessor_get(c) \/ ast_taskprocessor_push(c) \/ UnrefUnlink(c)

\* Steps of a call already begun: the code goes on by itself.
CallStep(c) ==
  \/ UnrefDrop(c) \/ UnrefRelink(c) \/ Join(c)
  \/ PingPush(c) \/ PingPushFails(c) \/ PingWake(c) \/ CliDrop(c) \/ CliReturn(c)

WorkerStep(t) ==
  WorkerTop(t) \/ WorkerWake(t) \/ WorkerPop(t) \/ WorkerExecute(t) \/ WorkerDrain(t)

Next ==
  \/ \E c \in Clients : ClientStep(c)
  \/ \E k \in Clis : CliGet(k)
  \/ \E c \in Threads : CallStep(c)
  \/ \E t \in Instances : WorkerStep(t) \/ SpuriousWake(t)

Spec == Init /\ [][Next]_vars

\* The worker threads and calls in progress are scheduled, and a task returns.
LiveSpec ==
  /\ Spec
  /\ \A t \in Instances : WF_vars(WorkerStep(t))
  /\ \A c \in Threads : WF_vars(CallStep(c))

----------------------------------------------------------------------------
(* Properties.                                                             *)

Tasks == [n : Nat, kind : {"work", "ping"}]

TypeOK ==
  /\ linked \subseteq Instances /\ clock \in Threads \cup {None}
  /\ refs \in [Instances -> Nat]
  /\ life \in [Instances -> {"unused", "alive", "dying", "freed"}]
  /\ queue \in [Instances -> Seq(Tasks)]
  /\ running \in [Instances -> BOOLEAN] /\ signalled \in [Instances -> BOOLEAN]
  /\ wpc \in [Instances -> {"none", "top", "waiting", "pop", "execute", "drain", "exit"}]
  /\ task \in [Instances -> Tasks \cup {None}]
  /\ mine \in [Threads -> Instances \cup {None}]
  /\ pc \in [Threads -> {"idle", "unref", "relink", "joining", "ping", "waiting", "drop", "dropped"}]
  /\ plock \in Threads \cup {None} /\ ponged \subseteq Clis
  /\ pushed \in Nat /\ done \in Seq(Nat)
  /\ misused \in BOOLEAN

\* A client that may use its reference, and one relinking the object, hold an
\* object that exists.
Holds(c) == mine[c] # None /\ pc[c] \in {"idle", "unref", "ping", "waiting", "drop"}

\* The container and the holders of references only see objects that have not
\* been destroyed: unlink, drop and relink in ast_taskprocessor_unreference
\* never leave a destroyed object in tps_singletons or relink one.
NoUseAfterFree ==
  /\ ~misused
  /\ \A t \in linked : life[t] = "alive"
  /\ \A c \in Threads : Holds(c) => life[mine[c]] = "alive"

\* A taskprocessor is a singleton: two instances of the name never both
\* accept tasks, although ast_taskprocessor_unreference takes the object out
\* of the container for a while.
Singleton ==
  \A t, u \in Instances : life[t] = "alive" /\ life[u] = "alive" => t = u

\* Tasks are executed one at a time, in the order they were pushed, none of
\* them twice, whatever happens to the instances.
ExecutedInOrder ==
  \A i, j \in 1..Len(done) : i < j => done[i] < done[j]

\* A task that was pushed is executed, unless the last reference is dropped
\* first and the queue is purged, or a ping that could not be pushed has left
\* cli_ping_cond_lock locked (cli_tps_ping returns without unlocking it), which
\* stops the thread at the next ping.
TasksAreProcessed ==
  \A t \in Instances :
    (queue[t] # <<>>) ~> (queue[t] = <<>> \/ plock # None)

\* ast_taskprocessor_unreference returns, also when it has to join the thread:
\* the thread notices poll_thread_run wherever it was.
CallsReturn == \A c \in Clients : (pc[c] # "idle") ~> (pc[c] = "idle")

\* include/asterisk/taskprocessor.h: a taskprocessor is "destroyed when the
\* taskprocessor reference count reaches zero".  The container holds a reference
\* too, which ast_taskprocessor_unreference has to give up with the last client's.
UnreferencedIsDestroyed ==
  (\A c \in Threads : pc[c] = "idle" /\ mine[c] = None)
    => \A t \in Instances : life[t] # "alive"
=============================================================================
