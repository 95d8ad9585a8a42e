------------------------------- MODULE Sched -------------------------------
(***************************************************************************)
(* The scheduler of main/sched.c: a sched_context (a heap of entries       *)
(* ordered by time, a hash table of the same entries by id, a cache of     *)
(* released structures), the dedicated thread of the ast_sched_thread API, *)
(* and threads that add entries and delete them with the AST_SCHED_DEL     *)
(* family of macros (include/asterisk/sched.h).                            *)
(*                                                                         *)
(* con->lock is held during one action of this module and never between    *)
(* two; it is released around the callback of an entry, which is why a     *)
(* callback is two actions.  st->lock is held by the thread from the call  *)
(* of ast_sched_wait until it sleeps (rpc = "decided").                    *)
(*                                                                         *)
(* Structures are pointers: an entry is the contents (fields) of one of    *)
(* them.  The heap appears here through its contract, a set whose least    *)
(* `when' is taken first; module Heap shows that heap.c meets it.          *)
(***************************************************************************)
EXTENDS Integers, FiniteSets

CONSTANTS
  Structs,      \* struct sched blocks the allocator can provide
  Users,        \* threads that use the context
  Whens,        \* delays passed to ast_sched_add, in milliseconds
  Results,      \* what a callback may return (0: do not run again)
  Ms,           \* clock ticks in a millisecond
  MaxTime,      \* bound: the clock stops here
  MaxAdds,      \* bound: number of entries ever added
  IdBits,       \* width of con->eventcnt and of struct sched.id
  MaxCache,     \* SCHED_MAX_CACHE
  Retries,      \* attempts of AST_SCHED_DEL (10 in the code)
  BareContext,  \* users also call ast_sched_add on the thread's context
  None          \* NULL

ASSUME SchedConstants ==
  /\ Whens \subseteq Nat /\ Results \subseteq Nat
  /\ Ms \in Nat \ {0} /\ MaxTime \in Nat /\ MaxAdds \in Nat
  /\ IdBits \in Nat \ {0} /\ MaxCache \in Nat /\ Retries \in Nat \ {0}
  /\ BareContext \in BOOLEAN
  /\ None \notin Structs
  /\ IsFiniteSet(Structs)

VARIABLES
  now,          \* ast_tvnow(), in ticks
  heap,         \* con->sched_heap
  ht,           \* con->schedq_ht
  cache,        \* con->schedc (con->schedccnt is its length)
  schedcnt,     \* con->schedcnt
  eventcnt,     \* con->eventcnt
  fields,       \* contents of every struct sched
  stop,         \* st->stop
  signalled,    \* st->cond was signalled while the thread slept on it
  rpc,          \* where sched_run is
  deadline,     \* what ast_sched_wait returned, then the absolute time of
                \* ast_cond_timedwait; -1: ast_cond_wait
  timedout,     \* the last sleep ended by its timeout
  limit,        \* `when' of the current ast_sched_runq
  current,      \* the entry whose callback is running
  idvar,        \* the variable a user keeps its entry's id in
  tries,        \* _count of the macro
  upc,          \* where a user is
  dpc           \* ast_sched_thread_destroy: not called, joining, done

\* History of the runs, read by the properties only.
VARIABLES
  cancelled,    \* ids for which ast_sched_del found an entry, or claimed to
  runs,         \* callbacks started in this ast_sched_runq, by structure
  lag           \* ticks from the clock reading of ast_sched_wait to that of sched_run

context == <<heap, ht, cache, schedcnt, eventcnt, fields>>
thread == <<rpc, deadline, timedout, limit, current>>
user == <<idvar, tries, upc>>
history == <<cancelled, runs, lag>>
vars == <<now, context, stop, signalled, thread, user, dpc, history>>

Entry == [id : Int, when : Int, resched : Int, variable : BOOLEAN, data : Users \cup {None}]
Blank == [id |-> 0, when |-> 0, resched |-> 0, variable |-> FALSE, data |-> None]

Init ==
  /\ now = 1
  /\ heap = {} /\ ht = {} /\ cache = {}
  /\ schedcnt = 0 /\ eventcnt = 1
  /\ fields = [s \in Structs |-> Blank]
  /\ stop = FALSE /\ signalled = FALSE
  /\ rpc = "check" /\ deadline = -1 /\ timedout = FALSE /\ limit = 0 /\ current = None
  /\ idvar = [u \in Users |-> -1]
  /\ tries = [u \in Users |-> 0]
  /\ upc = [u \in Users |-> "idle"]
  /\ dpc = "running"
  /\ cancelled = {}
  /\ runs = [s \in Structs |-> 0] /\ lag = 0

----------------------------------------------------------------------------
(* The context.                                                            *)

\* `tmp->id = con->eventcnt++' stores an unsigned counter in an int.
AsInt(n) == LET m == n % 2^IdBits
            IN IF m >= 2^(IdBits - 1) THEN m - 2^IdBits ELSE m

\* Variant of settime: a time in the past stays in the past.
settime_Unclamped(from, delay) ==
  LET t == (IF from = 0 THEN now ELSE from) + delay * Ms
  IN t

\* sched_settime: `from' 0 stands for "not supplied".
settime(from, delay) ==
  LET t == (IF from = 0 THEN now ELSE from) + delay * Ms
  IN IF t < now THEN now ELSE t

\* ast_hashtab_insert_safe refuses an entry whose id is already there.
insert_safe(table, f, s) ==
  IF \E t \in table : f[t].id = f[s].id THEN table ELSE table \cup {s}

\* sched_alloc prefers the cache; calloc provides what nobody holds.
Allocatable ==
  IF cache # {} THEN cache ELSE Structs \ (heap \cup ht \cup {current})

\* Variant of release: the cache has no limit.
release_Unbounded(s) == cache \cup {s}

\* sched_release keeps at most SCHED_MAX_CACHE structures.  What is left in a
\* released structure is never read (ast_sched_add_variable assigns every field):
\* its contents become Blank.
release(s) == IF Cardinality(cache) < MaxCache THEN cache \cup {s} ELSE cache

\* ast_sched_add_variable for user u, and ast_sched_add with variable FALSE.
\* The last disjunct is calloc failing: the caller is handed -1.
Add(u, delay, variable) ==
  \/ \E s \in Allocatable :
       LET f == [fields EXCEPT ![s] =
                  [id |-> AsInt(eventcnt), when |-> settime(0, delay),
                   resched |-> delay, variable |-> variable, data |-> u]]
       IN /\ fields' = f
          /\ cache' = cache \ {s}
          /\ heap' = heap \cup {s}
          /\ ht' = insert_safe(ht, f, s)
          /\ schedcnt' = schedcnt + 1
          /\ eventcnt' = eventcnt + 1
          /\ idvar' = [idvar EXCEPT ![u] = AsInt(eventcnt)]
  \/ /\ cache = {}
     /\ idvar' = [idvar EXCEPT ![u] = -1]
     /\ UNCHANGED context

\* Variant of Del: an entry whose callback is running counts as deleted.
Del_RunningCounts(id, ok) ==
  \/ /\ id < 0 /\ ok
     /\ UNCHANGED context
  \/ /\ id >= 0 /\ ok
     /\ \E s \in ht :
          /\ fields[s].id = id
          /\ heap' = heap \ {s}
          /\ ht' = ht \ {s}
          /\ schedcnt' = schedcnt - 1
          /\ cache' = release(s)
          /\ fields' = [fields EXCEPT ![s] = Blank]
     /\ UNCHANGED eventcnt
  \/ /\ id >= 0 /\ ~ok
     /\ \A s \in ht : fields[s].id # id
     /\ UNCHANGED context
  \/ /\ id >= 0 /\ ok /\ current # None /\ fields[current].id = id
     /\ UNCHANGED context

\* ast_sched_del: a negative id "succeeds", an id that is not in the table
\* fails.  `ok' is the return value being 0.
Del(id, ok) ==
  \/ /\ id < 0 /\ ok
     /\ UNCHANGED context
  \/ /\ id >= 0 /\ ok
     /\ \E s \in ht :
          /\ fields[s].id = id
          /\ heap' = heap \ {s}
          /\ ht' = ht \ {s}
          /\ schedcnt' = schedcnt - 1
          /\ cache' = release(s)
          /\ fields' = [fields EXCEPT ![s] = Blank]
     /\ UNCHANGED eventcnt
  \/ /\ id >= 0 /\ ~ok
     /\ \A s \in ht : fields[s].id # id
     /\ UNCHANGED context

\* Bound: the history variable runs counts up to here.
RunsCounted == 3

\* Variant of NextEvent: the entry stays in the hash table.
NextEvent_KeepsInTable(h, t, c, f, lim, r) ==
  \/ /\ \A s \in h : f[s].when >= lim
     /\ heap' = h /\ ht' = t /\ schedcnt' = c
     /\ current' = None /\ rpc' = "check"
     /\ limit' = 0 /\ runs' = [s \in Structs |-> 0]
  \/ \E s \in h :
       /\ f[s].when < lim
       /\ \A o \in h : f[s].when <= f[o].when
       /\ heap' = h \ {s} /\ ht' = t /\ schedcnt' = c - 1
       /\ current' = s /\ rpc' = "callback" /\ limit' = lim
       /\ runs' = [r EXCEPT ![s] = IF @ < RunsCounted THEN @ + 1 ELSE @]

\* One turn of the loop of ast_sched_runq from queue h, table t, count c and
\* contents f: it ends when nothing is due before lim, otherwise it takes the
\* earliest entry out and unlocks con->lock to call it.
NextEvent(h, t, c, f, lim, r) ==
  \/ /\ \A s \in h : f[s].when >= lim
     /\ heap' = h /\ ht' = t /\ schedcnt' = c
     /\ current' = None /\ rpc' = "check"
     /\ limit' = 0 /\ runs' = [s \in Structs |-> 0]
  \/ \E s \in h :
       /\ f[s].when < lim
       /\ \A o \in h : f[s].when <= f[o].when
       /\ heap' = h \ {s} /\ ht' = t \ {s} /\ schedcnt' = c - 1
       /\ current' = s /\ rpc' = "callback" /\ limit' = lim
       /\ runs' = [r EXCEPT ![s] = IF @ < RunsCounted THEN @ + 1 ELSE @]

----------------------------------------------------------------------------
(* The users.                                                              *)

CanUse(u) == dpc = "running" /\ upc[u] = "idle"

\* ast_sched_add[_variable] on the bare context: nobody is woken.
ast_sched_add(u) ==
  /\ BareContext
  /\ CanUse(u) /\ idvar[u] = -1 /\ eventcnt <= MaxAdds
  /\ \E delay \in Whens, variable \in BOOLEAN : Add(u, delay, variable)
  /\ UNCHANGED <<now, stop, signalled, thread, tries, upc, dpc, history>>

\* st->lock is free unless the thread is between ast_sched_wait and its sleep.
StLockFree == rpc # "decided"
Signal == signalled' = (signalled \/ rpc = "waiting")

\* Variant of ast_sched_thread_add: the thread is not signalled.
ast_sched_thread_add_Silent(u) ==
  /\ CanUse(u) /\ idvar[u] = -1 /\ eventcnt <= MaxAdds
  /\ StLockFree
  /\ \E delay \in Whens, variable \in BOOLEAN : Add(u, delay, variable)
  /\ UNCHANGED <<now, signalled, stop, thread, tries, upc, dpc, history>>

\* ast_sched_thread_add[_variable]: signals unless the add returned -1.
ast_sched_thread_add(u) ==
  /\ CanUse(u) /\ idvar[u] = -1 /\ eventcnt <= MaxAdds
  /\ StLockFree
  /\ \E delay \in Whens, variable \in BOOLEAN : Add(u, delay, variable)
  /\ IF idvar'[u] # -1 THEN Signal ELSE UNCHANGED signalled
  /\ UNCHANGED <<now, stop, thread, tries, upc, dpc, history>>

ast_sched_thread_poke ==
  /\ dpc = "running" /\ StLockFree
  /\ Signal
  /\ UNCHANGED <<now, context, stop, thread, user, dpc, history>>

\* One call of ast_sched_del, its result looked at by the caller.
ast_sched_del(u) ==
  /\ CanUse(u)
  /\ \E ok \in BOOLEAN :
       /\ Del(idvar[u], ok)
       /\ cancelled' = IF ok /\ idvar[u] # -1 THEN cancelled \cup {idvar[u]} ELSE cancelled
       /\ idvar' = IF ok THEN [idvar EXCEPT ![u] = -1] ELSE idvar
  /\ UNCHANGED <<now, stop, signalled, thread, tries, upc, dpc, runs, lag>>

\* AST_SCHED_DEL, and AST_SCHED_REPLACE which adds a new entry afterwards.
StartMacro(u) ==
  /\ CanUse(u) /\ idvar[u] > -1
  /\ \/ upc' = [upc EXCEPT ![u] = "deleting"]
     \/ BareContext /\ upc' = [upc EXCEPT ![u] = "replacing"]
  /\ UNCHANGED <<now, context, stop, signalled, thread, idvar, tries, dpc, history>>

\* The end of the loop: the macro forgets the id whatever happened to it.
FinishMacro(u) ==
  /\ upc' = [upc EXCEPT ![u] = IF @ = "replacing" THEN "adding" ELSE "idle"]
  /\ idvar' = [idvar EXCEPT ![u] = -1]
  /\ tries' = [tries EXCEPT ![u] = 0]

\* while (id > -1 && (_sched_res = ast_sched_del(sched, id)) && ++_count < 10)
MacroTry(u) ==
  /\ upc[u] \in {"deleting", "replacing"}
  /\ \/ /\ idvar[u] <= -1
        /\ FinishMacro(u)
        /\ UNCHANGED <<context, cancelled>>
     \/ /\ idvar[u] > -1
        /\ Del(idvar[u], TRUE)
        /\ cancelled' = cancelled \cup {idvar[u]}
        /\ FinishMacro(u)
     \/ /\ idvar[u] > -1
        /\ Del(idvar[u], FALSE)
        /\ IF tries[u] + 1 < Retries
           THEN /\ tries' = [tries EXCEPT ![u] = @ + 1]
                /\ UNCHANGED <<upc, idvar>>
           ELSE FinishMacro(u)
        /\ UNCHANGED cancelled
  /\ UNCHANGED <<now, stop, signalled, thread, dpc, runs, lag>>

\* The add at the end of AST_SCHED_REPLACE.
ReplaceAdd(u) ==
  /\ upc[u] = "adding"
  /\ IF eventcnt <= MaxAdds
     THEN \E delay \in Whens, variable \in BOOLEAN : Add(u, delay, variable)
     ELSE UNCHANGED <<context, idvar>>
  /\ upc' = [upc EXCEPT ![u] = "idle"]
  /\ UNCHANGED <<now, stop, signalled, thread, tries, dpc, history>>

----------------------------------------------------------------------------
(* The thread, sched_run.                                                  *)

\* Lock st->lock, look at st->stop, ask ast_sched_wait how long to sleep: it
\* rounds the time to the earliest entry down to whole milliseconds.
RunDecide ==
  /\ rpc = "check"
  /\ IF stop
     THEN rpc' = "done" /\ UNCHANGED deadline
     ELSE /\ rpc' = "decided"
          /\ \/ heap = {} /\ deadline' = -1
             \/ \E s \in heap :
                  /\ \A o \in heap : fields[s].when <= fields[o].when
                  /\ deadline' = IF fields[s].when <= now THEN 0
                                 ELSE ((fields[s].when - now) \div Ms) * Ms
  /\ UNCHANGED <<now, context, stop, signalled, timedout, limit, current, user, dpc, history>>

\* The clock is read again for the absolute time of ast_cond_timedwait, which
\* like ast_cond_wait releases st->lock.
RunSleep ==
  /\ rpc = "decided"
  /\ rpc' = "waiting" /\ signalled' = FALSE
  /\ deadline' = IF deadline = -1 THEN -1 ELSE now + deadline
  /\ UNCHANGED <<now, context, stop, timedout, limit, current, user, dpc, history>>

\* Variant of RunWake: nothing is run after a wakeup.
RunWake_NoRunq ==
  /\ rpc = "waiting"
  /\ \/ signalled /\ timedout' = FALSE
     \/ deadline # -1 /\ now >= deadline /\ timedout' = TRUE
  /\ signalled' = FALSE
  /\ rpc' = IF stop THEN "done" ELSE "check"
  /\ UNCHANGED <<now, context, stop, deadline, limit, current, user, dpc, history>>

\* Woken by a signal or by the timeout; looks at st->stop once more.
RunWake ==
  /\ rpc = "waiting"
  /\ \/ signalled /\ timedout' = FALSE
     \/ deadline # -1 /\ now >= deadline /\ timedout' = TRUE
  /\ signalled' = FALSE
  /\ rpc' = IF stop THEN "done" ELSE "runq"
  /\ UNCHANGED <<now, context, stop, deadline, limit, current, user, dpc, history>>

\* ast_cond_wait may return without a reason; sched_run does not mind.
SpuriousWake ==
  /\ rpc = "waiting"
  /\ timedout' = FALSE /\ signalled' = FALSE
  /\ rpc' = IF stop THEN "done" ELSE "runq"
  /\ UNCHANGED <<now, context, stop, deadline, limit, current, user, dpc, history>>

\* Variant of RunqEnter: no millisecond of slack.
RunqEnter_NoSlack ==
  /\ rpc = "runq"
  /\ NextEvent(heap, ht, schedcnt, fields, now, runs)
  /\ deadline' = -1 /\ timedout' = FALSE /\ lag' = 0
  /\ UNCHANGED <<now, cache, eventcnt, fields, stop, signalled, user, dpc, cancelled>>

\* ast_sched_runq up to the first callback, or to its return.
RunqEnter ==
  /\ rpc = "runq"
  /\ NextEvent(heap, ht, schedcnt, fields, now + Ms, runs)
  /\ deadline' = -1 /\ timedout' = FALSE /\ lag' = 0
  /\ UNCHANGED <<now, cache, eventcnt, fields, stop, signalled, user, dpc, cancelled>>

\* The callback of `current' returned res; ast_sched_runq locks con->lock,
\* schedules the entry again or releases it, and looks for the next one.  A
\* callback that returns 0 may have cleared the variable holding its id.
CallbackReturn ==
  /\ rpc = "callback"
  /\ \E res \in Results :
       IF res # 0
       THEN LET delay == IF fields[current].variable THEN res ELSE fields[current].resched
                f == [fields EXCEPT ![current].when = settime(@, delay)]
            IN /\ fields' = f
               /\ NextEvent(heap \cup {current}, insert_safe(ht, f, current),
                            schedcnt + 1, f, limit, runs)
               /\ UNCHANGED <<cache, idvar>>
       ELSE /\ cache' = release(current)
            /\ NextEvent(heap, ht, schedcnt, fields, limit, runs)
            /\ \/ UNCHANGED idvar
               \/ \E u \in Users :
                    /\ fields[current].data = u /\ idvar[u] = fields[current].id
                    /\ idvar' = [idvar EXCEPT ![u] = -1]
            /\ fields' = [fields EXCEPT ![current] = Blank]
  /\ UNCHANGED <<now, eventcnt, stop, signalled, deadline, timedout, tries, upc,
                 dpc, cancelled, lag>>

\* Variant of ast_sched_thread_destroy: the thread is not signalled.
ast_sched_thread_destroy_Silent ==
  /\ dpc = "running" /\ StLockFree
  /\ \A u \in Users : upc[u] = "idle"
  /\ stop' = TRUE /\ dpc' = "joining"
  /\ UNCHANGED <<now, signalled, context, thread, user, history>>

\* ast_sched_thread_destroy, called when no user is inside the scheduler.
ast_sched_thread_destroy ==
  /\ dpc = "running" /\ StLockFree
  /\ \A u \in Users : upc[u] = "idle"
  /\ stop' = TRUE /\ Signal /\ dpc' = "joining"
  /\ UNCHANGED <<now, context, thread, user, history>>

\* pthread_join returned: sched_context_destroy throws everything away.
DestroyContext ==
  /\ dpc = "joining" /\ rpc = "done"
  /\ heap' = {} /\ ht' = {} /\ cache' = {} /\ schedcnt' = 0
  /\ dpc' = "destroyed"
  /\ UNCHANGED <<now, eventcnt, fields, stop, signalled, thread, user, history>>

\* Bound: ticks that pass inside sched_run between its two clock readings.
MaxLag == 1

Tick ==
  /\ now < MaxTime
  /\ now' = now + 1
  /\ rpc = "decided" => lag < MaxLag
  /\ lag' = IF rpc = "decided" THEN lag + 1 ELSE lag
  /\ UNCHANGED <<context, stop, signalled, thread, user, dpc, cancelled, runs>>

UserStep(u) ==
  \/ ast_sched_add(u) \/ ast_sched_thread_add(u) \/ ast_sched_del(u)
  \/ StartMacro(u) \/ MacroTry(u) \/ ReplaceAdd(u)

ThreadStep == RunDecide \/ RunSleep \/ RunWake \/ RunqEnter \/ CallbackReturn

Next ==
  \/ \E u \in Users : UserStep(u)
  \/ ThreadStep \/ SpuriousWake
  \/ ast_sched_thread_poke \/ ast_sched_thread_destroy \/ DestroyContext
  \/ Tick

Spec == Init /\ [][Next]_vars

\* The thread and the clock go on, a callback returns, destroy joins: no user
\* has to do anything.
LiveSpec == Spec /\ WF_vars(ThreadStep) /\ WF_vars(Tick) /\ WF_vars(DestroyContext)

----------------------------------------------------------------------------
(* Properties.                                                             *)

TypeOK ==
  /\ now \in Nat
  /\ heap \subseteq Structs /\ ht \subseteq Structs /\ cache \subseteq Structs
  /\ schedcnt \in Nat /\ eventcnt \in Nat
  /\ fields \in [Structs -> Entry]
  /\ stop \in BOOLEAN /\ signalled \in BOOLEAN /\ timedout \in BOOLEAN
  /\ rpc \in {"check", "decided", "waiting", "runq", "callback", "done"}
  /\ deadline \in Int /\ limit \in Int
  /\ current \in Structs \cup {None}
  /\ idvar \in [Users -> Int] /\ tries \in [Users -> Nat]
  /\ upc \in [Users -> {"idle", "deleting", "replacing", "adding"}]
  /\ dpc \in {"running", "joining", "destroyed"}
  /\ cancelled \subseteq Int
  /\ runs \in [Structs -> Nat] /\ lag \in 0..MaxLag

\* Structures the scheduler will run, or is running.
Live == heap \cup ({current} \ {None})

\* The heap and the hash table of a context always hold the same entries,
\* schedcnt is their number, and no two live entries have the same id:
\* schedule(), ast_sched_del and ast_sched_runq keep the three in step across
\* callbacks that run without the lock.
QueueAgrees ==
  /\ ht = heap
  /\ schedcnt = Cardinality(heap)
  /\ \A s, t \in Live : fields[s].id = fields[t].id => s = t

\* A struct sched has one owner: the queue, the running ast_sched_runq, or the
\* cache of free structures.  sched_release is never given a structure that is
\* still queued, and sched_alloc never hands out one that is in use.
OneOwner ==
  /\ heap \cap cache = {}
  /\ current \notin heap \cup cache
  /\ (current # None) = (rpc = "callback")
  /\ Cardinality(cache) <= MaxCache

\* Once ast_sched_del has returned 0 for an entry, the entry is neither queued
\* nor running, and never will be: no callback starts or goes on after a
\* successful delete.
CancelledNeverRuns == \A s \in Live : fields[s].id \notin cancelled

\* The thread never oversleeps: when it sleeps, or is about to, with no wakeup
\* pending, its timeout is no later than the earliest entry, but for the time it
\* took to set it.  Entries are only added through ast_sched_thread_add, whose
\* signal is sent under st->lock.
NoOversleep ==
  LET wakes == IF rpc = "decided" THEN now + deadline ELSE deadline
  IN  rpc \in {"decided", "waiting"} /\ ~signalled =>
        \A s \in heap : deadline # -1 /\ (wakes <= fields[s].when + lag \/ wakes <= now)

\* One ast_sched_runq starts an entry at most twice, when its reschedule
\* interval is a millisecond or more: once because it was due, once more to
\* catch up, and then its time is past the limit taken at the start.
AtMostTwicePerRunq ==
  rpc = "callback" /\ fields[current].resched >= 1 /\ ~fields[current].variable
    => runs[current] <= 2

\* Rounding in ast_sched_wait and the one-millisecond slack of ast_sched_runq
\* fit together: a wakeup by timeout finds the entry it was set for due, so
\* the thread does not spin until the clock catches up.
TimeoutFindsWork ==
  [][rpc = "runq" /\ timedout /\ rpc' # "runq"
       => \A s \in heap : fields[s].when - deadline < Ms => current' # None]_vars

\* An entry whose time has come is run or deleted: the thread does not miss it
\* even if it was added just before the thread went to sleep.
DueEntriesRun ==
  \A s \in Structs :
    (s \in heap /\ fields[s].when + MaxLag <= MaxTime)
      ~> (s \notin heap \/ fields[s].when + MaxLag > MaxTime)

\* ast_sched_thread_destroy returns: the thread sees st->stop wherever it was.
DestroyReturns == (dpc = "joining") ~> (dpc = "destroyed")
=============================================================================
