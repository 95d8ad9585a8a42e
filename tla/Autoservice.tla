---------------------------- MODULE Autoservice -----------------------------
(***************************************************************************)
(* main/autoservice.c: one thread reads every channel that was handed to   *)
(* it with ast_autoservice_start, keeps the deferrable frames, and gives   *)
(* them back to the channel's read queue at ast_autoservice_stop.          *)
(*                                                                         *)
(* A section under the list lock is one action.  The thread uses its copy  *)
(* of the list without the lock; a thread that stops autoservice waits     *)
(* until as_chan_list_state has moved on from the value it saved under the *)
(* lock.  The counter matters only through that comparison, so the model   *)
(* keeps the set of threads whose saved value is still current.            *)
(*                                                                         *)
(* A frame has a kind and a serial number; media frames are read and       *)
(* thrown away without any trace and are left out.                         *)
(***************************************************************************)
EXTENDS Naturals, Sequences, FiniteSets, SequencesExt

CONSTANTS Chans, Users,
          Serves,      \* pairs <<u, c>>: the thread u may autoservice the channel c
          Entries,     \* memory for the list entries
          EndOnly,     \* channels that have AST_FLAG_END_DTMF_ONLY set from elsewhere
          Ignored,     \* the frame types ast_autoservice_ignore is called with
          MaxUses,     \* bound: nested starts of each thread on one channel
          MaxFrames,   \* bound: frames that arrive
          CreateFails, \* threads whose pthread_create may fail
          NoMemory,    \* whether a frame that is to be copied may find no memory
          None

ASSUME AutoserviceConstants ==
  /\ Serves \subseteq Users \X Chans
  /\ IsFiniteSet(Entries) /\ EndOnly \subseteq Chans
  /\ MaxUses \in [Users -> Nat \ {0}] /\ MaxFrames \in Nat
  /\ CreateFails \subseteq Users /\ NoMemory \in BOOLEAN
  /\ None \notin Chans \cup Entries

VARIABLES
  aslist,    \* aslist, first entry first
  ent,       \* the entries, None while the memory is free
  flag,      \* AST_FLAG_END_DTMF_ONLY
  readq,     \* frames waiting to be read from the channel
  hup,       \* chan->_softhangup
  tpc,       \* the autoservice thread
  mons, ents,\* its local copy of the list
  tchan, tframe, \* the channel it has read and what it got
  signalled, \* as_cond was signalled and the thread has not run yet
  stale,     \* threads in ast_autoservice_stop whose chan_list_state is current
  upc, uchan, uent, \* the other threads: program counter, chan, as
  held,      \* how many times a user has started and not stopped a channel
  arrived,   \* history: kinds of the frames produced so far
  refused,   \* history: channels for which the thread could not be created
  gone,      \* history: serial numbers of frames the users read or chose to ignore
  lost       \* history: serial numbers of frames that could not be copied

vars == <<aslist, ent, flag, readq, hup, tpc, mons, ents, tchan, tframe, signalled,
          stale, upc, uchan, uent, held, arrived, gone, lost, refused>>
thread == <<tpc, mons, ents, tchan, tframe>>
users == <<upc, uchan, uent, held>>

Kinds == {"control", "dtmf"}
Frame == [kind : Kinds \cup {"HANGUP"}, n : 1..MaxFrames]

\* A hangup is a control frame.
frametype(f) == IF f.kind = "HANGUP" THEN "control" ELSE f.kind

Init ==
  /\ aslist = <<>>
  /\ ent = [e \in Entries |-> None]
  /\ flag = [c \in Chans |-> c \in EndOnly]
  /\ readq = [c \in Chans |-> <<>>]
  /\ hup = [c \in Chans |-> FALSE]
  /\ tpc = "none" /\ mons = <<>> /\ ents = <<>> /\ tchan = None /\ tframe = None
  /\ signalled = FALSE
  /\ stale = {}
  /\ upc = [u \in Users |-> "idle"]
  /\ uchan = [u \in Users |-> None]
  /\ uent = [u \in Users |-> None]
  /\ held = [u \in Users |-> [c \in Chans |-> 0]]
  /\ arrived = <<>> /\ gone = {} /\ lost = {} /\ refused = {}

-----------------------------------------------------------------------------
\* The channels

\* The driver queues a frame; nothing is queued behind a hangup.
Queued(c, k) ==
  /\ Len(arrived) < MaxFrames
  /\ ~(readq[c] # <<>> /\ Last(readq[c]).kind = "HANGUP")
  /\ arrived' = Append(arrived, k)
  /\ readq' = [readq EXCEPT ![c] = Append(@, [kind |-> k, n |-> Len(arrived')])]
  /\ UNCHANGED <<aslist, ent, flag, thread, signalled, stale, users, gone, lost, refused>>

FrameArrives(c, k) == Queued(c, k) /\ UNCHANGED hup

\* ast_queue_hangup sets _softhangup if it gets the channel lock at once.
HangupArrives(c) == ~hup[c] /\ Queued(c, "HANGUP") /\ hup' \in {hup, [hup EXCEPT ![c] = TRUE]}

\* ast_read: the first frame; a hangup reads as NULL and is remembered.
Reads(c) ==
  /\ readq[c] # <<>>
  /\ readq' = [readq EXCEPT ![c] = Tail(@)]
  /\ hup' = [hup EXCEPT ![c] = @ \/ Head(readq[c]).kind = "HANGUP"]

\* The channel is nobody's business but its own thread's.
InService(c) == \E i \in DOMAIN aslist : ent[aslist[i]].chan = c
Idle(c) == \A u \in Users : held[u][c] = 0 /\ uchan[u] # c

UserReads(c) ==
  /\ Idle(c) /\ Reads(c)
  /\ gone' = gone \cup {Head(readq[c]).n}
  /\ UNCHANGED <<aslist, ent, flag, thread, signalled, stale, users, arrived, lost, refused>>

-----------------------------------------------------------------------------
\* The autoservice thread

Build ==
  LET live == SelectSeq(aslist, LAMBDA e : ~hup[ent[e].chan])
  IN  /\ ents' = live
      /\ mons' = [i \in DOMAIN live |-> ent[live[i]].chan]
      /\ tpc' = IF live = <<>> THEN "top" ELSE "serve"

\* Variant of RunTop: as_chan_list_state is not incremented.
RunTop_SameState ==
  /\ tpc = "top"
  /\ stale' = stale
  /\ IF aslist = <<>> THEN tpc' = "cond" /\ mons' = <<>> /\ ents' = <<>>
                      ELSE Build
  /\ UNCHANGED <<aslist, ent, flag, readq, hup, tchan, tframe, signalled, users, arrived, gone, lost, refused>>

\* The loop starts over: no removed entry is going to be used again.
RunTop ==
  /\ tpc = "top"
  /\ stale' = {}
  /\ IF aslist = <<>> THEN tpc' = "cond" /\ mons' = <<>> /\ ents' = <<>>
                      ELSE Build
  /\ UNCHANGED <<aslist, ent, flag, readq, hup, tchan, tframe, signalled, users, arrived, gone, lost, refused>>

\* ast_cond_wait returned, because of a signal or for no reason.
RunWoken ==
  /\ tpc = "cond"
  /\ signalled' = FALSE
  /\ Build
  /\ UNCHANGED <<aslist, ent, flag, readq, hup, tchan, tframe, stale, users, arrived, gone, lost, refused>>

\* ast_waitfor_n timed out, or a signal interrupted it.
RunTimeout ==
  /\ tpc = "serve" /\ tpc' = "top"
  /\ UNCHANGED <<aslist, ent, flag, readq, hup, mons, ents, tchan, tframe, signalled, stale,
                 users, arrived, gone, lost, refused>>

RunRead(c) ==
  /\ tpc = "serve" /\ tpc' = "defer"
  /\ \E i \in DOMAIN mons : mons[i] = c
  /\ Reads(c)
  /\ tchan' = c
  /\ tframe' = Head(readq[c])
  /\ UNCHANGED <<aslist, ent, flag, mons, ents, signalled, stale, users, arrived, gone, lost, refused>>

\* Variant of ast_is_deferrable_frame: a NULL frame is not turned into a hangup.
ast_is_deferrable_frame_NoHangup(f) == f.kind \in {"control"}

ast_is_deferrable_frame(f) == f.kind \in {"control", "HANGUP"}

\* A deferrable frame goes to the head of the channel's entry, if ast_frdup or ast_frisolate
\* finds the memory; for NULL it is a hangup frame.  The others are freed.
RunDefer ==
  /\ tpc = "defer" /\ tpc' = "top"
  /\ \/ /\ ast_is_deferrable_frame(tframe)
        /\ LET i == CHOOSE i \in DOMAIN mons : mons[i] = tchan /\ \A j \in 1..i - 1 : mons[j] # tchan
           IN  ent' = [ent EXCEPT ![ents[i]].frames = <<tframe>> \o @]
        /\ UNCHANGED lost
     \/ /\ ast_is_deferrable_frame(tframe) /\ NoMemory
        /\ lost' = lost \cup {tframe.n}
        /\ UNCHANGED ent
     \/ /\ ~ast_is_deferrable_frame(tframe)
        /\ UNCHANGED <<ent, lost>>
  /\ tchan' = None /\ tframe' = None
  /\ UNCHANGED <<aslist, flag, readq, hup, mons, ents, signalled, stale, users, arrived, gone, refused>>

-----------------------------------------------------------------------------
\* ast_autoservice_start

First(c) == CHOOSE i \in DOMAIN aslist : /\ ent[aslist[i]].chan = c
                                         /\ \A j \in 1..i - 1 : ent[aslist[j]].chan # c

Goto(u, l, c, e) ==
  /\ upc' = [upc EXCEPT ![u] = l]
  /\ uchan' = [uchan EXCEPT ![u] = c]
  /\ uent' = [uent EXCEPT ![u] = e]

Hold(u, c, d) == held' = [held EXCEPT ![u][c] = d]

\* The memory for a new entry is any that is free: what was just freed is used again.
ast_autoservice_start(u, c) ==
  /\ <<u, c>> \in Serves /\ upc[u] = "idle" /\ held[u][c] < MaxUses[u]
  /\ IF InService(c)
     THEN /\ ent' = [ent EXCEPT ![aslist[First(c)]].uses = @ + 1]
          /\ Hold(u, c, held[u][c] + 1)
          /\ UNCHANGED <<upc, uchan, uent>>
     ELSE LET e == CHOOSE e \in Entries : ent[e] = None IN
          /\ ent' = [ent EXCEPT ![e] = [chan |-> c, uses |-> 1, orig |-> FALSE,
                                        frames |-> <<>>, ignore |-> {}]]
          /\ Goto(u, "s_flag", c, e)
          /\ UNCHANGED held
  /\ UNCHANGED <<aslist, flag, readq, hup, thread, signalled, stale, arrived, gone, lost, refused>>

\* With the channel locked.
StartFlag(u) ==
  /\ upc[u] = "s_flag"
  /\ ent' = [ent EXCEPT ![uent[u]].orig = flag[uchan[u]]]
  /\ flag' = [flag EXCEPT ![uchan[u]] = TRUE]
  /\ Goto(u, "s_insert", uchan[u], uent[u])
  /\ UNCHANGED <<aslist, readq, hup, thread, signalled, stale, held, arrived, gone, lost, refused>>

\* Under the list lock: wake the thread if it sleeps, or create it.
StartInsert(u) ==
  /\ upc[u] = "s_insert"
  /\ signalled' = (signalled \/ (aslist = <<>> /\ tpc = "cond"))
  /\ aslist' = <<uent[u]>> \o aslist
  /\ tpc' = IF tpc = "none" THEN "top" ELSE tpc
  /\ Hold(u, uchan[u], held[u][uchan[u]] + 1)
  /\ Goto(u, "idle", None, None)
  /\ UNCHANGED <<ent, flag, readq, hup, mons, ents, tchan, tframe, stale, arrived, gone, lost, refused>>

\* pthread_create failed: the entry goes away, the flag on the channel stays.
StartNoThread(u) ==
  /\ u \in CreateFails /\ upc[u] = "s_insert" /\ tpc = "none"
  /\ ent' = [ent EXCEPT ![uent[u]] = None]
  /\ refused' = refused \cup {uchan[u]}
  /\ Goto(u, "idle", None, None)
  /\ UNCHANGED <<aslist, flag, readq, hup, thread, signalled, stale, held, arrived, gone, lost>>

-----------------------------------------------------------------------------
\* ast_autoservice_stop and ast_autoservice_ignore

\* The last stop takes the entry out of the list, but does not free it yet.  A channel that
\* is not in autoservice may be stopped: ast_hangup does it with every channel.
ast_autoservice_stop(u, c) ==
  /\ <<u, c>> \in Serves /\ upc[u] = "idle"
  /\ Hold(u, c, IF held[u][c] = 0 THEN 0 ELSE held[u][c] - 1)
  /\ IF ~InService(c)
     THEN UNCHANGED <<aslist, ent, stale, upc, uchan, uent>>
     ELSE LET i == First(c)
              e == aslist[i]
          IN  /\ ent' = [ent EXCEPT ![e].uses = @ - 1]
              /\ IF ent[e].uses > 1
                 THEN UNCHANGED <<aslist, stale, upc, uchan, uent>>
                 ELSE /\ aslist' = RemoveAt(aslist, i)
                      /\ stale' = stale \cup {u}
                      /\ Goto(u, "p_flag", c, e)
  /\ UNCHANGED <<flag, readq, hup, thread, signalled, arrived, gone, lost, refused>>

\* Variant of StopFlag: does not wait for the thread to rebuild its list.
StopFlag_NoWait(u) ==
  /\ upc[u] = "p_flag"
  /\ flag' = [flag EXCEPT ![uchan[u]] = @ /\ ent[uent[u]].orig]
  /\ Goto(u, "p_requeue", uchan[u], uent[u])
  /\ UNCHANGED <<aslist, ent, readq, hup, thread, signalled, stale, held, arrived, gone, lost, refused>>

\* Variant of StopFlag: the flag is cleared whatever it was.
StopFlag_Clears(u) ==
  /\ upc[u] = "p_flag" /\ u \notin stale
  /\ flag' = [flag EXCEPT ![uchan[u]] = FALSE]
  /\ Goto(u, "p_requeue", uchan[u], uent[u])
  /\ UNCHANGED <<aslist, ent, readq, hup, thread, signalled, stale, held, arrived, gone, lost, refused>>

\* The thread has rebuilt its list: restore the flag, without the channel lock.
StopFlag(u) ==
  /\ upc[u] = "p_flag" /\ u \notin stale
  /\ flag' = [flag EXCEPT ![uchan[u]] = @ /\ ent[uent[u]].orig]
  /\ Goto(u, "p_requeue", uchan[u], uent[u])
  /\ UNCHANGED <<aslist, ent, readq, hup, thread, signalled, stale, held, arrived, gone, lost, refused>>

Serials(q) == {q[i].n : i \in DOMAIN q}

\* Variant of Requeued: the frames go back newest first.
Requeued_Unreversed(kept, q) == kept \o q

\* Newest first, the deferred frames go to the head of the readq.
Requeued(kept, q) == Reverse(kept) \o q

\* A frame is dropped if its type is ignored, or if ast_queue_frame_head cannot copy it.
StopRequeue(u) ==
  /\ upc[u] = "p_requeue"
  /\ LET as     == ent[uent[u]]
         wanted == SelectSeq(as.frames, LAMBDA f : frametype(f) \notin as.ignore)
     IN  \E failed \in IF NoMemory THEN SUBSET Serials(wanted) ELSE {{}} :
         /\ readq' = [readq EXCEPT ![uchan[u]] =
                        Requeued(SelectSeq(wanted, LAMBDA f : f.n \notin failed), @)]
         /\ gone' = gone \cup (Serials(as.frames) \ Serials(wanted))
         /\ lost' = lost \cup failed
  /\ ent' = [ent EXCEPT ![uent[u]] = None]
  /\ Goto(u, "idle", None, None)
  /\ UNCHANGED <<aslist, flag, hup, thread, signalled, stale, held, arrived, refused>>

ast_autoservice_ignore(u, c, ftype) ==
  /\ <<u, c>> \in Serves /\ upc[u] = "idle" /\ InService(c)
  /\ ent' = [ent EXCEPT ![aslist[First(c)]].ignore = @ \cup {ftype}]
  /\ UNCHANGED <<aslist, flag, readq, hup, thread, signalled, stale, users, arrived, gone, lost, refused>>

-----------------------------------------------------------------------------
Run == RunTop \/ (signalled /\ RunWoken) \/ RunTimeout \/ RunDefer \/ \E c \in Chans : RunRead(c)

Finish(u) == StartFlag(u) \/ StartInsert(u) \/ StartNoThread(u) \/ StopFlag(u) \/ StopRequeue(u)

Next ==
  \/ Run \/ RunWoken
  \/ \E u \in Users : Finish(u) \/ \E c \in Chans :
        ast_autoservice_start(u, c) \/ ast_autoservice_stop(u, c)
        \/ \E ftype \in Ignored : ast_autoservice_ignore(u, c, ftype)
  \/ \E c \in Chans : UserReads(c) \/ HangupArrives(c) \/ \E k \in Kinds : FrameArrives(c, k)

Spec == Init /\ [][Next]_vars

\* Threads are scheduled; the autoservice thread need not wake up unsignalled.
LiveSpec == Spec /\ WF_vars(Run) /\ \A u \in Users : WF_vars(Finish(u))

-----------------------------------------------------------------------------
\* Properties

Entry == [chan : Chans, uses : Nat, orig : BOOLEAN, frames : Seq(Frame), ignore : SUBSET Kinds]

TypeOK ==
  /\ aslist \in Seq(Entries)
  /\ ent \in [Entries -> Entry \cup {None}]
  /\ flag \in [Chans -> BOOLEAN] /\ hup \in [Chans -> BOOLEAN]
  /\ readq \in [Chans -> Seq(Frame)]
  /\ tpc \in {"none", "top", "cond", "serve", "defer"}
  /\ mons \in Seq(Chans) /\ ents \in Seq(Entries)
  /\ tchan \in Chans \cup {None} /\ tframe \in Frame \cup {None}
  /\ signalled \in BOOLEAN /\ stale \subseteq Users
  /\ upc \in [Users -> {"idle", "s_flag", "s_insert", "p_flag", "p_requeue"}]
  /\ uchan \in [Users -> Chans \cup {None}] /\ uent \in [Users -> Entries \cup {None}]
  /\ held \in [Users -> [Chans -> Nat]]
  /\ arrived \in Seq(Kinds \cup {"HANGUP"}) /\ Len(arrived) <= MaxFrames
  /\ gone \subseteq 1..MaxFrames /\ lost \subseteq 1..MaxFrames /\ refused \subseteq Chans

\* ast_autoservice_stop: "after we return, the channel could get destroyed and we
\* don't want our poor autoservice thread to step on it": while the thread works
\* on its copy of the list, every entry in it is allocated and every channel in
\* it is still being autoserviced or being taken out of autoservice.
ThreadHoldsNothingFreed ==
  tpc \in {"serve", "defer"} =>
    \A i \in DOMAIN ents : ent[ents[i]] # None /\ ent[ents[i]].chan = mons[i] /\ ~Idle(mons[i])

\* Where the frames of a channel are if e keeps them, oldest first: in the entry,
\* in the autoservice thread's hand, and in the readq.
Backlog(e) ==
  LET c    == ent[e].chan
      hand == IF tchan = c THEN <<tframe>> ELSE <<>>
  IN  Reverse(ent[e].frames) \o hand \o readq[c]

Sorted(q) == \A i, j \in DOMAIN q : i < j => q[i].n < q[j].n

\* Autoservice gives the frames back in the order in which they arrived: "As we
\* put them at the head of the readq, we'll end up with them in the right order".
FramesInOrder ==
  /\ \A c \in Chans : Sorted(readq[c])
  /\ \A e \in Entries : ent[e] # None => Sorted(Backlog(e))

\* How often the nth frame is there: waiting to be read, deferred, in the thread's hand, or done with.
Copies(n) ==
  LET In(q)    == Cardinality({i \in DOMAIN q : q[i].n = n})
      entries  == {e \in Entries : ent[e] # None}
      finished == {S \in {gone, lost} : n \in S}
  IN  MapThenSumSet(LAMBDA c : In(readq[c]), Chans)
      + MapThenSumSet(LAMBDA e : In(ent[e].frames), entries)
      + (IF tframe # None /\ tframe.n = n THEN 1 ELSE 0)
      + Cardinality(finished)

\* What autoservice reads it keeps and gives back, once: no frame is doubled, and a control frame or
\* a hangup is missing only if its owner read it or chose to ignore its type, or there was no memory
\* to copy it, also when the channel is taken out of autoservice while the thread is reading it.  A
\* digit is not kept: ast_is_deferrable_frame refuses it, and autoservice_run frees it.
DeferredAreKept ==
  \A n \in DOMAIN arrived :
    /\ Copies(n) <= 1
    /\ arrived[n] # "dtmf" => Copies(n) = 1

\* A channel in autoservice has only the ends of digits reported, and the flag is
\* as it was before once autoservice is over, unless there was no thread to
\* provide it: ast_autoservice_start then leaves the flag set for good.
FlagFollowsService ==
  \A c \in Chans : /\ InService(c) => flag[c]
                   /\ Idle(c) => (flag[c] <=> c \in EndOnly \cup refused)

\* ast_autoservice_start and ast_autoservice_stop return: the thread always gets
\* round to rebuilding its list.
CallsReturn == \A u \in Users : upc[u] # "idle" ~> upc[u] = "idle"
=============================================================================
