----------------------------- MODULE ReadQueue ------------------------------
(***************************************************************************)
(* The read queue of a channel in main/channel.c: __ast_queue_frame and    *)
(* its callers, __ast_read, soft hangups, and what ast_do_masquerade does   *)
(* with the queues of two channels.  What runs with a channel locked is    *)
(* one action.                                                             *)
(*                                                                         *)
(* The servicing thread sleeps in ast_waitfor until the alert pipe has a   *)
(* byte to read or the driver has something; the pipe is a count of bytes. *)
(* Control frames and digits carry a serial number so that a lost or a     *)
(* repeated one shows; media frames are all alike.                         *)
(***************************************************************************)
EXTENDS Integers, Sequences, FiniteSets, SequencesExt

CONSTANTS Chans,
          LongQueue,   \* frames that make a queue exceptionally long (128)
          LongVoice,   \* voice frames that do (96)
          Drop,        \* how many media frames are then dropped (64)
          MaxFrames,   \* bound: frames other than hangups and marks put in by the environment
          AllocFails,  \* whether copying a frame can fail
          MaxSoft      \* bound: soft hangups and hangups requested

ASSUME ReadQueueConstants ==
  /\ LongQueue \in Nat /\ LongVoice \in Nat /\ Drop \in Nat \ {0}
  /\ Drop < LongVoice /\ LongVoice < LongQueue
  /\ AllocFails \in BOOLEAN
  /\ MaxFrames \in Nat /\ MaxSoft \in Nat

VARIABLES
  readq,     \* chan->readq
  pipe,      \* ints waiting in chan->alertpipe
  soft,      \* chan->_softhangup, as a set of flags
  hanging,   \* threads in ast_queue_hangup that have yet to queue the frame
  deferred,  \* AST_FLAG_DEFER_DTMF
  zombie,    \* AST_FLAG_ZOMBIE
  serviced,  \* there is a thread that reads the channel
  serial,    \* frames the environment has produced so far
  requests,  \* soft hangups and hangups requested so far
  accepted,  \* history: serial numbers of the frames that were queued
  taken,     \* history: serial numbers of the frames a reader was given
  returned   \* history: what the last ast_read of the channel returned

vars == <<readq, pipe, soft, hanging, deferred, zombie, serviced, serial, requests, accepted, taken, returned>>
history == <<accepted, taken, returned>>

Media == {"voice", "null"}
Marks == {"HANGUP", "END_OF_Q"}
Kinds == Media \cup Marks \cup {"dtmf", "control"}
Frame(k, n) == [kind |-> k, n |-> IF k \in {"dtmf", "control"} THEN n ELSE 0]
Numbers(q) == {q[i].n : i \in DOMAIN q} \ {0}

Init ==
  /\ readq = [c \in Chans |-> <<>>]
  /\ pipe = [c \in Chans |-> 0]
  /\ soft = [c \in Chans |-> {}]
  /\ hanging = [c \in Chans |-> 0]
  /\ deferred = [c \in Chans |-> FALSE]
  /\ zombie = [c \in Chans |-> FALSE]
  /\ serviced = [c \in Chans |-> TRUE]
  /\ serial = 0 /\ requests = 0
  /\ accepted = {} /\ taken = {}
  /\ returned = [c \in Chans |-> "nothing"]

-----------------------------------------------------------------------------
\* __ast_queue_frame

Count(q, kinds) == Cardinality({i \in DOMAIN q : q[i].kind \in kinds})

\* The frames at the positions S, in order.
Pick(q, S) ==
  [k \in 1..Cardinality(S) |-> q[CHOOSE i \in S : Cardinality({j \in S : j < i}) = k - 1]]

\* The first Drop media frames go, but never the last frame of the queue.
Shorten(q) ==
  LET media == {i \in 1..Len(q) - 1 : q[i].kind \in Media}
      gone  == {i \in media : Cardinality({j \in media : j <= i}) <= Drop}
  IN  Pick(q, DOMAIN q \ gone)

TooLong(q, fin) ==
  \/ Len(q) + Len(fin) > LongQueue
  \/ Count(q, {"voice"}) + Count(fin, {"voice"}) > LongVoice

\* Variant of Refused: frames are queued behind a hangup.
Refused_MarkOnly(q, fin, head) ==
  /\ q # <<>> /\ ~head
  /\ Last(q).kind = "END_OF_Q"
  /\ fin[1].kind # "HANGUP"

\* After an end-of-Q mark only a hangup is queued, in its place; after a hangup nothing is.
Refused(q, fin, head) ==
  /\ q # <<>> /\ ~head
  /\ \/ Last(q).kind = "HANGUP"
     \/ Last(q).kind = "END_OF_Q" /\ fin[1].kind # "HANGUP"

Marked(q, fin, head) ==
  q # <<>> /\ ~head /\ Last(q).kind = "END_OF_Q" /\ fin[1].kind = "HANGUP"

\* What may become of the queue and the pipe when the frames fin are put at an end of queue q.  If
\* one of them cannot be copied none is queued, but an end-of-Q mark is gone all the same.
__ast_queue_frame(q, p, fin, head) ==
  LET room == IF Marked(q, fin, head) THEN Front(q) ELSE q
      kept == IF TooLong(room, fin) THEN Shorten(room) ELSE room
  IN  IF Refused(q, fin, head)
      THEN {[q |-> q, pipe |-> p, took |-> {}]}
      ELSE {[q |-> IF head THEN fin \o kept ELSE kept \o fin,
             pipe |-> p + Len(fin),
             took |-> Numbers(fin)]}
           \cup (IF AllocFails THEN {[q |-> room, pipe |-> p, took |-> {}]} ELSE {})

Store(c, results) ==
  \E r \in results : /\ readq' = [readq EXCEPT ![c] = r.q]
                     /\ pipe' = [pipe EXCEPT ![c] = r.pipe]
                     /\ accepted' = accepted \cup r.took

\* A driver or another thread queues a frame.
ast_queue_frame(c, k, head) ==
  /\ serial < MaxFrames
  /\ serial' = serial + 1
  /\ Store(c, __ast_queue_frame(readq[c], pipe[c], <<Frame(k, serial + 1)>>, head))
  /\ UNCHANGED <<soft, hanging, deferred, zombie, serviced, requests, taken, returned>>

\* _softhangup is set only if the channel lock is free at that moment, and is then unlocked.
ast_queue_hangup(c) ==
  /\ requests < MaxSoft
  /\ requests' = requests + 1
  /\ soft' \in {soft, [soft EXCEPT ![c] = @ \cup {"DEV"}]}
  /\ hanging' = [hanging EXCEPT ![c] = @ + 1]
  /\ UNCHANGED <<readq, pipe, deferred, zombie, serviced, serial, history>>

\* The end of ast_queue_hangup: the frame is queued.
QueueHangup(c) ==
  /\ hanging[c] > 0
  /\ hanging' = [hanging EXCEPT ![c] = @ - 1]
  /\ Store(c, __ast_queue_frame(readq[c], pipe[c], <<Frame("HANGUP", 0)>>, FALSE))
  /\ UNCHANGED <<soft, deferred, zombie, serviced, serial, requests, taken, returned>>

-----------------------------------------------------------------------------
\* Soft hangups and deferred digits

\* Variant of ast_softhangup: no frame is queued to wake the reader.
ast_softhangup_Silent(c, cause) ==
  /\ requests < MaxSoft
  /\ requests' = requests + 1
  /\ soft' = [soft EXCEPT ![c] = @ \cup {cause}]
  /\ UNCHANGED <<readq, pipe, accepted, hanging, deferred, zombie, serviced, serial, taken, returned>>

ast_softhangup(c, cause) ==
  /\ requests < MaxSoft
  /\ requests' = requests + 1
  /\ soft' = [soft EXCEPT ![c] = @ \cup {cause}]
  /\ Store(c, __ast_queue_frame(readq[c], pipe[c], <<Frame("null", 0)>>, FALSE))
  /\ UNCHANGED <<hanging, deferred, zombie, serviced, serial, taken, returned>>

\* Variant of ast_channel_clear_softhangup: the mark stays.
ast_channel_clear_softhangup_KeepsMark(c, flag) ==
  /\ flag \in soft[c]
  /\ soft' = [soft EXCEPT ![c] = @ \ {flag}]
  /\ readq' = readq
  /\ UNCHANGED <<pipe, hanging, deferred, zombie, serviced, serial, requests, history>>

\* The hangup is called off: an end-of-Q mark at the end of the queue goes.
ast_channel_clear_softhangup(c, flag) ==
  /\ flag \in soft[c]
  /\ soft' = [soft EXCEPT ![c] = @ \ {flag}]
  /\ readq' = [readq EXCEPT ![c] =
                 IF soft'[c] = {} /\ @ # <<>> /\ Last(@).kind = "END_OF_Q" THEN Front(@) ELSE @]
  /\ UNCHANGED <<pipe, hanging, deferred, zombie, serviced, serial, requests, history>>

DeferDtmf(c) ==
  /\ deferred' = [deferred EXCEPT ![c] = ~@]
  /\ UNCHANGED <<readq, pipe, soft, hanging, zombie, serviced, serial, requests, history>>

-----------------------------------------------------------------------------
\* __ast_read

\* One int is read from the alert pipe, if there is one.
ReadPipe(p) == IF p > 0 THEN p - 1 ELSE 0

Untouched(c) == {[q |-> readq[c], pipe |-> pipe[c], took |-> {}]}

\* Variant of Prepared: the mark goes before the frames that are queued.
Prepared_AtHead(c) ==
  IF soft[c] # {} THEN __ast_queue_frame(readq[c], pipe[c], <<Frame("END_OF_Q", 0)>>, TRUE)
                  ELSE Untouched(c)

\* With a soft hangup pending, an end-of-Q mark is queued before anything is read.
Prepared(c) ==
  IF soft[c] # {} THEN __ast_queue_frame(readq[c], pipe[c], <<Frame("END_OF_Q", 0)>>, FALSE)
                  ELSE Untouched(c)

Readable(c, q) == {i \in DOMAIN q : ~(q[i].kind = "dtmf" /\ deferred[c])}

\* The readq is not empty: its first frame, digits left alone while they are
\* deferred.  A voice frame may have become several in the translator; the
\* others stay just after what was the end of the queue.
ReadQueued(c, extra) ==
  \E r \in Prepared(c) :
  LET p == ReadPipe(r.pipe)
  IN  /\ ~(zombie[c] /\ soft[c] = {})
      /\ r.q # <<>>
      /\ serial + Len(extra) <= MaxFrames
      /\ serial' = serial + Len(extra)
      /\ IF Readable(c, r.q) = {}
         THEN /\ Store(c, {[r EXCEPT !.pipe = p + 1]})
              /\ returned' = [returned EXCEPT ![c] = "frame"]
              /\ UNCHANGED <<soft, taken>>
         ELSE LET i    == CHOOSE i \in Readable(c, r.q) : \A j \in Readable(c, r.q) : i <= j
                  f    == r.q[i]
                  rest == Pick(r.q, DOMAIN r.q \ {i})
                  more == IF f.kind = "voice" THEN extra ELSE <<>>
              IN  /\ Store(c, IF more = <<>> THEN {[q |-> rest, pipe |-> p, took |-> {}]}
                              ELSE __ast_queue_frame(rest, p, more, rest = <<>>))
                  /\ returned' = [returned EXCEPT ![c] = IF f.kind \in Marks THEN "NULL" ELSE "frame"]
                  /\ soft' = [soft EXCEPT ![c] = IF f.kind = "HANGUP" \/ (f.kind = "END_OF_Q" /\ @ = {})
                                                 THEN @ \cup {"DEV"} ELSE @]
                  /\ taken' = taken \cup Numbers(<<f>>)
      /\ UNCHANGED <<hanging, deferred, zombie, serviced, requests>>

\* The readq is empty, and stays so if there was no memory for the mark: the driver is asked.  It
\* answers with nothing at all, as that of a zombie does, which hangs the channel up, or with a frame
\* and the frames that follow it; these are queued, and what the translator adds goes before them.
ReadDriver(c, frames, extra) ==
  LET p        == ReadPipe(pipe[c])
      numbered == [i \in DOMAIN frames |-> Frame(frames[i], serial + i)]
      later    == IF Len(frames) < 2 THEN {[q |-> <<>>, pipe |-> p, took |-> {}]}
                  ELSE __ast_queue_frame(<<>>, p, Tail(numbered), FALSE)
      again    == IF frames = <<>> THEN <<>>
                  ELSE IF frames[1] = "dtmf" /\ deferred[c] THEN <<numbered[1]>>
                  ELSE IF frames[1] = "voice" THEN extra ELSE <<>>
      Then(l)  == IF again = <<>> THEN {l}
                  ELSE {[r EXCEPT !.took = @ \cup l.took] :
                          r \in __ast_queue_frame(l.q, l.pipe, again, frames[1] = "voice")}
  IN  /\ Untouched(c) \cap Prepared(c) # {} /\ readq[c] = <<>>
      /\ zombie[c] => soft[c] # {} /\ frames = <<>>
      /\ serial + Len(frames) + Len(extra) <= MaxFrames
      /\ serial' = serial + Len(frames) + Len(extra)
      /\ Store(c, UNION {Then(l) : l \in later})
      /\ soft' = [soft EXCEPT ![c] = IF frames = <<>> /\ @ = {} THEN {"DEV"} ELSE @]
      /\ returned' = [returned EXCEPT ![c] = IF frames = <<>> THEN "NULL" ELSE "frame"]
      /\ UNCHANGED <<hanging, deferred, zombie, serviced, requests, taken>>

\* A zombie without a soft hangup is not read at all: ast_read returns NULL.
ReadZombie(c) ==
  /\ zombie[c] /\ soft[c] = {}
  /\ returned' = [returned EXCEPT ![c] = "NULL"]
  /\ UNCHANGED <<readq, pipe, soft, hanging, deferred, zombie, serviced, serial, requests, accepted, taken>>

-----------------------------------------------------------------------------
\* What the clone is left with: a null frame tells it that it is a zombie, unless it was already.
Told(p, clone_was_zombie) ==
  IF clone_was_zombie THEN {[q |-> <<>>, pipe |-> p]}
                      ELSE __ast_queue_frame(<<>>, p, <<Frame("null", 0)>>, FALSE)

\* Variant of Masquerade: the pipe is not poked for the frames that move behind.
Masquerade_NoPoke(o, c, clone_was_zombie) ==
  /\ o # c /\ ~zombie[o] /\ ~zombie[c]
  /\ \E told \in Told(pipe[o], clone_was_zombie) :
         /\ readq' = [readq EXCEPT ![o] = readq[c] \o readq[o], ![c] = told.q]
         /\ pipe' = [pipe EXCEPT ![o] = pipe[c], ![c] = told.pipe]
  /\ soft' = [soft EXCEPT ![c] = {"DEV"}]
  /\ zombie' = [zombie EXCEPT ![c] = TRUE]
  /\ serviced' = [serviced EXCEPT ![c] = ~clone_was_zombie]
  /\ UNCHANGED <<hanging, deferred, serial, requests, history>>

\* Variant of Masquerade: the frames the original had are lost.
Masquerade_Overwrites(o, c, clone_was_zombie) ==
  /\ o # c /\ ~zombie[o] /\ ~zombie[c]
  /\ \E told \in Told(pipe[o], clone_was_zombie) :
         /\ readq' = [readq EXCEPT ![o] = readq[c], ![c] = told.q]
         /\ pipe' = [pipe EXCEPT ![o] = pipe[c] + Len(readq[o]), ![c] = told.pipe]
  /\ soft' = [soft EXCEPT ![c] = {"DEV"}]
  /\ zombie' = [zombie EXCEPT ![c] = TRUE]
  /\ serviced' = [serviced EXCEPT ![c] = ~clone_was_zombie]
  /\ UNCHANGED <<hanging, deferred, serial, requests, history>>

\* ast_do_masquerade, as far as the queues go: the clone's frames come first, the
\* original's follow them, and the clone's pipe gets a byte for each of those.
Masquerade(o, c, clone_was_zombie) ==
  /\ o # c /\ ~zombie[o] /\ ~zombie[c]
  /\ \E told \in Told(pipe[o], clone_was_zombie) :
         /\ readq' = [readq EXCEPT ![o] = readq[c] \o readq[o], ![c] = told.q]
         /\ pipe' = [pipe EXCEPT ![o] = pipe[c] + Len(readq[o]), ![c] = told.pipe]
  /\ soft' = [soft EXCEPT ![c] = {"DEV"}]
  /\ zombie' = [zombie EXCEPT ![c] = TRUE]
  /\ serviced' = [serviced EXCEPT ![c] = ~clone_was_zombie]
  /\ UNCHANGED <<hanging, deferred, serial, requests, history>>

-----------------------------------------------------------------------------
\* What a translator adds to a voice frame, and what a driver's read returns.
Translations == {<<>>, <<Frame("voice", 0)>>}
Answers == {<<>>, <<"null">>, <<"dtmf">>, <<"voice">>, <<"voice", "control">>}

Read(c) ==
  /\ serviced[c]
  /\ \/ \E extra \in Translations : ReadQueued(c, extra)
     \/ \E frames \in Answers, extra \in Translations : ReadDriver(c, frames, extra)
     \/ ReadZombie(c)

\* ast_waitfor returned because the alert pipe is readable.
WokenRead(c) == pipe[c] > 0 /\ Read(c)

Environment(c) ==
  \/ \E k \in {"voice", "dtmf", "control"}, head \in BOOLEAN : ast_queue_frame(c, k, head)
  \/ ast_queue_hangup(c) \/ QueueHangup(c)
  \/ \E cause \in {"DEV", "ASYNCGOTO"} : ast_softhangup(c, cause)
  \/ ast_channel_clear_softhangup(c, "ASYNCGOTO")
  \/ DeferDtmf(c)

Next ==
  \/ \E c \in Chans : Read(c) \/ Environment(c)
  \/ \E o, c \in Chans, z \in BOOLEAN : Masquerade(o, c, z)

Spec == Init /\ [][Next]_vars

\* The servicing thread reads whenever the alert pipe wakes it, and ast_queue_hangup goes on.
LiveSpec == Spec /\ \A c \in Chans : WF_vars(WokenRead(c)) /\ WF_vars(QueueHangup(c))

-----------------------------------------------------------------------------
\* Properties

TypeOK ==
  /\ readq \in [Chans -> Seq([kind : Kinds, n : 0..MaxFrames])]
  /\ pipe \in [Chans -> Nat]
  /\ soft \in [Chans -> SUBSET {"DEV", "ASYNCGOTO"}]
  /\ hanging \in [Chans -> 0..MaxSoft]
  /\ deferred \in [Chans -> BOOLEAN]
  /\ zombie \in [Chans -> BOOLEAN]
  /\ serviced \in [Chans -> BOOLEAN]
  /\ serial \in 0..MaxFrames /\ requests \in 0..MaxSoft
  /\ accepted \subseteq 1..MaxFrames
  /\ taken \subseteq 1..MaxFrames
  /\ returned \in [Chans -> {"nothing", "frame", "NULL"}]

\* The alert pipe has a byte for every queued frame, so the reader never sleeps
\* on a queue that is not empty, whatever was dropped, replaced or masqueraded.
NoLostWakeup == \A c \in Chans : pipe[c] >= Len(readq[c])

\* Every control frame and digit that was queued is in exactly one queue, once,
\* or was read, once: dropping media and masquerading neither lose nor repeat one.
KeptOrRead ==
  LET places(n) == {<<c, i>> \in Chans \X (1..MaxFrames + MaxSoft + 1) :
                      i \in DOMAIN readq[c] /\ readq[c][i].n = n}
  IN  \A n \in accepted : Cardinality(places(n)) = IF n \in taken THEN 0 ELSE 1

\* As long as frames are only appended, hangups and end-of-Q marks are last.
MarksAreLast ==
  \A c \in Chans : \A i \in DOMAIN readq[c] : readq[c][i].kind \in Marks => i = Len(readq[c])

\* ast_read returns NULL only once no control frame is left to be read, also
\* when a soft hangup came while some were queued.
NullMeansDrained ==
  [][\A c \in Chans : returned'[c] = "NULL" /\ returned'[c] # returned[c]
       => Count(readq'[c], {"control"}) = 0]_vars

\* ast_channel_clear_softhangup's comment: when the last soft hangup is cleared
\* no end-of-Q mark stays in the queue to hang the channel up after all.
HangupCalledOff ==
  [][\A c \in Chans : soft[c] # {} /\ soft'[c] = {}
       => Count(readq'[c], {"END_OF_Q"}) = 0]_vars

\* A soft hangup makes ast_read return NULL unless it is called off: the null
\* frame it queues wakes the reader, and then the end-of-Q mark does.
SoftHangupSeen ==
  \A c \in Chans : soft[c] # {} /\ serviced[c]
     ~> (returned[c] = "NULL" \/ soft[c] = {} \/ ~serviced[c])
=============================================================================
