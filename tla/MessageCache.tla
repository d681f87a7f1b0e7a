---------------------------- MODULE MessageCache ----------------------------
(***************************************************************************)
(* utils/message_cache.py: the recent messages kept in RAM, and the writer *)
(* task that saves them in batches through database/message_cache.py.      *)
(*                                                                         *)
(* A message is its number of arrival, its conversation, its stanza id and *)
(* whether its storage hints allow a row.  save_batch is one transaction   *)
(* (Transactions).  The age limit, the counters and the queries are left   *)
(* out, and so is clear_conversation, which the program never calls.       *)
(***************************************************************************)
EXTENDS Naturals, Sequences, SequencesExt

CONSTANTS
    Conversations,
    StanzaIds,
    None,           \* no stanza id
    Stop,           \* _STOP
    Limit,          \* message_cache_size: per conversation
    BacklogLimit,   \* maxlen of _retry_backlog
    SaveAttempts,   \* attempts of _persist_with_retry
    MaxArrivals,    \* bound: messages accepted
    MaxFailures,    \* bound: transactions that fail
    MaxStarts       \* bound: starts of the process

(* What the code makes sure of.                                             *)
MessageCacheAssumption ==
    /\ {Limit, BacklogLimit, SaveAttempts} \subseteq Nat \ {0}
    /\ {MaxArrivals, MaxFailures, MaxStarts} \subseteq Nat
    /\ None \notin StanzaIds

VARIABLES
    up,         \* _started
    persist,    \* message_cache_persist, as read by the process that runs
    memory,     \* _messages
    queue,      \* _queue
    writer,     \* "off", "idle", "gathering", "saving", "done", "cancelled"
    batch,      \* what the writer has taken from the queue
    stopAfter,  \* stop_after_batch
    attempt,    \* the attempt of _persist_with_retry that comes next
    backlog,    \* _retry_backlog
    table,      \* message_cache
    closer,     \* close(): "none", "joining", "retrying", "clean",
                \* "unsaved", "timed out"
    history,    \* messages accepted for the table since its last load
    dropped,    \* those a full backlog has lost
    arrivals, failures, starts  \* how much of each bound is used

writerVars == <<writer, batch, stopAfter, attempt>>
ghosts == <<history, dropped>>
vars == <<up, persist, memory, queue, writerVars, backlog, table, closer,
          ghosts, arrivals, failures, starts>>

Message == [n : 1 .. MaxArrivals, conv : Conversations,
            id : StanzaIds \cup {None}, durable : BOOLEAN]
Empty == [c \in Conversations |-> <<>>]

TypeOK ==
    /\ up \in BOOLEAN /\ persist \in BOOLEAN /\ stopAfter \in BOOLEAN
    /\ \A c \in Conversations :
        /\ memory[c] \in Seq(Message) /\ Len(memory[c]) <= Limit
        /\ table[c] \in Seq(Message) /\ Len(table[c]) <= Limit
        /\ history[c] \in Seq(Message)
    /\ queue \in Seq(Message \cup {Stop})
    /\ batch \in Seq(Message)
    /\ backlog \in Seq(Message) /\ Len(backlog) <= BacklogLimit
    /\ writer \in {"off", "idle", "gathering", "saving", "done", "cancelled"}
    /\ closer \in {"none", "joining", "retrying", "clean", "unsaved",
                   "timed out"}
    /\ attempt \in 1 .. SaveAttempts
    /\ dropped \subseteq Message

Init ==
    /\ up = FALSE
    /\ persist = TRUE
    /\ memory = Empty
    /\ queue = <<>>
    /\ writer = "off"
    /\ batch = <<>>
    /\ stopAfter = FALSE
    /\ attempt = 1
    /\ backlog = <<>>
    /\ table = Empty
    /\ closer = "none"
    /\ history = Empty
    /\ dropped = {}
    /\ arrivals = 0
    /\ failures = 0
    /\ starts = 0

(* The last n elements of s.                                                *)
Newest(s, n) == IF Len(s) <= n THEN s ELSE SubSeq(s, Len(s) - n + 1, Len(s))

-----------------------------------------------------------------------------
(* start(): the table is cut to the limits and loaded, or cleared when the  *)
(* configuration now keeps messages in RAM only.                            *)
Start(p) ==
    /\ ~up
    /\ starts < MaxStarts
    /\ starts' = starts + 1
    /\ up' = TRUE
    /\ persist' = p
    /\ table' = IF p THEN [c \in Conversations |-> Newest(table[c], Limit)]
                ELSE Empty
    /\ memory' = table'
    /\ history' = table'
    /\ dropped' = {}
    /\ queue' = <<>>
    /\ batch' = <<>>
    /\ stopAfter' = FALSE
    /\ attempt' = 1
    /\ backlog' = <<>>
    /\ writer' = IF p THEN "idle" ELSE "off"
    /\ closer' = "none"
    /\ UNCHANGED <<arrivals, failures>>

(* add_message, add_entry and _append_to_memory: a message whose stanza id  *)
(* is still in the conversation's RAM is refused, and so is every message   *)
(* once close() has begun.                                                  *)
Arrive(c, id, durable) ==
    LET m == [n |-> arrivals + 1, conv |-> c, id |-> id,
              durable |-> persist /\ durable]
    IN  /\ up /\ closer = "none"
        /\ arrivals < MaxArrivals
        /\ id = None \/ \A i \in DOMAIN memory[c] : memory[c][i].id # id
        /\ arrivals' = arrivals + 1
        /\ memory' = [memory EXCEPT ![c] = Newest(Append(@, m), Limit)]
        /\ queue' = IF m.durable THEN Append(queue, m) ELSE queue
        /\ history' = IF m.durable
                      THEN [history EXCEPT ![c] = Append(@, m)] ELSE history
        /\ UNCHANGED <<up, persist, writerVars, backlog, table, closer,
                       dropped, failures, starts>>

-----------------------------------------------------------------------------
(* _writer_loop.                                                            *)

Take ==
    /\ up /\ writer = "idle" /\ queue # <<>>
    /\ queue' = Tail(queue)
    /\ IF Head(queue) = Stop
       THEN writer' = "done" /\ UNCHANGED batch
       ELSE writer' = "gathering" /\ batch' = <<Head(queue)>>
    /\ UNCHANGED <<up, persist, memory, stopAfter, attempt, backlog, table,
                   closer, ghosts, arrivals, failures, starts>>

Gather_ForgetsStop ==
    /\ up /\ writer = "gathering"
    /\ batch' = batch \o SelectSeq(queue, LAMBDA e : e # Stop)
    /\ queue' = <<>>
    /\ writer' = "saving"
    /\ UNCHANGED <<up, persist, memory, stopAfter, attempt, backlog, table,
                   closer, ghosts, arrivals, failures, starts>>

(* After the pause, everything up to the stop marker joins the batch.       *)
Gather ==
    /\ up /\ writer = "gathering"
    /\ batch' = batch \o SelectSeq(queue, LAMBDA e : e # Stop)
    /\ stopAfter' = (\E i \in DOMAIN queue : queue[i] = Stop)
    /\ queue' = <<>>
    /\ writer' = "saving"
    /\ UNCHANGED <<up, persist, memory, attempt, backlog, table, closer,
                   ghosts, arrivals, failures, starts>>

Combined_BatchFirst == batch \o backlog

(* _persist_with_retry saves the backlog before the batch.                  *)
Combined == backlog \o batch

Clash(a, b) == a.n = b.n \/ (a.id # None /\ a.id = b.id)

InsertOrIgnore(rows, e) ==
    IF \E i \in DOMAIN rows : Clash(rows[i], e) THEN rows ELSE Append(rows, e)

(* save_batch: one row per cache key and stanza id, then only the newest    *)
(* rows of each conversation stay.                                          *)
SaveBatch(rows, entries) ==
    [c \in Conversations |->
        Newest(FoldLeft(InsertOrIgnore, rows[c],
                        SelectSeq(entries, LAMBDA e : e.conv = c)), Limit)]

(* The writer is done with its batch, as _writer_loop goes on.              *)
BatchDone ==
    /\ batch' = <<>>
    /\ attempt' = 1
    /\ stopAfter' = FALSE
    /\ writer' = IF stopAfter THEN "done" ELSE "idle"

Save ==
    /\ up /\ writer = "saving"
    /\ table' = SaveBatch(table, Combined)
    /\ backlog' = <<>>
    /\ BatchDone
    /\ UNCHANGED <<up, persist, memory, queue, closer, ghosts, arrivals,
                   failures, starts>>

SaveFails ==
    /\ up /\ writer = "saving"
    /\ failures < MaxFailures
    /\ failures' = failures + 1
    /\ attempt < SaveAttempts
    /\ attempt' = attempt + 1
    /\ UNCHANGED <<up, persist, memory, queue, writer, batch, stopAfter,
                   backlog, table, closer, ghosts, arrivals, starts>>

KeptForRetry == Newest(Combined, BacklogLimit)

(* After the last attempt the newest entries stay in the backlog.           *)
SaveGivesUp ==
    /\ up /\ writer = "saving"
    /\ failures < MaxFailures
    /\ failures' = failures + 1
    /\ attempt = SaveAttempts
    /\ backlog' = KeptForRetry
    /\ dropped' = dropped \cup
        {Combined[i] : i \in {j \in DOMAIN Combined :
                                  j + BacklogLimit <= Len(Combined)}}
    /\ BatchDone
    /\ UNCHANGED <<up, persist, memory, queue, table, closer, history,
                   arrivals, starts>>

-----------------------------------------------------------------------------
(* close(), which the shutdown calls with a time limit.                     *)

Close ==
    /\ up /\ closer = "none"
    /\ IF persist
       THEN closer' = "joining" /\ queue' = Append(queue, Stop)
       ELSE closer' = "clean" /\ UNCHANGED queue
    /\ UNCHANGED <<up, persist, memory, writerVars, backlog, table, ghosts,
                   arrivals, failures, starts>>

Verdict_Joined == "clean"

Verdict == IF backlog = <<>> THEN "clean" ELSE "retrying"

WriterJoined ==
    /\ up /\ closer = "joining"
    /\ writer = "done"
    /\ closer' = Verdict
    /\ UNCHANGED <<up, persist, memory, queue, writerVars, backlog, table,
                   ghosts, arrivals, failures, starts>>

LastSave ==
    /\ up /\ closer = "retrying"
    /\ table' = SaveBatch(table, backlog)
    /\ backlog' = <<>>
    /\ closer' = "clean"
    /\ UNCHANGED <<up, persist, memory, queue, writerVars, ghosts, arrivals,
                   failures, starts>>

(* The last save fails as often as it may; the backlog stays as it is.      *)
LastSaveFails ==
    /\ up /\ closer = "retrying"
    /\ failures < MaxFailures
    /\ failures' = failures + 1
    /\ IF attempt < SaveAttempts
       THEN attempt' = attempt + 1 /\ UNCHANGED closer
       ELSE closer' = "unsaved" /\ UNCHANGED attempt
    /\ UNCHANGED <<up, persist, memory, queue, writer, batch, stopAfter,
                   backlog, table, ghosts, arrivals, starts>>

(* wait_for gives up on close(): the cancellation reaches the writer it     *)
(* waits for, whose transaction may have been committed or not.             *)
CloseTimesOut ==
    /\ up /\ closer \in {"joining", "retrying"}
    /\ closer' = "timed out"
    /\ writer' = IF writer = "done" THEN "done" ELSE "cancelled"
    /\ \/ UNCHANGED table
       \/ closer = "retrying" /\ table' = SaveBatch(table, backlog)
       \/ writer = "saving" /\ table' = SaveBatch(table, Combined)
    /\ UNCHANGED <<up, persist, memory, queue, batch, stopAfter, attempt,
                   backlog, ghosts, arrivals, failures, starts>>

(* The process ends, after its shutdown or at any other moment.             *)
Ends ==
    /\ up
    /\ up' = FALSE
    /\ writer' = "off"
    /\ memory' = Empty
    /\ queue' = <<>>
    /\ batch' = <<>>
    /\ backlog' = <<>>
    /\ UNCHANGED <<persist, stopAfter, attempt, table, closer, ghosts,
                   arrivals, failures, starts>>

WriterStep == Take \/ Gather \/ Save \/ SaveFails \/ SaveGivesUp
CloserStep == WriterJoined \/ LastSave \/ LastSaveFails

Next ==
    \/ \E p \in BOOLEAN : Start(p)
    \/ \E c \in Conversations, id \in StanzaIds \cup {None},
          durable \in BOOLEAN : Arrive(c, id, durable)
    \/ WriterStep
    \/ Close
    \/ CloserStep
    \/ CloseTimesOut
    \/ Ends

Spec == Init /\ [][Next]_vars

(* The event loop runs the writer and the task that closes the cache.       *)
FairSpec == Spec /\ WF_vars(WriterStep) /\ WF_vars(CloserStep)

-----------------------------------------------------------------------------
ElementsOf(s) == {s[i] : i \in DOMAIN s}
InTransit == backlog \o batch \o queue

Ascending(s) == \A i, j \in DOMAIN s : i < j => s[i].n < s[j].n

(* No accepted message is lost between the queue and the table: as long as  *)
(* the process lives and its close() has not timed out, each of the newest  *)
(* Limit messages of a conversation is a row or on its way, in the order of *)
(* arrival, unless a full backlog dropped it or an older message had the    *)
(* same stanza id.  Failed and repeated saves, the batches and the backlog  *)
(* must all keep to that.                                                   *)
InTransitIsKept ==
    up /\ persist /\ closer # "timed out" =>
        \A c \in Conversations :
            LET ahead == table[c] \o
                    SelectSeq(InTransit, LAMBDA e : e # Stop /\ e.conv = c)
            IN  /\ Ascending(ahead)
                /\ \A m \in ElementsOf(Newest(history[c], Limit)) :
                    \/ m \in ElementsOf(ahead)
                    \/ m \in dropped
                    \/ \E k \in ElementsOf(history[c]) :
                        k.n < m.n /\ k.id = m.id /\ m.id # None

(* close() says True only when the table holds what it promised to flush:   *)
(* the newest messages of each conversation, up to those a full backlog had *)
(* already dropped and those the table refuses as duplicates.               *)
CloseIsHonest ==
    closer = "clean" /\ persist =>
        \A c \in Conversations :
            \A m \in ElementsOf(Newest(history[c], Limit)) :
                \/ m \in ElementsOf(table[c])
                \/ m \in dropped
                \/ \E k \in ElementsOf(history[c]) :
                    k.n < m.n /\ k.id = m.id /\ m.id # None

(* The writer always comes back to an empty queue, and a close() always     *)
(* ends, whatever the saves do: the stop marker is never swallowed.         *)
HasWork == up /\ queue \o batch # <<>>
WorkDone == queue \o batch = <<>> \/ ~up \/ writer = "cancelled"
Closing == closer \in {"joining", "retrying"}
Closed == closer \in {"clean", "unsaved", "timed out", "none"} \/ ~up

WriterServes == (HasWork ~> WorkDone) /\ (Closing ~> Closed)
=============================================================================
