------------------------------- MODULE Feeds -------------------------------
(***************************************************************************)
(* plugins/rss: one feed, its subscribers (rooms and users) and the worker *)
(* that polls it.  Entries are numbered in the order they are published.   *)
(* The record of the feed lives in the cached runtime store: reading and   *)
(* changing it does not suspend, and it reaches the disk later.  Rendering *)
(* and templates are left out; a subscriber of a room counts as a          *)
(* destination like a user, except that the room must be joined.           *)
(***************************************************************************)
EXTENDS Integers, FiniteSetsExt, Sequences

CONSTANTS
    Rooms, Users,
    None,
    Window,         \* entries the feed's document still lists
    MaxPerPoll,     \* RSS_MAX_ENTRIES_PER_POLL
    Burst,          \* max_new_feed_entries, the history a new room is shown
    MaxEntries,     \* bound: entries published
    MaxCommands,    \* bound: commands
    MaxFaults       \* bound: failed fetches, refused sends, lost rooms, crashes

Dests == Rooms \cup Users
Entries == 1 .. MaxEntries

VARIABLES
    published,      \* entries the site has published
    feed,           \* the record of the feed, or None
    disk,           \* the record as last flushed
    joined,         \* rooms the bot is in
    worker,         \* rss_check_loop
    adding,         \* commands that found no record and fetch the feed
    bursting,       \* per room: the cursor up to which it will see history
    copies,         \* how often each destination was sent each entry
    since,          \* entries published when a destination became active
    skipped,        \* entries a poll left out
    cut,            \* sends interrupted before their acknowledgement
    crashed, overlapped,    \* a crash; an add that overtook another command
    wanted,         \* destinations told that they are subscribed
    commands, faults

site == <<published, joined>>
ghosts == <<copies, since, skipped, cut, crashed, overlapped, wanted>>
vars == <<site, feed, disk, worker, adding, bursting, ghosts, commands, faults>>

Off == [at |-> "off", last |-> 0, queue |-> <<>>, todo |-> {}, failed |-> FALSE, to |-> None]
Asleep == [Off EXCEPT !.at = "asleep"]
Active(f) == IF f = None THEN {} ELSE IF f.paused THEN {} ELSE f.dests \ f.muted
Listed == {e \in Entries : e <= published /\ e > published - Window}
Newest(S) == Max(S \cup {0})

Pendings == [entry : Entries, done : SUBSET Dests]
Records == [last : 0 .. MaxEntries, dests : (SUBSET Dests) \ {{}}, muted : SUBSET Dests,
            paused : BOOLEAN, pending : Pendings \cup {None}]
Workers == [at : {"off", "asleep", "fetching", "next", "rooms", "users", "sending"},
            last : 0 .. MaxEntries, queue : Seq(Entries), todo : SUBSET Dests,
            failed : BOOLEAN, to : Dests \cup {None}]

FeedsAssumption ==
    /\ MaxEntries \in Nat /\ Window \in Nat \ {0} /\ MaxPerPoll \in Nat \ {0}
    /\ Rooms \cap Users = {} /\ None \notin Dests /\ None \notin Pendings /\ None \notin Records
    /\ None \notin 0 .. MaxEntries

TypeOK ==
    /\ published \in 0 .. MaxEntries /\ joined \subseteq Rooms
    /\ feed \in Records \cup {None} /\ disk \in Records \cup {None}
    /\ worker \in Workers /\ adding \subseteq Dests /\ wanted \subseteq Dests
    /\ bursting \in [Dests -> (0 .. MaxEntries) \cup {None}]
    /\ copies \in [Dests -> [Entries -> Nat]] /\ since \in [Dests -> 0 .. MaxEntries]
    /\ skipped \subseteq Entries /\ cut \subseteq Dests \X Entries
    /\ {crashed, overlapped} \subseteq BOOLEAN

Init ==
    /\ published = 0 /\ joined = Rooms
    /\ feed = None /\ disk = None
    /\ worker = Off /\ adding = {} /\ bursting = [d \in Dests |-> None]
    /\ copies = [d \in Dests |-> [e \in Entries |-> 0]]
    /\ since = [d \in Dests |-> 0]
    /\ skipped = {} /\ cut = {} /\ crashed = FALSE /\ overlapped = FALSE /\ wanted = {}
    /\ commands = 0 /\ faults = 0

Fault == faults < MaxFaults /\ faults' = faults + 1
Command ==
    /\ commands < MaxCommands /\ commands' = commands + 1
    /\ UNCHANGED <<site, disk, skipped, crashed, faults>>

Publish ==
    /\ published < MaxEntries /\ published' = published + 1
    /\ UNCHANGED <<joined, feed, disk, worker, adding, bursting, ghosts, commands, faults>>

LeaveOrJoin(r) ==
    /\ IF r \in joined THEN joined' = joined \ {r} /\ Fault
       ELSE joined' = joined \cup {r} /\ UNCHANGED faults
    /\ UNCHANGED <<published, feed, disk, worker, adding, bursting, ghosts, commands>>

(* Destinations that become active count the entries from then on, and what *)
(* a destination is sent is counted from its subscription on.               *)
Store(new) ==
    /\ feed' = new
    /\ since' = [d \in Dests |-> IF d \in Active(new) \ Active(feed) THEN published ELSE since[d]]

(* _cancel_feed_task: a send in flight is left without its acknowledgement. *)
Cancel(next) ==
    /\ worker' = next
    /\ cut' = IF worker.at = "sending" THEN cut \cup {<<worker.to, Head(worker.queue)>>} ELSE cut

(* ensure_task.                                                             *)
Ensure == worker' = IF worker.at = "off" THEN Asleep ELSE worker

-----------------------------------------------------------------------------
(* History: the newest entries a document lists, up to the cursor.          *)
History(cursor) ==
    {e \in Listed : e <= cursor /\ Cardinality({x \in Listed : e < x /\ x <= cursor}) < Burst}

Shown(d, entries) ==
    copies' = [copies EXCEPT ![d] = [e \in Entries |-> IF e \in entries THEN @[e] + 1 ELSE @[e]]]
Unseen(d) == [copies EXCEPT ![d] = [e \in Entries |-> 0]]

(* Subscribing.  A feed without a record is fetched first, and the record   *)
(* is written without looking again; a room sees its newest entries.  A     *)
(* room that joins a known feed is shown history up to the cursor of this   *)
(* moment, after the document was fetched.  A muted room stays muted.       *)
AddStarts(d) ==
    /\ Command /\ d \notin adding
    /\ \/ feed = None /\ adding' = adding \cup {d}
          /\ UNCHANGED <<feed, since, worker, wanted, bursting, copies, overlapped>>
       \/ /\ feed # None /\ d \notin feed.dests
          /\ Store([feed EXCEPT !.dests = @ \cup {d}])
          /\ Ensure /\ wanted' = wanted \cup {d} /\ UNCHANGED adding
          /\ bursting' = IF d \in Rooms /\ feed.last > 0 THEN [bursting EXCEPT ![d] = feed.last]
                         ELSE bursting
          /\ copies' = Unseen(d) /\ overlapped' = (overlapped \/ bursting[d] # None)
    /\ UNCHANGED cut

Fresh(d) ==
    [last |-> Newest(Listed), dests |-> {d}, muted |-> {}, paused |-> FALSE, pending |-> None]

AddEnds(d) ==
    /\ d \in adding /\ adding' = adding \ {d}
    /\ Store(Fresh(d)) /\ Ensure
    /\ copies' = [copies EXCEPT ![d] =
         [e \in Entries |-> IF d \in Rooms /\ e \in History(published) THEN 1 ELSE 0]]
    /\ wanted' = wanted \cup {d}
    /\ overlapped' = (overlapped \/ feed # None)
    /\ UNCHANGED <<site, disk, bursting, skipped, cut, crashed, commands, faults>>

AddFails(d) ==
    /\ d \in adding /\ adding' = adding \ {d} /\ Fault
    /\ UNCHANGED <<site, feed, disk, worker, bursting, ghosts, commands>>

(* Without the cursor's entry in the document nothing is shown.             *)
UpToTheNewest(cursor) == published
UpTo(cursor) == cursor

BurstEnds(d) ==
    /\ bursting[d] # None /\ bursting' = [bursting EXCEPT ![d] = None]
    /\ Shown(d, IF bursting[d] \in Listed THEN History(UpTo(bursting[d])) ELSE {})
    /\ UNCHANGED <<site, feed, disk, worker, adding, since, skipped, cut, crashed, overlapped,
                   wanted, commands, faults>>

BurstFails(d) ==
    /\ bursting[d] # None /\ bursting' = [bursting EXCEPT ![d] = None] /\ Fault
    /\ UNCHANGED <<site, feed, disk, worker, adding, ghosts, commands>>

(* Removing destinations, and with the last one the feed.  The worker goes  *)
(* on with those it was about to send to.                                   *)
Removed(gone) ==
    LET left == feed.dests \ gone
    IN  /\ wanted' = wanted \ gone
        /\ overlapped' = (overlapped \/ \E d \in gone : bursting[d] # None)
        /\ Store(IF left = {} THEN None ELSE [feed EXCEPT !.dests = left, !.muted = @ \ (gone \cap Users)])

Unsubscribe(d) ==
    /\ Command /\ feed # None /\ d \in feed.dests \cup {None}
    /\ Removed(IF d = None THEN feed.dests ELSE {d})
    /\ \/ feed' = None /\ Cancel(Off)
       \/ feed' # None /\ (IF d \in Rooms THEN Ensure ELSE UNCHANGED worker) /\ UNCHANGED cut
    /\ UNCHANGED <<adding, bursting, copies>>

(* The room is deleted: a feed that users still read goes on.               *)
CleanupRoomState(r) ==
    /\ Command /\ feed # None /\ r \in feed.dests
    /\ Removed({r})
    /\ IF feed' = None THEN Cancel(Off) ELSE UNCHANGED <<worker, cut>>
    /\ UNCHANGED <<adding, bursting, copies>>

(* pause and resume, of the feed (None) or of a destination.                *)
Toggle(S, d) == IF d \in S THEN S \ {d} ELSE S \cup {d}
SetPauseState(d) ==
    /\ Command /\ feed # None /\ d \in feed.dests \cup {None}
    /\ Store(IF d = None THEN [feed EXCEPT !.paused = ~@] ELSE [feed EXCEPT !.muted = Toggle(@, d)])
    /\ Cancel(IF feed'.paused THEN Off ELSE Asleep)
    /\ UNCHANGED <<adding, bursting, copies, overlapped, wanted>>

ResetRetry ==
    /\ Command /\ feed # None /\ Cancel(Asleep)
    /\ UNCHANGED <<feed, since, adding, bursting, copies, overlapped, wanted>>

-----------------------------------------------------------------------------
(* The worker.  Going back to sleep stands for every pause of the loop,     *)
(* backoff included.                                                        *)
Worker(next) == worker' = next /\ UNCHANGED <<site, disk, adding, bursting, crashed,
                                              overlapped, wanted, commands>>

Poll ==
    /\ worker.at = "asleep"
    /\ \/ feed = None /\ Worker(Off)
       \/ feed # None /\ ~feed.paused /\ Worker([Asleep EXCEPT !.at = "fetching", !.last = feed.last])
    /\ UNCHANGED <<feed, copies, since, skipped, cut, faults>>

FetchFails ==
    /\ worker.at = "fetching" /\ Fault /\ Worker(Asleep)
    /\ UNCHANGED <<feed, copies, since, skipped, cut>>

(* The newest unseen entries, oldest first; an unfinished one comes before. *)
Before(last) == Max({last, published - Window, published - MaxPerPoll})
Chosen(last) == [i \in 1 .. published - Before(last) |-> Before(last) + i]
Items(s) == {s[i] : i \in 1 .. Len(s)}
Unfinished == IF feed.pending = None THEN {} ELSE {feed.pending.entry}

Fetched ==
    LET new == Chosen(worker.last)
        queue == IF Unfinished \subseteq Items(new) THEN new ELSE <<feed.pending.entry>> \o new
    IN  /\ worker.at = "fetching" /\ feed # None
        /\ IF Unfinished = {} /\ worker.last = 0
           THEN /\ feed' = [feed EXCEPT !.last = Newest(Listed)]
                /\ skipped' = skipped \cup 1 .. published
                /\ Worker(Asleep)
           ELSE /\ skipped' = skipped \cup ((worker.last + 1 .. published) \ Items(queue))
                /\ Worker(IF queue = <<>> THEN Asleep ELSE [worker EXCEPT !.at = "next", !.queue = queue])
                /\ UNCHANGED feed
        /\ UNCHANGED <<copies, since, cut, faults>>

(* The next entry: it waits for every active room, and a checkpoint is      *)
(* written before the first send.                                           *)
NextEntry ==
    LET rooms == Active(feed) \cap Rooms
        entry == Head(worker.queue)
    IN  /\ worker.at = "next" /\ feed # None
        /\ IF rooms \subseteq joined /\ Unfinished \subseteq {entry}
           THEN /\ feed' = [feed EXCEPT !.pending = IF @ = None
                                                       THEN [entry |-> entry, done |-> {}]
                                                       ELSE @]
                /\ Worker([worker EXCEPT !.at = "rooms", !.todo = rooms \ feed'.pending.done])
           ELSE Worker(Asleep) /\ UNCHANGED feed
        /\ UNCHANGED <<copies, since, skipped, cut, faults>>

Send(d) ==
    /\ worker.at \in {"rooms", "users"} /\ d \in worker.todo
    /\ copies' = [copies EXCEPT ![d][Head(worker.queue)] = @ + 1]
    /\ Worker([worker EXCEPT !.at = "sending", !.to = d, !.todo = @ \ {d}])
    /\ UNCHANGED <<feed, since, skipped, cut, faults>>

SendRefused(d) ==
    /\ worker.at \in {"rooms", "users"} /\ d \in worker.todo /\ Fault
    /\ Worker([worker EXCEPT !.todo = @ \ {d}, !.failed = TRUE])
    /\ UNCHANGED <<feed, copies, since, skipped, cut>>

(* _ack_delivery_destination: a checkpoint of another entry, or none, is an *)
(* error that ends the poll.                                                *)
Ack ==
    /\ worker.at = "sending" /\ feed # None
    /\ IF Unfinished = {Head(worker.queue)}
       THEN /\ feed' = [feed EXCEPT !.pending.done = @ \cup {worker.to}]
            /\ Worker([worker EXCEPT !.at = IF worker.to \in Rooms THEN "rooms"
                                            ELSE "users", !.to = None])
       ELSE Worker(Asleep) /\ UNCHANGED feed
    /\ UNCHANGED <<copies, since, skipped, cut, faults>>

RoomsServed ==
    /\ worker.at = "rooms" /\ worker.todo = {} /\ feed # None
    /\ Worker([worker EXCEPT !.at = "users",
         !.todo = (Active(feed) \cap Users) \ (IF feed.pending = None THEN {} ELSE feed.pending.done)])
    /\ UNCHANGED <<feed, copies, since, skipped, cut, faults>>

(* Only an entry that everybody accepted moves the cursor.                  *)
Complete_Anyway == TRUE
Complete == ~worker.failed

EntryDone ==
    /\ worker.at = "users" /\ worker.todo = {} /\ feed # None
    /\ IF Complete
       THEN /\ feed' = [feed EXCEPT !.last = Head(worker.queue), !.pending = None]
            /\ Worker(IF Len(worker.queue) = 1 THEN Asleep
                      ELSE [worker EXCEPT !.at = "next", !.queue = Tail(@)])
       ELSE Worker(Asleep) /\ UNCHANGED feed
    /\ UNCHANGED <<copies, since, skipped, cut, faults>>

-----------------------------------------------------------------------------
Flush ==
    /\ disk # feed /\ disk' = feed
    /\ UNCHANGED <<site, feed, worker, adding, bursting, ghosts, commands, faults>>

(* on_unload and on_load of the plugin.                                     *)
Reload ==
    /\ Fault /\ Cancel(IF feed = None THEN Off ELSE Asleep)
    /\ UNCHANGED <<site, feed, disk, adding, bursting, copies, since, skipped, crashed,
                   overlapped, wanted, commands>>

(* A crash, and on_load of the next start.                                  *)
Crash ==
    /\ Fault /\ Store(disk)
    /\ Cancel(IF disk = None THEN Off ELSE Asleep)
    /\ adding' = {} /\ bursting' = [d \in Dests |-> None]
    /\ crashed' = TRUE
    /\ UNCHANGED <<site, disk, copies, skipped, overlapped, wanted, commands>>

Next ==
    \/ Publish \/ \E r \in Rooms : LeaveOrJoin(r)
    \/ \E r \in Rooms : CleanupRoomState(r)
    \/ \E d \in Dests : BurstEnds(d) \/ BurstFails(d)
    \/ \E d \in Dests : AddStarts(d) \/ AddEnds(d) \/ AddFails(d) \/ Send(d) \/ SendRefused(d)
    \/ \E d \in Dests \cup {None} : Unsubscribe(d) \/ SetPauseState(d)
    \/ ResetRetry \/ Poll \/ FetchFails \/ Fetched \/ NextEntry \/ Ack \/ RoomsServed
    \/ EntryDone \/ Flush \/ Reload \/ Crash

Spec == Init /\ [][Next]_vars

(* Nobody misses an entry: what the cursor has passed was sent to everyone  *)
(* who has been an active subscriber since before it was published, unless  *)
(* a poll left it out (more new entries than a poll takes or the document   *)
(* lists, or the first document of a feed that was empty when added).       *)
NobodyMissesAnEntry ==
    \A d \in Active(feed) : \A e \in since[d] + 1 .. feed.last :
        copies[d][e] > 0 \/ e \in skipped

(* Nobody gets an entry twice, retries and restarts of the worker included, *)
(* unless the worker was cancelled between a send and its acknowledgement,  *)
(* the process crashed, or two adds of a new feed overlapped.               *)
OnceUnlessCut ==
    \A d \in Dests : \A e \in Entries :
        copies[d][e] > 1 => crashed \/ overlapped \/ <<d, e>> \in cut

(* A confirmed subscription lasts until it is removed, unless the process   *)
(* crashed or two adds of a new feed overlapped.                            *)
SubscriptionsLast ==
    crashed \/ overlapped \/ wanted \subseteq (IF feed = None THEN {} ELSE feed.dests)

EntriesArrive == NobodyMissesAnEntry /\ OnceUnlessCut /\ SubscriptionsLast

-----------------------------------------------------------------------------
(* The inductive invariants.  First what holds whatever happens: the worker *)
(* works for a feed that exists, nothing is known that is not published,    *)
(* and every active subscriber has got, or the worker still has to send,    *)
(* what lies between their subscription and where the worker is.            *)
Busy == worker.at \in {"next", "rooms", "users", "sending"}

WorkInv ==
    /\ worker.at \in {"fetching", "next", "rooms", "users", "sending"} => feed # None
    /\ Busy => worker.queue # <<>>
    /\ worker.at = "sending" => worker.to \in Dests
    /\ worker.last <= published /\ \A e \in Items(worker.queue) : e <= published
    /\ \A f \in {feed, disk} \ {None} :
           f.last <= published /\ (f.pending # None => f.pending.entry <= published)
    /\ feed # None => adding \cap feed.dests = {}
    /\ worker.at \in {"rooms", "users", "sending"} /\ feed.pending # None =>
           feed.pending.entry = Head(worker.queue)

Got(d, e) == since[d] >= e \/ copies[d][e] > 0 \/ e \in skipped
GotUpTo(d, n) == \A e \in 1 .. n : Got(d, e)

RecordInv ==
    \A f \in {feed, disk} \ {None} : \A d \in Active(feed) \cap Active(f) :
        /\ GotUpTo(d, f.last)
        /\ f.pending # None /\ d \in f.pending.done => Got(d, f.pending.entry)

QueueInv ==
    \A d \in Active(feed) :
        /\ worker.at = "fetching" => GotUpTo(d, worker.last)
        /\ Busy => \A i \in 1 .. Len(worker.queue) : \A e \in 1 .. worker.queue[i] - 1 :
                       Got(d, e) \/ \E j \in 1 .. i - 1 : worker.queue[j] = e

InRooms == worker.at = "rooms" \/ (worker.at = "sending" /\ worker.to \in Rooms)
InUsers == worker.at = "users" \/ (worker.at = "sending" /\ worker.to \notin Rooms)

AimInv ==
    /\ InRooms => worker.todo \subseteq Rooms
    /\ InUsers => worker.todo \subseteq Users

TodoInv ==
    \A d \in Active(feed) :
        /\ (InRooms /\ d \in Rooms) \/ InUsers =>
               worker.failed \/ d \in worker.todo \/ Got(d, Head(worker.queue))
        /\ worker.at = "sending" /\ worker.to = d => Got(d, Head(worker.queue))

CoverInv == RecordInv /\ QueueInv /\ AimInv /\ TodoInv

(* And what holds while nothing excuses a second copy: entries are taken in *)
(* order, one at a time, and a destination has only been sent what the      *)
(* cursor passed, or what the checkpoint or the worker knows of.            *)
OrderInv ==
    /\ worker.at = "fetching" => worker.last = feed.last
    /\ feed # None => (feed.pending # None => feed.pending.entry > feed.last)
    /\ Busy => /\ \A e \in Items(worker.queue) : e > feed.last
               /\ \A i, j \in 1 .. Len(worker.queue) : i < j => worker.queue[i] < worker.queue[j]
    /\ worker.at \in {"rooms", "users", "sending"} =>
           /\ feed.pending # None
           /\ worker.todo \cap feed.pending.done = {}
           /\ (worker.at = "sending" => worker.to \notin worker.todo)

Knows(d, e) ==
    \/ e <= feed.last
    \/ /\ feed.pending # None /\ feed.pending.entry = e
       /\ d \in feed.pending.done \/ (worker.at = "sending" /\ worker.to = d) \/ <<d, e>> \in cut

CopiesInv ==
    \A d \in Dests, e \in Entries :
        /\ copies[d][e] > 0 => e <= published /\ (feed # None => Knows(d, e))
        /\ copies[d][e] > 1 => <<d, e>> \in cut

BurstInv ==
    \A d \in Dests : bursting[d] # None =>
        /\ feed # None /\ d \in feed.dests /\ bursting[d] <= feed.last
        /\ \A e \in Entries : e <= bursting[d] => copies[d][e] = 0

Subscribed == wanted \subseteq (IF feed = None THEN {} ELSE feed.dests)
Excused == crashed \/ overlapped
Orderly == OrderInv /\ CopiesInv /\ BurstInv /\ Subscribed
OrderlyInv == Excused \/ Orderly
=============================================================================
