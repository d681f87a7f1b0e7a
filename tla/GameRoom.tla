-------------------------------- MODULE GameRoom --------------------------------
(***************************************************************************)
(* The characters, penalties and quests of one IdleRPG room                *)
(* (plugins/idlerpg/commands.py, handlers.py, leveling.py, quests.py,      *)
(* seasons.py).  The game's data is one cached object, so each handler     *)
(* changes it in one step; what comes late is the presence, which waits    *)
(* for the room's loop to be ensured.  A character's clock is the logout   *)
(* penalties that were added to it; times are flags that some step sets.   *)
(***************************************************************************)
EXTENDS SequencesExt

CONSTANTS
    Players, Nicks, Nobody,
    Guests,      \* the players who never make a character
    QuestSize,   \* how many go on a quest (4 in the code)
    QuestLimit,  \* QUEST_MAX_PER_DAY
    MaxAccount,  \* bound on the departures of one player that are not charged
    MaxNews,     \* bound on the presences that wait
    MaxOps       \* bound on toggles, reconnects, removals and season commands

GameRoomAssumption == QuestSize \in Nat \ {0} /\ QuestLimit \in Nat \ {0} /\ Nobody \notin Players

VARIABLES
    enabled,   \* the room plays
    grace,     \* LOGOUT_GRACE_SECONDS is set
    players,   \* who has a character, in the order of the table
    char,      \* per player: logged_out, pending_logout_penalty and whether it is due, last_nick
    seat,      \* JOINED_ROOMS: who has which nick
    news,      \* the presences that on_muc_presence has not looked at
    quest,     \* the quest, and how many were started this day
    account,   \* ghost, per player: the departures (of the last nick, or by logout) that
               \* were neither charged to the clock nor cancelled
    hit,       \* ghost: the questers who were penalised since the time quest began
    today,     \* ghost: the quests that were started this day, and since a discarded season
    mistaken,  \* ghost: somebody was taken for somebody else, or a presence was looked at with
               \* a roster that had changed again
    missed,    \* ghost: a presence was not looked at
    ops

people == <<players, char, account, mistaken>>
vars == <<enabled, grace, seat, news, quest, hit, today, missed, ops, people>>

Nothing == [pending |-> "none", due |-> FALSE]
Blank == [out |-> FALSE, pending |-> "none", due |-> FALSE, nick |-> Nobody]
NoQuest == [type |-> "none", who |-> {}, leg |-> 0, starts |-> 0]
Registered == {p \in Players : \E i \in DOMAIN players : players[i] = p}
Seats(p) == {n \in Nicks : seat[n] = p}
Online(p) == p \in Registered /\ ~char[p].out /\ Seats(p) # {}

TypeOK ==
    /\ enabled \in BOOLEAN /\ grace \in BOOLEAN /\ mistaken \in BOOLEAN /\ missed \in BOOLEAN
    /\ players \in BoundedSeq(Players, Cardinality(Players)) /\ IsInjective(players)
    /\ char \in [Players -> [out : BOOLEAN, pending : {"none", "presence", "logout"}, due : BOOLEAN,
                             nick : Nicks \union {Nobody}]]
    /\ seat \in [Nicks -> Players \union {Nobody}]
    /\ Len(news) <= MaxNews
    /\ quest.type \in {"none", "time", "grid"} /\ quest.who \subseteq Players
    /\ (quest.type = "none" <=> quest.who = {}) /\ quest.starts \in 0..QuestLimit
    /\ account \in [Players -> -1..MaxAccount]
    /\ hit \subseteq Players /\ today \in Nat /\ ops \in 0..MaxOps

Init ==
    /\ enabled = TRUE /\ players = <<>> /\ char = [p \in Players |-> Blank]
    /\ seat = [n \in Nicks |-> Nobody] /\ news = <<>> /\ quest = NoQuest /\ grace \in BOOLEAN
    /\ account = [p \in Players |-> 0] /\ hit = {} /\ today = 0
    /\ mistaken = FALSE /\ missed = FALSE /\ ops = 0

-----------------------------------------------------------------------------
(* What penalties and quests do.                                            *)
Inactive_Forgets == NoQuest
Inactive == [NoQuest EXCEPT !.starts = quest.starts]

(* _maybe_fail_time_quest_for_penalty, for whoever was penalised.           *)
FailsQuest_Never(S) == FALSE
FailsQuest(S) == quest.type = "time" /\ S \cap quest.who # {}

Penalised(S) ==
    /\ quest' = IF FailsQuest(S) THEN Inactive ELSE quest
    /\ hit' = IF quest'.type = "time" THEN hit \union (S \cap quest.who) ELSE {}

(* _apply_logout_penalty: it is added, and nothing is pending any more.     *)
Settled_Pending(c) == c
Settled(c) == [c EXCEPT !.pending = "none", !.due = FALSE]
Paid(S) == [p \in Players |-> IF p \in S THEN account[p] - 1 ELSE account[p]]

(* _find_player_by_message_identity: the first in the table who is the one, *)
(* or was last seen with that nick.                                         *)
FoundAt(p, n) == {i \in DOMAIN players : players[i] = p \/ char[players[i]].nick = n}
Found(p, n) == players[CHOOSE i \in FoundAt(p, n) : \A j \in FoundAt(p, n) : i <= j]

-----------------------------------------------------------------------------
(* The room: its roster changes, and the presence is handled later.         *)
Tell(n, p, type) == news' = Append(news, [type |-> type, nick |-> n, jid |-> p])
RoomKept == UNCHANGED <<enabled, grace, players, char, quest, hit, today, mistaken, missed, ops>>

Enter(p, n) ==
    /\ seat[n] = Nobody /\ Len(news) < MaxNews
    /\ seat' = [seat EXCEPT ![n] = p] /\ Tell(n, p, "available") /\ UNCHANGED account /\ RoomKept

Leave(n) ==
    /\ seat[n] # Nobody /\ Len(news) < MaxNews
    /\ seat[n] \in Guests \/ account[seat[n]] < MaxAccount
    /\ seat' = [seat EXCEPT ![n] = Nobody] /\ Tell(n, seat[n], "unavailable")
    /\ account' = IF Seats(seat[n]) = {n} /\ seat[n] \notin Guests
                     THEN [account EXCEPT ![seat[n]] = @ + 1]
                     ELSE account
    /\ RoomKept

(* A change of nick: the old one's presence has status 303 and is ignored.  *)
Rename(n, m) ==
    /\ seat[n] # Nobody /\ seat[m] = Nobody /\ Len(news) < MaxNews
    /\ seat' = [seat EXCEPT ![n] = Nobody, ![m] = seat[n]] /\ Tell(m, seat[n], "available")
    /\ UNCHANGED account /\ RoomKept

(* The connection of the bot is lost: everyone there will be new.           *)
Reconnect ==
    /\ ops < MaxOps /\ ops' = ops + 1
    /\ seat' = [n \in Nicks |-> Nobody] /\ news' = <<>> /\ missed' = (missed \/ news # <<>>)
    /\ account' = [p \in Players |-> IF Seats(p) # {} /\ account[p] < MaxAccount /\ p \notin Guests
                                    THEN account[p] + 1 ELSE account[p]]
    /\ UNCHANGED <<enabled, grace, players, char, quest, hit, today, mistaken>>

Toggle ==
    /\ ops < MaxOps /\ ops' = ops + 1 /\ enabled' = ~enabled
    /\ UNCHANGED <<grace, seat, news, quest, hit, today, missed, people>>

-----------------------------------------------------------------------------
(* on_muc_presence, for the first presence that waits.                      *)
OtherSession_Never(x, q) == FALSE
OtherSession(x, q) == Seats(q) \ {x.nick} # {}

Seen(q, x) == [char[q] EXCEPT !.nick = x.nick]
Handles(x) == news # <<>> /\ x = Head(news) /\ news' = Tail(news)
PresenceKept == UNCHANGED <<enabled, grace, players, seat, today, ops>>

PresenceIgnored ==
    /\ news # <<>> /\ news' = Tail(news)
    /\ ~enabled \/ FoundAt(Head(news).jid, Head(news).nick) = {}
    /\ missed' = (missed \/ ~enabled)
    /\ PresenceKept /\ UNCHANGED <<char, quest, account, hit, mistaken>>

(* A player leaves: already logged out, still there, already pending; else  *)
(* the grace begins, or the penalty is added at once.                       *)
OnLeave(x, q) ==
    LET owes == ~char[q].out /\ ~OtherSession(x, q) /\ char[q].pending = "none" IN
    /\ x.type = "unavailable"
    /\ \/ ~owes /\ char' = [char EXCEPT ![q] = Seen(q, x)] /\ UNCHANGED <<account, hit, quest>>
       \/ /\ owes /\ grace /\ UNCHANGED <<account, hit, quest>>
          /\ char' = [char EXCEPT ![q] = [Seen(q, x) EXCEPT !.pending = "presence"]]
       \/ /\ owes /\ ~grace /\ account[q] >= 0
          /\ account' = Paid({q})
          /\ char' = [char EXCEPT ![q] = Settled(Seen(q, x))] /\ Penalised({q})

OnReturn(x, q) ==
    /\ x.type = "available"
    /\ IF char[q].pending # "presence"
       THEN char' = [char EXCEPT ![q] = Seen(q, x)] /\ UNCHANGED account
       ELSE account[q] >= 0 /\ account' = Paid({q}) /\ char' = [char EXCEPT ![q] = Settled(Seen(q, x))]
    /\ IF char[q].pending = "presence" /\ char[q].due THEN Penalised({q}) ELSE UNCHANGED <<hit,
                                                                                           quest>>

OnMucPresence(x) ==
    /\ Handles(x) /\ enabled /\ FoundAt(x.jid, x.nick) # {}
    /\ \E q \in {Found(x.jid, x.nick)} :
           (OnLeave(x, q) \/ OnReturn(x, q)) /\ mistaken' = (mistaken \/ q # x.jid \/ Len(news) > 1)
    /\ PresenceKept /\ UNCHANGED missed

(* on_message: who talks is penalised.                                      *)
OnMessage(n) ==
    /\ seat[n] # Nobody /\ enabled /\ FoundAt(seat[n], n) # {}
    /\ \E q \in {Found(seat[n], n)} : Penalised({q}) /\ mistaken' = (mistaken \/ q # seat[n])
    /\ UNCHANGED <<enabled, grace, players, char, seat, news, account, today, missed, ops>>

-----------------------------------------------------------------------------
(* The commands of players.                                                 *)
CommandKept == UNCHANGED <<enabled, grace, seat, news, today, mistaken, missed, ops>>

HandleRegister(n) ==
    /\ seat[n] # Nobody /\ enabled /\ seat[n] \notin Registered \union Guests
    /\ players' = Append(players, seat[n])
    /\ char' = [char EXCEPT ![seat[n]] = [Blank EXCEPT !.nick = n]]
    /\ CommandKept /\ UNCHANGED <<account, quest, hit>>

HandleLogin(n) ==
    LET p == seat[n] IN
    /\ p \in Registered
    /\ IF char[p].pending # "none" THEN account[p] >= 0 /\ account' = Paid({p})
       ELSE UNCHANGED account
    /\ IF char[p].pending # "none" /\ char[p].due THEN Penalised({p}) ELSE UNCHANGED <<hit, quest>>
    /\ char' = [char EXCEPT ![p] = [Blank EXCEPT !.nick = n]]
    /\ CommandKept /\ UNCHANGED players

HandleLogout(n) ==
    LET p == seat[n] IN
    /\ p \in Registered /\ account[p] < MaxAccount
    /\ IF grace
       THEN /\ char' = [char EXCEPT ![p].out = TRUE, ![p].pending = "logout", ![p].due = FALSE]
            /\ account' = [account EXCEPT ![p] = @ + 1] /\ UNCHANGED <<hit, quest>>
       ELSE /\ char' = [char EXCEPT ![p] = Settled([@ EXCEPT !.out = TRUE])]
            /\ UNCHANGED account /\ Penalised({p})
    /\ UNCHANGED <<enabled, grace, players, seat, news, today, mistaken, missed, ops>>

Without(S) == SelectSeq(players, LAMBDA p : p \notin S)

(* remove-me, an owner's delete, and delold: the characters that are old,   *)
(* offline and not on a quest.                                              *)
HandleRemove(p) ==
    /\ p \in Registered /\ ops < MaxOps /\ ops' = ops + 1 /\ players' = Without({p})
    /\ UNCHANGED <<enabled, grace, char, seat, news, quest, account, hit, today, mistaken, missed>>

OldOfflinePlayers == {p \in Registered : ~Online(p) /\ p \notin quest.who}

HandleDelold ==
    /\ ops < MaxOps /\ ops' = ops + 1
    /\ \E S \in SUBSET OldOfflinePlayers : S # {} /\ players' = Without(S)
    /\ UNCHANGED <<enabled, grace, char, seat, news, quest, account, hit, today, mistaken, missed>>

(* _reset_player_for_new_season: nothing is pending, who is out stays out.  *)
Reset(c) == [c EXCEPT !.pending = "none", !.due = FALSE]

HandleSeason(resets) ==
    /\ ops < MaxOps /\ ops' = ops + 1
    /\ char' = IF resets THEN [p \in Players |-> Reset(char[p])] ELSE char
    /\ UNCHANGED <<enabled, grace, players, seat, news, quest, account, hit, today, mistaken,
                   missed>>

(* A discarded season takes the quest with it, and the count of the day.    *)
DiscardSeason ==
    /\ ops < MaxOps /\ ops' = ops + 1
    /\ char' = [p \in Players |-> Reset(char[p])]
    /\ quest' = NoQuest /\ hit' = {} /\ today' = 0
    /\ UNCHANGED <<enabled, grace, players, seat, news, account, mistaken, missed>>

-----------------------------------------------------------------------------
(* _tick_room_locked: first the penalties that are due, then the quest.     *)
Due == {p \in Registered : char[p].pending # "none" /\ char[p].due}
AllOnline == \A p \in quest.who : Online(p)
Candidates == {p \in Registered : Online(p)}

TickCharges ==
    /\ \A p \in Due : account[p] >= 0
    /\ account' = Paid(Due)
    /\ char' = [p \in Players |-> IF p \in Due THEN Settled(char[p]) ELSE char[p]]

TickKept == UNCHANGED <<enabled, grace, players, seat, news, mistaken, missed, ops>>

TickPenalises ==
    /\ enabled /\ Due # {} /\ TickCharges /\ Penalised(Due) /\ TickKept /\ UNCHANGED today

(* A quest ends: one that is over, by success if all are there; and a grid  *)
(* quest when all are at its last point.                                    *)
QuestEnds ==
    /\ enabled /\ quest.type # "none" /\ ~FailsQuest(Due) /\ TickCharges /\ TickKept
    /\ quest' = Inactive /\ hit' = {} /\ UNCHANGED today

GridQuestAdvances ==
    /\ enabled /\ quest.type = "grid" /\ quest.leg = 0 /\ AllOnline /\ TickCharges /\ TickKept
    /\ quest' = [quest EXCEPT !.leg = 1] /\ UNCHANGED <<hit, today>>

QuestStarts(type, S) ==
    /\ enabled /\ quest.type = "none" /\ quest.starts < QuestLimit
    /\ S \subseteq Candidates /\ Cardinality(S) = QuestSize /\ TickCharges /\ TickKept
    /\ quest' = [NoQuest EXCEPT !.type = type, !.who = S, !.starts = quest.starts + 1]
    /\ hit' = {} /\ today' = today + 1

GraceEnds(p) ==
    /\ char[p].pending # "none" /\ ~char[p].due /\ char' = [char EXCEPT ![p].due = TRUE]
    /\ UNCHANGED <<enabled, grace, players, seat, news, quest, account, hit, today, mistaken,
                   missed, ops>>

(* The starts are counted for a date.                                       *)
NewDay ==
    /\ today > 0 /\ today' = 0 /\ quest' = [quest EXCEPT !.starts = 0]
    /\ UNCHANGED <<enabled, grace, seat, news, hit, missed, ops, people>>

Next ==
    \/ Reconnect \/ Toggle \/ PresenceIgnored \/ HandleDelold \/ DiscardSeason
    \/ TickPenalises \/ QuestEnds \/ GridQuestAdvances \/ NewDay
    \/ \E r \in BOOLEAN : HandleSeason(r)
    \/ \E i \in DOMAIN news : OnMucPresence(news[i])
    \/ \E p \in Players : HandleRemove(p) \/ GraceEnds(p)
    \/ \E n \in Nicks : Leave(n) \/ OnMessage(n) \/ HandleRegister(n) \/ HandleLogin(n) \/ HandleLogout(n)
    \/ \E n \in Nicks, p \in Players : Enter(p, n)
    \/ \E n \in Nicks, m \in Nicks : Rename(n, m)
    \/ \E type \in {"time", "grid"}, S \in SUBSET Players : QuestStarts(type, S)

Spec == Init /\ [][Next]_vars

-----------------------------------------------------------------------------
(* Nobody pays for leaving more often than they left: not twice for one     *)
(* departure that the presence, a login and the tick all see, and not for   *)
(* a second session that ends.                                              *)
PenaltiesAreEarned ==
    ~mistaken => \A p \in Registered :
        (IF char[p].pending = "none" THEN 0 ELSE 1) <= account[p]

(* Whoever is in the room is not about to pay for having left it.           *)
ReturnCancels ==
    ~mistaken /\ ~missed /\ news = <<>> =>
        \A p \in Registered : char[p].pending = "presence" => Seats(p) = {}

(* A time quest goes on only while no quester was penalised since it began, *)
(* on whatever path the penalty came.                                       *)
TimeQuestIsClean == quest.type = "time" => hit \cap quest.who = {}

(* No more quests are started in a day than the room may have.              *)
DailyLimitHolds == today <= QuestLimit
=============================================================================
