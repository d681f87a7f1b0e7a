-------------------------------- MODULE Profile --------------------------------
(***************************************************************************)
(* Publishing the bot's profile (core_plugins/_reg_profile.py): whenever a *)
(* session is ready the vCard and the avatar are compared with the markers *)
(* of what was published last, and published where they differ.  Every     *)
(* publication and every write of a marker may fail or be cut off.         *)
(***************************************************************************)
EXTENDS Integers

CONSTANTS
    MaxVersion,  \* versions of vcard.py and of the avatar: 1..MaxVersion
    MaxEdits,    \* bound on changes of the two files
    MaxSessions, \* bound on sessions that become ready
    MaxFaults    \* bound on failures and lost sessions

ProfileAssumption ==
    MaxVersion \in Nat \ {0} /\ MaxEdits \in Nat /\ MaxSessions \in Nat /\ MaxFaults \in Nat

Missing == 0

VARIABLES
    files,     \* the configured [card, image], Missing when there is no file
    marks,     \* the persisted markers: avatar_hash.asc and vcard_hash.asc
    server,    \* what the server shows: the vCard's fields, its PHOTO, the PEP avatar
    pc,        \* "idle", "card", "markCard", "image", "pep", "photo" or "markImage"
    read,      \* the version that the update at hand has read
    ok,        \* the publications of the avatar that succeeded
    unmarked,  \* ghost: what was published without its marker being written
    settled,   \* ghost: the last refresh ran to its end without a fault
    edits, sessions, faults

vars == <<files, marks, server, pc, read, ok, unmarked, settled, edits, sessions, faults>>

Kinds == {"card", "image"}

TypeOK ==
    /\ files \in [Kinds -> 0..MaxVersion] /\ marks \in [Kinds -> 0..MaxVersion]
    /\ server \in [{"card", "photo", "pep"} -> 0..MaxVersion]
    /\ pc \in {"idle", "card", "markCard", "image", "pep", "photo", "markImage"}
    /\ read \in 0..MaxVersion /\ ok \subseteq {"pep", "photo"} /\ unmarked \subseteq Kinds
    /\ settled \in BOOLEAN /\ edits \in 0..MaxEdits /\ sessions \in 0..MaxSessions
    /\ faults \in 0..MaxFaults

Init ==
    /\ files \in [Kinds -> {1}] /\ marks = [k \in Kinds |-> Missing]
    /\ server = [p \in {"card", "photo", "pep"} |-> Missing]
    /\ pc = "idle" /\ read = Missing /\ ok = {} /\ unmarked = {} /\ settled = FALSE
    /\ edits = 0 /\ sessions = 0 /\ faults = 0

Fault == faults < MaxFaults /\ faults' = faults + 1 /\ settled' = FALSE
Fine == UNCHANGED <<faults, settled>>
Bounds == <<edits, sessions>>

EditFile(kind, v) ==
    /\ edits < MaxEdits /\ edits' = edits + 1 /\ v # files[kind]
    /\ files' = [files EXCEPT ![kind] = v] /\ settled' = FALSE
    /\ UNCHANGED <<marks, server, pc, read, ok, unmarked, sessions, faults>>

OnSessionReady ==
    /\ pc = "idle" /\ sessions < MaxSessions /\ sessions' = sessions + 1
    /\ pc' = "card" /\ settled' = TRUE
    /\ UNCHANGED <<files, marks, server, read, ok, unmarked, edits, faults>>

-----------------------------------------------------------------------------
(* What a refresh may skip: there is no file, or its marker is this version.*)
Skipped(kind) == files[kind] \in {Missing, marks[kind]}

SkipVcard ==
    /\ pc = "card" /\ Skipped("card") /\ pc' = "image" /\ Fine
    /\ UNCHANGED <<files, marks, server, read, ok, unmarked, Bounds>>

(* The vCard is set as a whole: what vcard.py does not say is gone.         *)
SetVcard(v) == [server EXCEPT !.card = v, !.photo = Missing]

UpdateVcard ==
    /\ pc = "card" /\ ~Skipped("card") /\ read' = files["card"]
    /\ \/ /\ server' = SetVcard(files["card"]) /\ pc' = "markCard"
          /\ unmarked' = unmarked \union {"card"} /\ Fine
       \/ Fault /\ pc' = "image" /\ UNCHANGED <<server, unmarked>>
    /\ UNCHANGED <<files, marks, ok, Bounds>>

(* write_hash: a failure is only logged.                                    *)
WriteHash(kind) ==
    \/ marks' = [marks EXCEPT ![kind] = read] /\ unmarked' = unmarked \ {kind} /\ Fine
    \/ Fault /\ UNCHANGED <<marks, unmarked>>

MarkVcard ==
    /\ pc = "markCard" /\ pc' = "image" /\ WriteHash("card")
    /\ UNCHANGED <<files, server, read, ok, Bounds>>

-----------------------------------------------------------------------------
SkipAvatar ==
    /\ pc = "image" /\ Skipped("image") /\ pc' = "idle" /\ Fine
    /\ UNCHANGED <<files, marks, server, read, ok, unmarked, Bounds>>

UpdateAvatar ==
    /\ pc = "image" /\ ~Skipped("image") /\ read' = files["image"] /\ ok' = {}
    /\ pc' = "pep" /\ Fine
    /\ UNCHANGED <<files, marks, server, unmarked, Bounds>>

(* The two publications: each is tried whatever became of the other one.    *)
Publish(part) ==
    \/ /\ server' = [server EXCEPT ![part] = read] /\ ok' = ok \union {part}
       /\ unmarked' = unmarked \union {"image"} /\ Fine
    \/ Fault /\ UNCHANGED <<server, ok, unmarked>>

PublishXep0084 ==
    /\ pc = "pep" /\ pc' = "photo" /\ Publish("pep")
    /\ UNCHANGED <<files, marks, read, Bounds>>

Published_Any(done) == done # {}
Published(done) == done = {"pep", "photo"}

PublishXep0153 ==
    /\ pc = "photo" /\ Publish("photo")
    /\ pc' = IF Published(ok') THEN "markImage" ELSE "idle"
    /\ UNCHANGED <<files, marks, read, Bounds>>

MarkAvatar ==
    /\ pc = "markImage" /\ pc' = "idle" /\ WriteHash("image")
    /\ UNCHANGED <<files, server, read, ok, Bounds>>

(* The session ends, or the process does.                                   *)
SessionLost ==
    /\ pc # "idle" /\ pc' = "idle" /\ Fault
    /\ UNCHANGED <<files, marks, server, read, ok, unmarked, Bounds>>

Next ==
    \/ \E kind \in Kinds, v \in 0..MaxVersion : EditFile(kind, v)
    \/ OnSessionReady \/ SkipVcard \/ UpdateVcard \/ MarkVcard
    \/ SkipAvatar \/ UpdateAvatar \/ PublishXep0084 \/ PublishXep0153 \/ MarkAvatar
    \/ SessionLost

Spec == Init /\ [][Next]_vars

-----------------------------------------------------------------------------
(* A marker says what the server shows, unless the marker of a later        *)
(* publication could not be written.                                         *)
MarkersAreTrue ==
    /\ "card" \notin unmarked => server.card = marks["card"]
    /\ "image" \notin unmarked => server.pep = marks["image"]

(* What keeps it: a marker is about to get the version that was published,  *)
(* and only the publications of this update count.                          *)
UpdateInv ==
    /\ MarkersAreTrue
    /\ pc = "markCard" => server.card = read
    /\ pc = "pep" => ok = {}
    /\ pc = "photo" /\ "pep" \in ok => server.pep = read
    /\ pc = "markImage" => server.pep = read

(* update_avatar: "a partial server-side update is retried on the next      *)
(* profile refresh".  After a refresh without faults the vCard has the       *)
(* configured PHOTO.                                                         *)
AvatarIsPublished ==
    pc = "idle" /\ settled /\ files["image"] # Missing /\ unmarked = {} =>
        server.pep = files["image"] /\ server.photo = files["image"]
=============================================================================
