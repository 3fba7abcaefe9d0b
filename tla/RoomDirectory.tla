-------------------------- MODULE RoomDirectory --------------------------
(***************************************************************************)
(* What the media server promises about the rooms it runs, whatever its    *)
(* handlers are: a room is opened or closed first and announced later, by  *)
(* the handler that opened or closed it; a new process starts with no room *)
(* and with nothing to announce.                                           *)
(***************************************************************************)
CONSTANTS
    RoomIds,
    Handlers      \* the handlers that open and close rooms

VARIABLES
    up,           \* the process runs
    registered,   \* the rooms it runs
    owed,         \* the announcements its handlers have still to make
    announced     \* the rooms that its announcements say are running

directoryVars == <<up, registered, owed, announced>>

Announcement == [by : Handlers, about : {"created", "removed"}, room : RoomIds]

DirectoryInit == up = TRUE /\ registered = {} /\ owed = {} /\ announced = {}

Owes(h, about, id) == owed' = owed \cup {[by |-> h, about |-> about, room |-> id]}

Open(h, id) ==
    /\ up
    /\ registered' = registered \cup {id}
    /\ Owes(h, "created", id)
    /\ UNCHANGED <<up, announced>>

Close(h, id) ==
    /\ up /\ id \in registered
    /\ registered' = registered \ {id}
    /\ Owes(h, "removed", id)
    /\ UNCHANGED <<up, announced>>

Announce(m) ==
    /\ up /\ m \in owed
    /\ owed' = owed \ {m}
    /\ announced' = IF m.about = "created" THEN announced \cup {m.room}
                                           ELSE announced \ {m.room}
    /\ UNCHANGED <<up, registered>>

Stop ==
    /\ up
    /\ up' = FALSE /\ registered' = {} /\ owed' = {}
    /\ UNCHANGED announced

StartAgain ==
    /\ ~up
    /\ up' = TRUE /\ announced' = {}
    /\ UNCHANGED <<registered, owed>>

DirectoryNext ==
    \/ Stop \/ StartAgain
    \/ \E h \in Handlers, id \in RoomIds : Open(h, id) \/ Close(h, id)
    \/ \E m \in owed : Announce(m)

DirectorySpec == DirectoryInit /\ [][DirectoryNext]_directoryVars
==========================================================================
