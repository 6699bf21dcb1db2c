------------------------------ MODULE Screens ------------------------------
(***************************************************************************)
(* What people have open on their screens: the alerts, the twin of a       *)
(* station, the notifications.  Each screen is a socket registered under a *)
(* label of its channel; a broadcast goes through a copy of the register,  *)
(* one socket after the other, while sockets come, go and die.             *)
(*                                                                         *)
(* The twin reads the layout of a station from a file and keeps it in      *)
(* memory; an alert is pushed with the place its device has there.         *)
(***************************************************************************)
EXTENDS Naturals, FiniteSets

CONSTANTS
    Sockets,       \* sockets, each used once
    Senders,       \* the requests that broadcast
    Stations,      \* stations, the default one first: 1..n
    Users,         \* names of users
    IdOf,          \* IdOf[u]: the id of user u, which the token carries
    MaxEdits,      \* bound: versions of a layout file
    MaxBroadcasts  \* bound: broadcasts begun

ASSUME ScreenAssumption ==
    /\ Stations \in Nat \ {0} /\ MaxEdits \in Nat \ {0} /\ MaxBroadcasts \in Nat
    /\ \A u, v \in Users : IdOf[u] = IdOf[v] => u = v

VARIABLES
    file,         \* file[s]: the version of the layout file of s; 0 is one that cannot be read
    layout,       \* layout[s]: the version kept in memory, 0 for none
    noted,        \* noted[s]: the version whose time the memory believes to hold
    socket,       \* socket[w]: new, open, or shut by its owner unnoticed or noticed
    register,     \* register[w]: the channel and label w is registered under
    sending,      \* sending[p]: the broadcast p is at
    heard,        \* history: heard[w]: the broadcasts that reached w
    inbox,        \* inbox[u]: the notifications stored for u
    broadcasts

screenVars == <<file, layout, noted, socket, register, sending, heard, inbox, broadcasts>>

Channels == {"alert", "twin", "notify"}
StationIds == 1..Stations
AllStations == 0    \* no station: every one of them
Default == 1
NotThere == [ch |-> "none"]
Silent == [no |-> 0]

ScreensTypeOK ==
    /\ file \in [StationIds -> 0..MaxEdits] /\ layout \in [StationIds -> 0..MaxEdits]
    /\ noted \in [StationIds -> 0..MaxEdits]
    /\ socket \in [Sockets -> {"new", "open", "lost", "shut"}]
    /\ \A w \in Sockets : register[w].ch \in Channels \cup {"none"}
    /\ \A p \in Senders : sending[p].no \in 0..MaxBroadcasts
    /\ heard \in [Sockets -> SUBSET (1..MaxBroadcasts)]
    /\ inbox \in [Users -> SUBSET (1..MaxBroadcasts)]
    /\ broadcasts \in 0..MaxBroadcasts

ScreensInit ==
    /\ file = [s \in StationIds |-> 1]
    /\ layout = [s \in StationIds |-> 0] /\ noted = [s \in StationIds |-> 0]
    /\ socket = [w \in Sockets |-> "new"] /\ register = [w \in Sockets |-> NotThere]
    /\ sending = [p \in Senders |-> Silent]
    /\ heard = [w \in Sockets |-> {}] /\ inbox = [u \in Users |-> {}]
    /\ broadcasts = 0

layoutVars == <<file, layout, noted>>
socketVars == <<socket, register, sending, heard, inbox, broadcasts>>

-----------------------------------------------------------------------------
(* The layouts.                                                            *)

\* Somebody edits the file of a station; an edit may leave it unreadable for a while.
EditLayout(s) ==
    /\ \E v \in {0} \cup 1..MaxEdits :
          /\ file[s] # v /\ (v > 0 => v > file[s] /\ v > layout[s] /\ v > noted[s])
          /\ file' = [file EXCEPT ![s] = v]
    /\ UNCHANGED <<layout, noted, socketVars>>

Readable == {s \in StationIds : file[s] > 0}

\* _discover_station_files: the time of every file that can be read is noted.
Discovered == [s \in StationIds |-> IF s \in Readable THEN file[s] ELSE noted[s]]

InMemory(s) == layout[s] > 0 /\ noted[s] = file[s]

\* _load_layout: from memory while the file has the time noted, or from the file after all
\* files have been looked at; a file that cannot be read is no station.
LoadLayout(s) ==
    IF InMemory(s) THEN UNCHANGED <<layout, noted>>
    ELSE /\ noted' = Discovered
         /\ layout' = IF s \in Readable THEN [layout EXCEPT ![s] = file[s]] ELSE layout

IsStation(s) == InMemory(s) \/ s \in Readable

\* The layout, the overview or the detail of a device is asked for.
Look(s) == LoadLayout(s) /\ UNCHANGED <<file, socketVars>>

ListStations == noted' = Discovered /\ UNCHANGED <<file, layout, socketVars>>

-----------------------------------------------------------------------------
(* The sockets.                                                            *)

Register(w, ch, label) ==
    /\ socket[w] = "new"
    /\ socket' = [socket EXCEPT ![w] = "open"]
    /\ register' = [register EXCEPT ![w] = [ch |-> ch, label |-> label]]
    /\ UNCHANGED <<sending, heard, inbox, broadcasts>>

\* alerts_ws: registered before the greeting.
OpenAlerts(w) == Register(w, "alert", AllStations) /\ UNCHANGED layoutVars

\* twin_ws: under the station of the layout; a station that is not known is refused.
OpenTwin(w, s) ==
    /\ IsStation(s) /\ LoadLayout(s)
    /\ Register(w, "twin", s)
    /\ UNCHANGED file

\* notifications_ws: under the subject of the token, which is the id of the user.
Subject(u) == IdOf[u]

OpenNotifications(w, u) == Register(w, "notify", Subject(u)) /\ UNCHANGED layoutVars

\* The connection breaks, and nobody here knows it yet.
Lose(w) ==
    /\ socket[w] = "open"
    /\ socket' = [socket EXCEPT ![w] = "lost"]
    /\ UNCHANGED <<register, sending, heard, inbox, broadcasts, layoutVars>>

\* The reading end notices, and unregisters.
Notice(w) ==
    /\ socket[w] = "lost"
    /\ socket' = [socket EXCEPT ![w] = "shut"]
    /\ register' = [register EXCEPT ![w] = NotThere]
    /\ UNCHANGED <<sending, heard, inbox, broadcasts, layoutVars>>

-----------------------------------------------------------------------------
(* Broadcasts.                                                             *)

Concerns(msg, entry) ==
    /\ entry.ch = msg.ch
    /\ \/ msg.ch = "alert"
       \/ msg.ch = "twin" /\ (msg.label = AllStations \/ entry.label \in {AllStations, msg.label})
       \/ msg.ch = "notify" /\ entry.label = msg.label

\* The register is copied, then gone through.
BeginBroadcast(p, ch, label) ==
    /\ sending[p] = Silent /\ broadcasts < MaxBroadcasts
    /\ broadcasts' = broadcasts + 1
    /\ LET msg == [ch |-> ch, label |-> label]
           due == {w \in Sockets : Concerns(msg, register[w])}
       IN  sending' = [sending EXCEPT ![p] =
                         [no |-> broadcasts + 1, msg |-> msg, due |-> due, left |-> due,
                          dead |-> {}]]
    /\ UNCHANGED <<socket, register, heard>>

\* An alert from outside, or a proposal.
BroadcastAlert(p) == BeginBroadcast(p, "alert", AllStations) /\ UNCHANGED <<inbox, layoutVars>>

\* push_alert_location: of a station, with the place of the device in the layout; an alert
\* no device matches is not sent.
PushAlert(p, s) ==
    /\ IsStation(s) /\ LoadLayout(s)
    /\ BeginBroadcast(p, "twin", s)
    /\ UNCHANGED <<file, inbox>>

\* notify_user: stored first, then sent to the user's name.
Notify(p, u) ==
    /\ BeginBroadcast(p, "notify", u)
    /\ inbox' = [inbox EXCEPT ![u] = @ \cup {broadcasts + 1}]
    /\ UNCHANGED layoutVars

\* Mutant: a socket that fails ends the broadcast.
LeftUntilOneFails(p, w) == IF socket[w] = "open" THEN sending[p].left \ {w} ELSE {}

LeftAfter(p, w) == sending[p].left \ {w}

SendTo(p, w) ==
    /\ sending[p].no > 0 /\ w \in sending[p].left
    /\ heard' = IF socket[w] = "open" THEN [heard EXCEPT ![w] = @ \cup {sending[p].no}] ELSE heard
    /\ sending' = [sending EXCEPT ![p].left = LeftAfter(p, w),
                                  ![p].dead = IF socket[w] = "open" THEN @ ELSE @ \cup {w}]
    /\ UNCHANGED <<socket, register, inbox, broadcasts, layoutVars>>

\* Those that failed are taken off the register.
EndBroadcast(p) ==
    /\ sending[p].no > 0 /\ sending[p].left = {}
    /\ register' = [w \in Sockets |-> IF w \in sending[p].dead THEN NotThere ELSE register[w]]
    /\ sending' = [sending EXCEPT ![p] = Silent]
    /\ UNCHANGED <<socket, heard, inbox, broadcasts, layoutVars>>

LayoutsNext ==
    ListStations \/ \E s \in StationIds : EditLayout(s) \/ Look(s)

SocketsNext ==
    \/ \E s \in StationIds, w \in Sockets : OpenTwin(w, s)
    \/ \E s \in StationIds, p \in Senders : PushAlert(p, s)
    \/ \E w \in Sockets :
          \/ OpenAlerts(w) \/ Lose(w) \/ Notice(w)
          \/ \E u \in Users : OpenNotifications(w, u)
    \/ \E p \in Senders :
          \/ BroadcastAlert(p) \/ EndBroadcast(p)
          \/ \E u \in Users : Notify(p, u)
          \/ \E w \in Sockets : SendTo(p, w)

ScreensSpec == ScreensInit /\ [][LayoutsNext \/ SocketsNext]_screenVars

-----------------------------------------------------------------------------
(* Properties.                                                             *)

Ended(p) == sending[p].no > 0 /\ sending'[p] = Silent

\* Whoever is open and was registered when a broadcast began got it when it ends, however
\* many of the others died or left on the way.
NobodyLeftOut ==
    \A p \in Senders : Ended(p) =>
        \A w \in sending[p].due : socket[w] = "open" => sending[p].no \in heard[w]

\* A socket found dead is off the register once the broadcast has ended: it is tried no more.
DeadAreDropped ==
    \A p \in Senders : Ended(p) => \A w \in sending[p].dead : register'[w] = NotThere

\* The memory of a layout never goes back to an older version of its file, whoever reads it.
LayoutsAdvance == \A s \in StationIds : layout'[s] >= layout[s]

\* People with a screen open hear what concerns them, and what they see does not go back.
ScreensKept == [][NobodyLeftOut /\ DeadAreDropped /\ LayoutsAdvance]_screenVars

\* "With a cache that a change of the file invalidates": what is served is what the file says.
LayoutIsCurrent ==
    \A s \in StationIds : InMemory(s) => layout[s] = file[s]

\* "Who is online gets it at once": a notification concerns the open screens of its user.
OnlineHears ==
    [][\A p \in Senders, u \in Users, w \in Sockets :
          Notify(p, u) /\ register[w] = [ch |-> "notify", label |-> Subject(u)]
              => w \in sending'[p].due]_screenVars
=============================================================================
