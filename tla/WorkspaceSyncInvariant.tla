----------------------- MODULE WorkspaceSyncInvariant -----------------------
(***************************************************************************)
(* The inductive invariant of WorkspaceSync.  Its properties compare what  *)
(* is shown, served and stored when nothing is under way; the invariant    *)
(* says where a change, its announcement and the latest revision are until *)
(* then, and that every copy of a served state is as old as its revision.  *)
(***************************************************************************)
EXTENDS WorkspaceSync

Below(f, g) == \A p \in Path : f[p] <= g[p]

At(t, stages) == pusher[t].at \in stages

(* t holds what it has parsed, or read from the shared state since.        *)
Carries(t) == At(t, {"parsed", "stored", "got", "stamped"})

(* Nothing is newer than the disk.                                         *)
DiskIsLatest ==
  /\ Below(parsed, disk) /\ Below(announced, disk) /\ Below(served.files, disk)
  /\ \A t \in Pusher : Below(pusher[t].files, disk)
  /\ \A e \in {pending, flushing} \ {Nothing} : Below(e.files, disk)
  /\ \A i \in DOMAIN queue : Below(queue[i].files, disk)
  /\ \A a \in answers : Below(a.files, disk)
  /\ shown # Nothing => Below(shown.files, disk)

(* A revision is given to one push.                                        *)
RevisionsAreFresh ==
  /\ served.rev <= revision
  /\ \A t \in Pusher : At(t, {"stamped"}) =>
       pusher[t].rev <= revision /\ pusher[t].rev # served.rev
  /\ \A t, u \in Pusher : t # u /\ At(t, {"stamped"}) /\ At(u, {"stamped"}) =>
       pusher[t].rev # pusher[u].rev

(* Requests, responses and what is shown belong to this connection or to   *)
(* an earlier one.                                                         *)
ConnectionsAreCounted ==
  /\ link = "subscribed" => Len(queue) <= Buffer
  /\ link = "greeted" => queue # <<>>
  /\ \A r \in loads \cup answers : r.conn <= connection
  /\ shown # Nothing => shown.conn <= connection

(* A field that is stated is shown, whatever kind it is of; a full load    *)
(* shows the absent ones too.                                              *)
FieldsAreStated ==
  shown # Nothing =>
    /\ \A p \in Path : Stated(shown.files[p]) # Nothing =>
         /\ shown.owner[p] = Stated(shown.files[p])
         /\ shown.description[p] = Stated(shown.files[p])
    /\ shown.how = "load" =>
         shown.owner = StatedBy(shown.files) /\ shown.content = StatedBy(shown.files)

-----------------------------------------------------------------------------
(* The server, as long as no push overtakes another *)

(* What is stored has been served or is carried by a push that will serve  *)
(* it, and nobody but a push that has just parsed has anything newer.      *)
StoredIsServed ==
  /\ Below(served.files, parsed)
  /\ \A t \in Pusher : ~At(t, {"parsed"}) => Below(pusher[t].files, parsed)
  /\ \A p \in Path :
       \/ served.files[p] = parsed[p]
       \/ \E t \in Pusher : At(t, {"stored", "got", "stamped"}) /\ pusher[t].files[p] = parsed[p]

(* Every change is parsed, or somebody will parse it, or it is known to be *)
(* missed.                                                                 *)
ChangesAreParsed ==
  \A p \in Path :
    \/ p \in missed \cup noticed
    \/ parsed[p] = disk[p]
    \/ \E t \in Pusher : WillParse(t) \/ (At(t, {"parsed"}) /\ pusher[t].files[p] = disk[p])

(* The announcement of the last change of p is still to be made, or a push *)
(* of p carries that change.                                               *)
Unannounced(p) == p \in noticed /\ announced[p] # disk[p]

Announces(t, p) ==
  /\ pusher[t].path = p
  /\ WillParse(t) \/ (Carries(t) /\ pusher[t].files[p] = disk[p])

Announced(p) == p \in silent \/ Unannounced(p) \/ \E t \in Pusher : Announces(t, p)

ChangesAreAnnounced == \A p \in Path : Announced(p) \/ served.files[p] = disk[p]

(* What a handler has written is announced by the push of the handler.     *)
WrittenAreAnnounced ==
  \A p \in written : p \in silent \/ Announces("api", p) \/ served.files[p] = disk[p]

-----------------------------------------------------------------------------
(* Copies of served states, on their way and in the browser *)

CopyOf(r) == [rev |-> r.rev, files |-> r.files]

ServerCopies ==
  {served}
    \cup {CopyOf(pusher[t]) : t \in {u \in Pusher : At(u, {"loaded"})}}
    \cup {CopyOf(e) : e \in {pending, flushing} \ {Nothing}}
    \cup {CopyOf(queue[i]) : i \in DOMAIN queue}

ClientCopies ==
  {CopyOf(a) : a \in {b \in answers : b.conn = connection}}
    \cup {CopyOf(v) : v \in {w \in {shown} \ {Nothing} : w.conn = connection}}

InOrder(C) == \A c, d \in C : c.rev <= d.rev => Below(c.files, d.files)

(* The connection belongs to the running server, or a request does.        *)
Attached == link = "up" \/ \E l \in loads : l.conn = connection

(* The copies of the page, and those of the server, are ordered by their   *)
(* revisions, with what is served as the last; so are both together while  *)
(* the page is attached to the server that has made them.                  *)
CopiesAreOrdered ==
  /\ InOrder(ServerCopies) /\ InOrder(ClientCopies)
  /\ \A c \in ServerCopies : c.rev <= served.rev
  /\ Attached =>
       /\ InOrder(ServerCopies \cup ClientCopies)
       /\ \A c \in ClientCopies : c.rev <= served.rev

(* What is shown is no newer than what is served.  A new connection has    *)
(* its greeting still to receive, which may be older than what is shown,   *)
(* and a full load that is not, unless it was lost.                        *)
ShownIsServed ==
  /\ shown # Nothing => Below(shown.files, served.files)
  /\ \A a \in answers : Below(a.files, served.files)
  /\ link = "up" /\ (shown = Nothing \/ shown.conn # connection) => queue # <<>>
  /\ shown # Nothing /\ shown.conn # connection =>
       /\ \A a \in answers : a.conn = connection => Below(shown.files, a.files)
       /\ link = "up" =>
            (\E r \in loads \cup answers : r.conn = connection) \/ silent = Path

-----------------------------------------------------------------------------
(* A browser whose stream is open *)
Listening == link = "up" /\ ~closed

ShowsCurrent == shown # Nothing /\ shown.conn = connection

(* An event of the revision that is served is on its way, or that revision *)
(* is shown.                                                               *)
LatestIsOnItsWay ==
  \/ \E t \in Pusher : At(t, {"serving"}) \/ (At(t, {"loaded"}) /\ pusher[t].rev = served.rev)
  \/ \E e \in {pending, flushing} \ {Nothing} : e.rev = served.rev
  \/ \E i \in DOMAIN queue : queue[i].rev = served.rev

LatestIsDelivered ==
  /\ link = "greeted" /\ ~closed => LatestIsOnItsWay
  /\ Listening => LatestIsOnItsWay \/ (ShowsCurrent /\ shown.rev = served.rev)

(* An event that names p and carries its last version is on its way, or a  *)
(* full load that will contain it.                                         *)
Names(e, p) == p \in e.changed /\ e.files[p] = disk[p]

Delivers(t, p) ==
  /\ pusher[t].path = p
  /\ \/ At(t, {"serving"}) /\ served.files[p] = disk[p]
     \/ At(t, {"loaded"}) /\ pusher[t].files[p] = disk[p]

EventOnItsWay(p) ==
  \/ \E t \in Pusher : Delivers(t, p)
  \/ \E e \in {pending, flushing} \ {Nothing} : Names(e, p)
  \/ \E i \in DOMAIN queue : Names(queue[i], p)

LoadOnItsWay(p) ==
  \/ \E l \in loads : l.conn = connection /\ served.files[p] = disk[p]
  \/ \E a \in answers : a.conn = connection /\ a.files[p] = disk[p]

ShownRight(p) ==
  ShowsCurrent /\ shown.files[p] = disk[p] /\ shown.owner[p] = Stated(disk[p])

Told(p) == Announced(p) \/ EventOnItsWay(p) \/ LoadOnItsWay(p) \/ ShownRight(p)

BrowserIsTold == Listening => \A p \in Path : Told(p)

(* The same of the contents that a handler has written, which only its own *)
(* event carries, or a full load.                                          *)
CarriesContents(e, p) == Names(e, p) /\ p \in e.contents

ContentRight(p) ==
  /\ ShowsCurrent /\ shown.files[p] = disk[p]
  /\ Stated(disk[p]) # Nothing => shown.content[p] = Stated(disk[p])

ContentTold(p) ==
  \/ p \in silent
  \/ Announces("api", p) \/ Delivers("api", p)
  \/ \E i \in DOMAIN queue : CarriesContents(queue[i], p)
  \/ LoadOnItsWay(p)
  \/ ContentRight(p)

ContentsAreTold == Listening => \A p \in written : ContentTold(p)

-----------------------------------------------------------------------------
(* The order of versions, revisions and connections, and where changes and *)
(* announcements are.                                                      *)
Core ==
  /\ TypeOK
  /\ DiskIsLatest
  /\ RevisionsAreFresh
  /\ ConnectionsAreCounted
  /\ ~overtaken =>
       /\ StoredIsServed
       /\ ChangesAreParsed
       /\ ChangesAreAnnounced
       /\ CopiesAreOrdered
       /\ ShownIsServed
       /\ LatestIsDelivered
       /\ BrowserIsTold

IInv ==
  /\ Core
  /\ FieldsAreStated
  /\ ~overtaken => WrittenAreAnnounced /\ ContentsAreTold
=============================================================================
