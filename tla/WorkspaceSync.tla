--------------------------- MODULE WorkspaceSync ---------------------------
(***************************************************************************)
(* How a change of a workspace file reaches the browser.  Two watchers     *)
(* (fsnotify and polling) and the handlers of the API push: each push      *)
(* parses the workspace, serves the result under the next revision and     *)
(* publishes an event that names the assets its caller knows to have       *)
(* changed.  The hub coalesces the pushes of the watchers and drops a      *)
(* subscriber that does not keep up; the browser admits events and         *)
(* snapshots by connection and revision.                                   *)
(*                                                                         *)
(* One step is one critical section, or one read or write of the disk.     *)
(* Every path is the file of one asset.  An even version of it states an   *)
(* owner and a description and has contents; an odd one has none of the    *)
(* three.  The owner stands for the fields the browser clears of an asset  *)
(* that an event names (meta, columns, tags, owner, incremental_key,       *)
(* parse_error), the description for the other fields that are left out    *)
(* when they are empty, the contents for the text of the file, which most  *)
(* events leave out.                                                       *)
(***************************************************************************)
EXTENDS Naturals, Sequences, FiniteSets

CONSTANTS
  Paths,        \* the number of paths, named 1 .. Paths in their sort order
  Buffer,       \* the capacity of a subscriber's channel
  Nothing,
  MaxChanges,   \* bound: changes of files
  MaxPushes,    \* bound: pushes of a server life
  MaxTroubles   \* bound: failed parses and requests, broken connections, pages
                \* loaded anew and restarts, all together

ASSUME SyncAssumption ==
  /\ Paths \in Nat \ {0}
  /\ Buffer \in Nat \ {0}
  /\ MaxChanges \in Nat /\ MaxPushes \in Nat /\ MaxTroubles \in Nat

VARIABLES
  disk,       \* the version of each file
  noticed,    \* paths with an fsnotify event that is not handled yet
  polled,     \* the snapshot the poller compares with
  recent,     \* Watcher.lastFired: paths fired within the last 500 ms
  suppressed, \* recentServerWrites: paths written by a handler within 3 s
  pusher,     \* the push each of the watchers and a handler is busy with
  parsed,     \* WorkspaceService.state
  revision,   \* WorkspaceCoordinator.revision
  served,     \* WorkspaceCoordinator.state
  pending,    \* Hub.pending: the event whose debounce timer runs
  flushing,   \* the event a timer has taken and not broadcast yet
  link,       \* the event stream: "down", "subscribed", "greeted" or "up"
  closed,     \* the hub has dropped the subscriber
  queue,      \* what the browser has still to receive of the stream
  connection, \* the browser's workspaceConnectionSequence
  loads,      \* requests of the full workspace that are not answered yet
  answers,    \* responses on their way
  shown,      \* what the browser shows: workspaceAtom and its source
  changes, troubles,
  (* history *)
  announced,  \* the version of each path that a push of that path has parsed
  missed,     \* paths whose change nobody is going to parse
  silent,     \* paths whose change no event has announced to the browser
  written,    \* paths that were changed last by a handler of the server
  overtaken   \* a push was overtaken by a later one

server == <<recent, suppressed, pusher, parsed, revision, served>>
hub    == <<pending, flushing>>
stream == <<link, closed, queue>>
bounds == <<changes, troubles>>
client == <<connection, loads, answers, shown>>
history == <<announced, missed, silent, written, overtaken>>
vars == <<disk, noticed, polled, server, hub, stream, client, bounds, history>>

-----------------------------------------------------------------------------
Path == 1 .. Paths
Pusher == {"fsnotify", "poll", "api"}
Files == [Path -> Nat]
Unset == [p \in Path |-> 0]

(* The value a version states of a field that may be absent or empty.      *)
Stated(version) == IF version % 2 = 0 THEN version ELSE Nothing
StatedBy(f) == [p \in Path |-> Stated(f[p])]

(* A state of the workspace under its revision, and the event that         *)
(* publishes it: the assets it names and those whose contents it carries.  *)
Copy == [rev : Nat, files : Files]
Event == [rev : Nat, files : Files, changed : SUBSET Path, contents : SUBSET Path]

(* The full loads of the page.                                             *)
Request == [conn : Nat, why : {"open", "hydrate"}]
Response == [conn : Nat, rev : Nat, files : Files]

(* What the browser shows and where it came from.  The files stand for the *)
(* fields that every event carries (name, type, path, upstreams, ...).     *)
Field == [Path -> Nat \cup {Nothing}]
View == [conn : Nat, rev : Nat, files : Files, owner : Field, description : Field,
         content : Field, how : {"load", "event"}]

ASSUME NothingAssumption == Nothing \notin Event /\ Nothing \notin View

(* Where a push is, the path it is about, and what it holds.               *)
Stage == {"idle", "written", "fired", "parsed", "stored", "got", "stamped", "serving",
          "loaded"}
PushState == [at : Stage, path : Path, files : Files, rev : Nat]

Idle == [at |-> "idle", path |-> 1, files |-> Unset, rev |-> 0]

TypeOK ==
  /\ disk \in Files /\ polled \in Files /\ parsed \in Files
  /\ noticed \subseteq Path /\ recent \subseteq Path /\ suppressed \subseteq Path
  /\ pusher \in [Pusher -> PushState]
  /\ revision \in Nat
  /\ served \in Copy
  /\ pending \in Event \cup {Nothing} /\ flushing \in Event \cup {Nothing}
  /\ link \in {"down", "subscribed", "greeted", "up"} /\ closed \in BOOLEAN
  /\ queue \in Seq(Event) /\ Len(queue) <= Buffer + 1
  /\ connection \in Nat
  /\ loads \subseteq Request /\ answers \subseteq Response
  /\ shown \in View \cup {Nothing}
  /\ announced \in Files /\ missed \subseteq Path /\ silent \subseteq Path
  /\ written \subseteq Path
  /\ overtaken \in BOOLEAN

(* A full load of the files f: every field as they state it.               *)
Loaded(conn, rev, f) ==
  [conn |-> conn, rev |-> rev, files |-> f, owner |-> StatedBy(f),
   description |-> StatedBy(f), content |-> StatedBy(f), how |-> "load"]

(* The server has started: the first refresh is revision 1, the poller has *)
(* its first snapshot.  A page is connected and has loaded the workspace.  *)
Init ==
  /\ disk = Unset /\ noticed = {} /\ polled = disk
  /\ recent = {} /\ suppressed = {}
  /\ pusher = [t \in Pusher |-> Idle]
  /\ parsed = disk /\ revision = 1 /\ served = [rev |-> 1, files |-> disk]
  /\ pending = Nothing /\ flushing = Nothing
  /\ link = "up" /\ closed = FALSE /\ queue = <<>>
  /\ connection = 1 /\ loads = {} /\ answers = {}
  /\ shown = Loaded(1, 1, disk)
  /\ changes = 0 /\ troubles = 0
  /\ announced = Unset /\ missed = {} /\ silent = {}
  /\ written = {} /\ overtaken = FALSE

-----------------------------------------------------------------------------
(* The workspace files *)

Change(p) ==
  /\ disk' = [disk EXCEPT ![p] = @ + 1]
  /\ noticed' = noticed \cup {p}

(* An editor, a script or git changes a file.                              *)
Edit(p) ==
  /\ changes < MaxChanges
  /\ Change(p)
  /\ changes' = changes + 1
  /\ written' = written \ {p}
  /\ UNCHANGED <<troubles, polled, server, hub, stream, client, announced, missed, silent,
                 overtaken>>

-----------------------------------------------------------------------------
(* The watchers *)

(* A push that still has to parse will see the file as it is now.          *)
WillParse(t) == pusher[t].at \in {"written", "fired"}

(* The bound on pushes: every push but a failed one makes a revision.      *)
MayPush ==
  revision + Cardinality({t \in Pusher :
    pusher[t].at \in {"written", "fired", "parsed", "stored", "got"}}) <= MaxPushes

(* A notification that is dropped leaves its change to nobody if no push   *)
(* has parsed it or is going to, and unannounced if none of that path has. *)
Dropped(p) ==
  /\ missed' = IF /\ parsed[p] # disk[p]
                  /\ \A t \in Pusher : ~WillParse(t) /\ pusher[t].files[p] # disk[p]
               THEN missed \cup {p} ELSE missed
  /\ silent' = IF /\ announced[p] # disk[p]
                  /\ \A t \in Pusher : ~(WillParse(t) /\ pusher[t].path = p)
               THEN silent \cup {p} ELSE silent

(* Mutant: one window for all paths.                                       *)
FireAnyPath(t, p) ==
  \/ /\ p \notin recent \cup suppressed /\ recent # {}
     /\ UNCHANGED <<recent, suppressed, pusher, missed, silent>>
  \/ /\ MayPush
     /\ recent' = recent \cup {p}
     /\ suppressed' = suppressed \ {p}
     /\ pusher' = [pusher EXCEPT ![t] = [Idle EXCEPT !.at = "fired", !.path = p]]
     /\ UNCHANGED <<missed, silent>>

(* Watcher.fire and the handler behind it: the push begins unless the path *)
(* was fired within the last 500 ms or written by the server within the    *)
(* last 3 s, which may be over at any time.                                *)
Fire(t, p) ==
  \/ /\ p \in recent \cup suppressed
     /\ recent' = recent \cup {p}
     /\ Dropped(p)
     /\ UNCHANGED <<suppressed, pusher>>
  \/ /\ MayPush
     /\ recent' = recent \cup {p}
     /\ suppressed' = suppressed \ {p}
     /\ pusher' = [pusher EXCEPT ![t] = [Idle EXCEPT !.at = "fired", !.path = p]]
     /\ UNCHANGED <<missed, silent>>

(* The loop of watchFSNotify takes the next event.                         *)
Notice(p) ==
  /\ pusher["fsnotify"].at = "idle" /\ p \in noticed
  /\ noticed' = noticed \ {p}
  /\ Fire("fsnotify", p)
  /\ UNCHANGED <<disk, polled, parsed, revision, served, hub, stream,
                 client, bounds, announced, written, overtaken>>

(* A tick of watchPoll: the first path that differs stands for all of      *)
(* them, and the snapshot advances past every one.                         *)
firstChangedPath ==
  CHOOSE p \in Path :
    polled[p] # disk[p] /\ \A q \in Path : q < p => polled[q] = disk[q]

Poll ==
  /\ pusher["poll"].at = "idle" /\ polled # disk
  /\ Fire("poll", firstChangedPath)
  /\ polled' = disk
  /\ UNCHANGED <<disk, noticed, parsed, revision, served, hub, stream,
                 client, bounds, announced, written, overtaken>>

-----------------------------------------------------------------------------
(* A handler of the API writes a file, tells the watchers to leave it      *)
(* alone, and pushes.                                                      *)

WriteFile(p) ==
  /\ changes < MaxChanges /\ MayPush
  /\ pusher["api"].at = "idle"
  /\ Change(p)
  /\ pusher' = [pusher EXCEPT !["api"] = [Idle EXCEPT !.at = "written", !.path = p]]
  /\ changes' = changes + 1
  /\ written' = written \cup {p}
  /\ UNCHANGED <<troubles, polled, recent, suppressed, parsed, revision, served, hub, stream,
                 client, announced, missed, silent, overtaken>>

SuppressWatcherFor ==
  /\ pusher["api"].at = "written"
  /\ suppressed' = suppressed \cup {pusher["api"].path}
  /\ pusher' = [pusher EXCEPT !["api"].at = "fired"]
  /\ UNCHANGED <<disk, noticed, polled, recent, parsed, revision, served, hub, stream,
                 client, bounds, history>>

-----------------------------------------------------------------------------
(* A push: Refresh, then the event.  Pushes of different callers are not   *)
(* serialized.                                                             *)

Older(f, g) == \E p \in Path : f[p] < g[p]

Advance(t, from, to) ==
  /\ pusher[t].at = from
  /\ pusher' = [pusher EXCEPT ![t].at = to]

(* ComputeState: the workspace is parsed.                                  *)
Parse(t) ==
  /\ pusher[t].at = "fired"
  /\ pusher' = [pusher EXCEPT ![t].at = "parsed", ![t].files = disk]
  /\ announced' = [announced EXCEPT ![pusher[t].path] = disk[pusher[t].path]]
  /\ missed' = {}
  /\ UNCHANGED <<disk, noticed, polled, recent, suppressed, parsed, revision, served,
                 hub, stream, client, bounds, silent, written, overtaken>>

(* A file is half-written: the previous state stays and is pushed again.   *)
ParseFails(t) ==
  /\ troubles < MaxTroubles
  /\ Advance(t, "fired", "serving")
  /\ troubles' = troubles + 1
  /\ missed' = missed \cup {p \in Path : disk[p] # parsed[p]}
  /\ silent' = silent \cup {pusher[t].path}
  /\ UNCHANGED <<changes, disk, noticed, polled, recent, suppressed, parsed, revision, served,
                 hub, stream, client, announced, written, overtaken>>

(* WorkspaceService.SetState and GetState: what was parsed goes through    *)
(* the shared state of the service.                                        *)
Store(t) ==
  /\ Advance(t, "parsed", "stored")
  /\ parsed' = pusher[t].files
  /\ overtaken' = (overtaken \/ Older(pusher[t].files, parsed))
  /\ UNCHANGED <<disk, noticed, polled, recent, suppressed, revision, served, hub,
                 stream, client, bounds, announced, missed, silent, written>>

GetState(t) ==
  /\ pusher[t].at = "stored"
  /\ pusher' = [pusher EXCEPT ![t].at = "got", ![t].files = parsed]
  /\ UNCHANGED <<disk, noticed, polled, recent, suppressed, parsed, revision, served,
                 hub, stream, client, bounds, history>>

(* revision.Add(1) *)
Stamp(t) ==
  /\ pusher[t].at = "got"
  /\ revision' = revision + 1
  /\ pusher' = [pusher EXCEPT ![t].at = "stamped", ![t].rev = revision + 1]
  /\ UNCHANGED <<disk, noticed, polled, recent, suppressed, parsed, served, hub,
                 stream, client, bounds, history>>

(* WorkspaceCoordinator.SetState *)
Serve(t) ==
  /\ Advance(t, "stamped", "serving")
  /\ served' = [rev |-> pusher[t].rev, files |-> pusher[t].files]
  /\ overtaken' = (\/ overtaken
                   \/ pusher[t].rev < served.rev
                   \/ Older(pusher[t].files, served.files))
  /\ UNCHANGED <<disk, noticed, polled, recent, suppressed, parsed, revision, hub,
                 stream, client, bounds, announced, missed, silent, written>>

(* CurrentState: what the event will carry.                                *)
CurrentState(t) ==
  /\ pusher[t].at = "serving"
  /\ pusher' = [pusher EXCEPT ![t] = [at |-> "loaded", path |-> pusher[t].path,
                                      rev |-> served.rev, files |-> served.files]]
  /\ UNCHANGED <<disk, noticed, polled, recent, suppressed, parsed, revision, served,
                 hub, stream, client, bounds, history>>

(* Mutant: the contents are taken out of the event of a handler too.       *)
EventOfStripped(t) ==
  [rev |-> pusher[t].rev, files |-> pusher[t].files, changed |-> {pusher[t].path},
   contents |-> {}]

(* StripAssetContent, and StripAssetContentKeepingIDs for a handler.       *)
EventOf(t) ==
  [rev |-> pusher[t].rev, files |-> pusher[t].files, changed |-> {pusher[t].path},
   contents |-> IF t = "api" THEN {pusher[t].path} ELSE {}]

-----------------------------------------------------------------------------
(* The hub *)

(* Mutant: the event is skipped for a subscriber that does not keep up.    *)
BroadcastSkips(e) ==
  /\ queue' = IF link # "down" /\ ~closed /\ Len(queue) < Buffer
              THEN Append(queue, e) ELSE queue
  /\ UNCHANGED <<link, closed>>

(* Hub.broadcast: a subscriber whose channel is full is dropped.           *)
Subscribed == link # "down" /\ ~closed

Broadcast(e) ==
  /\ queue' = IF Subscribed /\ Len(queue) < Buffer THEN Append(queue, e) ELSE queue
  /\ closed' = (closed \/ (Subscribed /\ Len(queue) >= Buffer))
  /\ UNCHANGED link

(* Hub.Publish: a watcher's event takes the place of the pending one, and  *)
(* the timer starts anew.                                                  *)
Publish(t) ==
  /\ t # "api" /\ pusher[t].at = "loaded"
  /\ pending' = EventOf(t)
  /\ pusher' = [pusher EXCEPT ![t] = Idle]
  /\ silent' = IF pending = Nothing THEN silent
               ELSE silent \cup (pending.changed \ {pusher[t].path})
  /\ overtaken' = (overtaken \/ (pending # Nothing /\ pusher[t].rev < pending.rev))
  /\ UNCHANGED <<disk, noticed, polled, recent, suppressed, parsed, revision, served,
                 flushing, stream, client, bounds, announced, missed, written>>

(* Hub.PublishImmediate: the event of a handler.                           *)
PublishImmediate ==
  /\ pusher["api"].at = "loaded"
  /\ Broadcast(EventOf("api"))
  /\ pusher' = [pusher EXCEPT !["api"] = Idle]
  /\ UNCHANGED <<disk, noticed, polled, recent, suppressed, parsed, revision, served,
                 hub, client, bounds, history>>

(* Hub.flush: the timer takes the pending event, and then broadcasts it.   *)
TakePending ==
  /\ pending # Nothing /\ flushing = Nothing
  /\ flushing' = pending /\ pending' = Nothing
  /\ UNCHANGED <<disk, noticed, polled, server, stream, client, bounds, history>>

Flush ==
  /\ flushing # Nothing
  /\ Broadcast(flushing)
  /\ flushing' = Nothing
  /\ UNCHANGED <<disk, noticed, polled, server, pending, client, bounds, history>>

-----------------------------------------------------------------------------
(* The event stream *)

(* EventSource connects, and HandleEvents subscribes.                      *)
Subscribe ==
  /\ link = "down"
  /\ link' = "subscribed" /\ closed' = FALSE /\ queue' = <<>>
  /\ UNCHANGED <<disk, noticed, polled, server, hub, client, bounds, history>>

(* HandleEvents reads what is served for the greeting, which goes before   *)
(* anything published since.                                               *)
Greet ==
  /\ link = "subscribed"
  /\ link' = "greeted"
  /\ queue' = <<[rev |-> served.rev, files |-> served.files, changed |-> {},
                 contents |-> {}]>> \o queue
  /\ UNCHANGED <<disk, noticed, polled, server, hub, closed, client, bounds, history>>

(* The stream reaches the page (onopen), which begins a connection and     *)
(* asks for the workspace again.                                           *)
Open ==
  /\ link = "greeted"
  /\ link' = "up"
  /\ connection' = connection + 1
  /\ loads' = loads \cup {[conn |-> connection + 1, why |-> "open"]}
  /\ UNCHANGED <<disk, noticed, polled, server, hub, closed, queue, answers, shown, bounds,
                 history>>

(* A dropped subscriber has received all that was queued.                  *)
EndOfStream ==
  /\ link = "up" /\ closed /\ queue = <<>>
  /\ link' = "down"
  /\ UNCHANGED <<disk, noticed, polled, server, hub, closed, queue, client, bounds,
                 history>>

(* The user loads the page anew: it asks for the workspace at once.  (It   *)
(* counts as a change and as a trouble.)                                   *)
LoadPage ==
  /\ troubles < MaxTroubles /\ changes < MaxChanges
  /\ troubles' = troubles + 1 /\ changes' = changes + 1
  /\ link' = "down" /\ queue' = <<>>
  /\ connection' = 0 /\ shown' = Nothing
  /\ loads' = {[conn |-> 0, why |-> "open"]} /\ answers' = {}
  /\ UNCHANGED <<disk, noticed, polled, server, hub, closed, history>>

(* The network breaks the stream: what was queued is lost.                 *)
Disconnect ==
  /\ link # "down" /\ troubles < MaxTroubles
  /\ link' = "down" /\ queue' = <<>>
  /\ troubles' = troubles + 1
  /\ UNCHANGED <<changes, disk, noticed, polled, server, hub, closed, client, history>>

-----------------------------------------------------------------------------
(* The browser *)

(* Mutant: responses are admitted whatever connection asked for them.      *)
AdmitsAnyConnection(conn, rev, how) ==
  (shown # Nothing /\ shown.conn = conn) =>
     rev > shown.rev \/ (rev = shown.rev /\ how = "load")

(* Mutant: a response is taken to be newer than any event.                 *)
AdmitsLoads(conn, rev, how) ==
  /\ conn = connection
  /\ how = "load" \/ shown = Nothing \/ shown.conn # conn \/ rev > shown.rev

(* receiveWorkspaceUpdate admits by connection, then by revision; an event *)
(* of the revision that is shown adds nothing.                             *)
Admits(conn, rev, how) ==
  /\ conn = connection
  /\ (shown # Nothing /\ shown.conn = conn) =>
       rev > shown.rev \/ (rev = shown.rev /\ how = "load")

(* Mutant: a field an event leaves out is kept of every asset.             *)
ClearedKept(e) ==
  [p \in Path |-> IF Stated(e.files[p]) # Nothing \/ shown = Nothing
                  THEN Stated(e.files[p]) ELSE shown.owner[p]]

(* mergeWorkspaceWithPreservedContent: of the fields an event leaves out,  *)
(* six are cleared of the assets the event names, ...                      *)
Cleared(e) ==
  [p \in Path |->
    IF Stated(e.files[p]) # Nothing \/ p \in e.changed \/ shown = Nothing
    THEN Stated(e.files[p]) ELSE shown.owner[p]]

(* ... the others are kept of every asset, ...                             *)
Kept(e) ==
  [p \in Path |-> IF Stated(e.files[p]) # Nothing \/ shown = Nothing
                  THEN Stated(e.files[p]) ELSE shown.description[p]]

(* ... and so are the contents, unless the event carries some.             *)
Contents(e) ==
  [p \in Path |-> IF p \in e.contents /\ Stated(e.files[p]) # Nothing
                  THEN Stated(e.files[p])
                  ELSE IF shown = Nothing THEN Nothing ELSE shown.content[p]]

Merged(e) ==
  [conn |-> connection, rev |-> e.rev, files |-> e.files, owner |-> Cleared(e),
   description |-> Kept(e), content |-> Contents(e), how |-> "event"]

Receive ==
  /\ link = "up" /\ queue # <<>>
  /\ queue' = Tail(queue)
  /\ LET e == Head(queue)
         ok == Admits(connection, e.rev, "event")
     IN  /\ shown' = IF ok THEN Merged(e) ELSE shown
         /\ loads' = IF ok /\ shown = Nothing
                     THEN loads \cup {[conn |-> connection, why |-> "hydrate"]}
                     ELSE loads
         /\ silent' = IF ~ok /\ shown.how = "event" THEN silent \cup e.changed
                      ELSE silent
  /\ UNCHANGED <<disk, noticed, polled, server, hub, link, closed, connection, answers,
                 bounds, announced, missed, written, overtaken>>

(* The server answers a request of the full workspace.                     *)
Answer(l) ==
  /\ l \in loads
  /\ loads' = loads \ {l}
  /\ answers' = answers \cup
       {[conn |-> l.conn, rev |-> served.rev, files |-> served.files]}
  /\ UNCHANGED <<disk, noticed, polled, server, hub, stream, connection, shown, bounds,
                 history>>

(* It fails, and nobody asks again.                                        *)
LoadFails(l) ==
  /\ l \in loads /\ troubles < MaxTroubles
  /\ loads' = loads \ {l}
  /\ troubles' = troubles + 1
  /\ silent' = IF l.conn = connection THEN Path ELSE silent
  /\ UNCHANGED <<changes, disk, noticed, polled, server, hub, stream, connection, answers, shown,
                 announced, missed, written, overtaken>>

(* The response arrives.                                                   *)
Arrive(a) ==
  /\ a \in answers
  /\ answers' = answers \ {a}
  /\ LET ok == Admits(a.conn, a.rev, "load")
     IN  /\ shown' = IF ok THEN Loaded(a.conn, a.rev, a.files) ELSE shown
         /\ silent' = IF ok /\ a.files = disk THEN {}
                      ELSE IF ~ok /\ a.conn = connection THEN Path ELSE silent
  /\ UNCHANGED <<disk, noticed, polled, server, hub, stream, connection, loads, bounds,
                 announced, missed, written, overtaken>>

-----------------------------------------------------------------------------
(* The server stops and starts: it parses the workspace anew, and counts   *)
(* its revisions from 1 again.  Requests of the page fail unless they were *)
(* answered; a push that was overtaken is over, but for such an answer.    *)
Restart ==
  /\ troubles < MaxTroubles
  /\ troubles' = troubles + 1
  /\ noticed' = {} /\ polled' = disk
  /\ recent' = {} /\ suppressed' = {}
  /\ pusher' = [t \in Pusher |-> Idle]
  /\ parsed' = disk /\ revision' = 1 /\ served' = [rev |-> 1, files |-> disk]
  /\ pending' = Nothing /\ flushing' = Nothing
  /\ link' = "down" /\ closed' = FALSE /\ queue' = <<>>
  /\ loads' = {}
  /\ announced' = disk /\ missed' = {}
  /\ overtaken' = (overtaken /\ \E a \in answers : a.conn = connection)
  /\ UNCHANGED <<changes, disk, connection, answers, shown, silent, written>>

Write == SuppressWatcherFor \/ \E p \in Path : Edit(p) \/ WriteFile(p)
Push(t) ==
  \/ Parse(t) \/ ParseFails(t) \/ Store(t) \/ GetState(t) \/ Stamp(t) \/ Serve(t)
  \/ CurrentState(t) \/ Publish(t)
Browse ==
  \/ Receive
  \/ \E l \in loads : Answer(l) \/ LoadFails(l)
  \/ \E a \in answers : Arrive(a)

Next ==
  \/ Write \/ Poll \/ \E p \in Path : Notice(p)
  \/ \E t \in Pusher : Push(t)
  \/ PublishImmediate \/ TakePending \/ Flush
  \/ Subscribe \/ Greet \/ Open \/ EndOfStream \/ Disconnect \/ LoadPage
  \/ Browse \/ Restart

Spec == Init /\ [][Next]_vars

-----------------------------------------------------------------------------
(* Nothing is under way: every notification is handled, every push is done *)
(* and its event delivered.                                                *)
Settled ==
  /\ noticed = {} /\ polled = disk
  /\ \A t \in Pusher : pusher[t].at = "idle"
AllDelivered ==
  /\ Settled
  /\ pending = Nothing /\ flushing = Nothing
  /\ link = "up" /\ ~closed /\ queue = <<>>
  /\ \A r \in loads \cup answers : r.conn # connection

(* Once the watchers are at rest the server serves the files as they are   *)
(* on disk, whatever the polling snapshot skipped and the suppressions     *)
(* dropped, unless a dropped notification was the only one of a change     *)
(* made after the last parse, or an unserialized push overwrote a later    *)
(* one.                                                                    *)
ServedFollowsDisk ==
  Settled /\ ~overtaken =>
    \A p \in Path : served.files[p] = disk[p] \/ p \in missed

(* Once everything is delivered the browser shows the revision the server  *)
(* serves, with every field that it states, and no owner that was removed, *)
(* across coalesced and dropped events, reconnections, requests answered   *)
(* late and restarts; the latter but for assets whose announcement is      *)
(* known to be lost.                                                       *)
FieldsFollow ==
  AllDelivered /\ ~overtaken =>
    /\ shown # Nothing /\ shown.conn = connection
    /\ shown.rev = served.rev /\ shown.files = served.files
    /\ \A p \in Path : Stated(served.files[p]) # Nothing =>
         shown.owner[p] = Stated(served.files[p]) /\ shown.description[p] = Stated(served.files[p])
    /\ \A p \in Path \ silent : shown.owner[p] = Stated(served.files[p])

(* Once everything is delivered the browser shows the contents that a      *)
(* handler has written, whatever the watchers announce of the same file    *)
(* without them, but for assets whose announcement is known to be lost.    *)
(* (Contents that became empty are not shown, and those written by others  *)
(* only after the next full load.)                                         *)
ContentsFollow ==
  AllDelivered /\ ~overtaken =>
    \A p \in written \ silent :
      Stated(served.files[p]) # Nothing => shown.content[p] = Stated(served.files[p])

(* What receiveWorkspaceUpdate and its merge ensure once everything is     *)
(* delivered, although events leave out what is empty and most contents:   *)
(* the two properties above.  Fields that are not cleared when they were   *)
(* removed are in neither (RemovedFieldsAreCleared).                       *)
BrowserFollows == FieldsFollow /\ ContentsFollow

(* A full load of this connection is asked for or on its way, or was lost, *)
(* and its response is no older than what is shown.                        *)
LoadIsUnderWay ==
  \/ \E l \in loads : l.conn = connection
  \/ \E a \in answers : a.conn = connection /\ ~Older(a.files, shown.files)
  \/ silent = Path

(* What the browser shows of an asset goes back to an older version in one *)
(* case only, however responses and events race, and across reconnections  *)
(* and restarts of the server: by the greeting of a new connection, while  *)
(* the full load that repairs it is under way.                             *)
BrowserKeepsUp ==
  [][shown # Nothing /\ shown' # Nothing /\ ~overtaken /\ Older(shown'.files, shown.files) =>
       shown.conn # connection /\ shown'.how = "event" /\ LoadIsUnderWay]_vars

(* The stream reconciles the final state of an asset                       *)
(* (architecture/http-api-assets.md, line 129), also where an edit removes *)
(* a field: once everything is delivered and no announcement is lost, the  *)
(* browser shows no description that the file does not state any more.     *)
RemovedFieldsAreCleared ==
  AllDelivered /\ ~overtaken /\ silent = {} =>
    \A p \in Path : shown.description[p] = Stated(served.files[p])
=============================================================================
