------------------------ MODULE WorkspaceSync_proofs ------------------------
(***************************************************************************)
(* Proofs about WorkspaceSync, for any number of files, changes, pushes    *)
(* and troubles and any buffer: one lemma per action, and the properties.  *)
(***************************************************************************)
EXTENDS WorkspaceSyncInvariant, SequenceTheorems, WellFoundedInduction, TLAPS

-----------------------------------------------------------------------------
(* The order of versions *)

LEMMA Versions ==
  ASSUME NEW f \in Files, NEW p \in Path PROVE f[p] \in Nat
BY DEF Files

LEMMA BelowSelf == \A f \in Files : Below(f, f)
BY DEF Files, Below

LEMMA BelowTrans ==
  \A f, g, h \in Files : Below(f, g) /\ Below(g, h) => Below(f, h)
BY DEF Files, Below

LEMMA BelowBoth == \A f, g \in Files : Below(f, g) /\ Below(g, f) => f = g
BY DEF Files, Below

LEMMA BelowAt ==
  \A f, g \in Files, p \in Path : Below(f, g) => f[p] <= g[p] /\ f[p] \in Nat /\ g[p] \in Nat
BY DEF Files, Below

LEMMA BelowUnset == Unset \in Files /\ \A f \in Files : Below(Unset, f)
BY DEF Files, Below, Unset

LEMMA NotOlder == \A f, g \in Files : ~Older(f, g) => Below(g, f)
BY DEF Files, Below, Older

-----------------------------------------------------------------------------
(* The types of the parts *)

LEMMA IdleType == Idle \in PushState /\ Idle.at = "idle" /\ Idle.files = Unset
<1>1. 1 \in Path
  BY SyncAssumption DEF SyncAssumption, Path
<1>2. QED
  BY <1>1, BelowUnset DEF Idle, PushState, Stage

LEMMA PushType ==
  ASSUME TypeOK, NEW t \in Pusher
  PROVE  /\ pusher[t] \in PushState
         /\ pusher[t].at \in Stage /\ pusher[t].path \in Path
         /\ pusher[t].files \in Files /\ pusher[t].rev \in Nat
BY DEF TypeOK, PushState

LEMMA ServerTypes ==
  ASSUME TypeOK
  PROVE  /\ disk \in Files /\ parsed \in Files /\ announced \in Files
         /\ served \in Copy /\ served.files \in Files /\ served.rev \in Nat
         /\ revision \in Nat
BY DEF TypeOK, Copy

LEMMA EventTypes ==
  ASSUME TypeOK
  PROVE  /\ \A e \in Event : e.rev \in Nat /\ e.files \in Files /\ e.changed \subseteq Path
         /\ \A e \in {pending, flushing} \ {Nothing} : e \in Event
         /\ \A i \in DOMAIN queue : queue[i] \in Event
<1>1. \A e \in Event : e.rev \in Nat /\ e.files \in Files /\ e.changed \subseteq Path
  BY DEF Event
<1>2. QED
  BY <1>1 DEF TypeOK

LEMMA BrowserTypes ==
  ASSUME TypeOK
  PROVE  /\ connection \in Nat
         /\ \A l \in loads : l \in Request /\ l.conn \in Nat
         /\ \A a \in answers : /\ a \in Response
                               /\ a.conn \in Nat /\ a.rev \in Nat /\ a.files \in Files
         /\ shown # Nothing => /\ shown \in View
                               /\ shown.conn \in Nat /\ shown.rev \in Nat
                               /\ shown.files \in Files
BY DEF TypeOK, Request, Response, View

LEMMA CopyTypes ==
  ASSUME TypeOK
  PROVE  \A c \in ServerCopies \cup ClientCopies :
           c \in Copy /\ c.rev \in Nat /\ c.files \in Files
<1>1. \A r : r.rev \in Nat /\ r.files \in Files =>
        CopyOf(r) \in Copy /\ CopyOf(r).rev = r.rev /\ CopyOf(r).files = r.files
  BY DEF CopyOf, Copy
<1>2. \A c \in ServerCopies : c \in Copy
  <2>1. \A t \in Pusher : CopyOf(pusher[t]) \in Copy
    BY PushType, <1>1
  <2>2. /\ \A e \in {pending, flushing} \ {Nothing} : CopyOf(e) \in Copy
        /\ \A i \in DOMAIN queue : CopyOf(queue[i]) \in Copy
    BY EventTypes, <1>1
  <2>3. QED
    BY ServerTypes, <2>1, <2>2 DEF ServerCopies
<1>3. \A c \in ClientCopies : c \in Copy
  BY BrowserTypes, <1>1 DEF ClientCopies
<1>4. QED
  BY <1>2, <1>3 DEF Copy

(* The poller's choice among the paths that differ exists.                 *)
LEMMA FirstChanged ==
  ASSUME TypeOK, polled # disk PROVE firstChangedPath \in Path
<1> DEFINE Differ == {p \in Path : polled[p] # disk[p]}
<1>1. Differ # {} /\ Differ \subseteq Nat
  <2>1. Path \subseteq Nat
    BY SyncAssumption DEF SyncAssumption, Path
  <2>2. \E p \in Path : polled[p] # disk[p]
    BY DEF TypeOK, Files
  <2>3. QED
    BY <2>1, <2>2
<1>2. PICK p \in Differ : \A q \in Differ : <<q, p>> \notin OpToRel(<, Nat)
  BY <1>1, NatLessThanWellFounded, WFMin
<1>3. \A q \in Path : q < p => polled[q] = disk[q]
  BY <1>1, <1>2 DEF OpToRel
<1>4. QED
  BY <1>2, <1>3 DEF firstChangedPath

-----------------------------------------------------------------------------
(* What is kept by a step that leaves the served states where they are *)

LEMMA CopiesKept ==
  ASSUME CopiesAreOrdered, served' = served,
         ServerCopies' \subseteq ServerCopies, ClientCopies' \subseteq ClientCopies,
         Attached' => Attached
  PROVE  CopiesAreOrdered'
BY DEF CopiesAreOrdered, InOrder

(* A later and newer state is served.                                      *)
LEMMA CopiesGrow ==
  ASSUME TypeOK, CopiesAreOrdered, served' \in Copy,
         served.rev < served'.rev, Below(served.files, served'.files),
         ServerCopies' \subseteq ServerCopies \cup {served'}, ClientCopies' = ClientCopies,
         Attached' <=> Attached
  PROVE  CopiesAreOrdered'
<1>1. /\ served'.rev \in Nat /\ served'.files \in Files
      /\ \A c \in ServerCopies \cup ClientCopies : c.rev \in Nat /\ c.files \in Files
      /\ served \in ServerCopies
  BY ServerTypes, CopyTypes DEF Copy, ServerCopies
<1>2. ASSUME NEW c \in ServerCopies PROVE c.rev < served'.rev /\ Below(c.files, served'.files)
  <2>1. c.rev <= served.rev /\ Below(c.files, served.files)
    BY <1>1 DEF CopiesAreOrdered, InOrder
  <2>2. QED
    BY <1>1, <2>1, ServerTypes, BelowTrans
<1>3. ASSUME NEW c \in ClientCopies, Attached
      PROVE  c.rev < served'.rev /\ Below(c.files, served'.files)
  <2>1. c.rev <= served.rev /\ Below(c.files, served.files)
    BY <1>1, <1>3 DEF CopiesAreOrdered, InOrder
  <2>2. QED
    BY <1>1, <2>1, ServerTypes, BelowTrans
<1>4. Below(served'.files, served'.files)
  BY <1>1, BelowSelf
<1>5. InOrder(ServerCopies') /\ \A c \in ServerCopies' : c.rev <= served'.rev
  BY <1>1, <1>2, <1>4 DEF InOrder, CopiesAreOrdered
<1>6. ASSUME Attached
      PROVE  /\ InOrder(ServerCopies' \cup ClientCopies)
             /\ \A c \in ClientCopies : c.rev <= served'.rev
  BY <1>1, <1>2, <1>3, <1>4, <1>6 DEF InOrder, CopiesAreOrdered
<1>7. QED
  BY <1>5, <1>6 DEF CopiesAreOrdered, InOrder

(* A push that does not load, lose or change a loaded event.               *)
LEMMA PushKeepsCopies ==
  ASSUME CopiesAreOrdered,
         UNCHANGED <<served, pending, flushing, queue, link, loads, answers, connection, shown>>,
         \A u \in Pusher : At(u, {"loaded"})' =>
           At(u, {"loaded"}) /\ CopyOf(pusher'[u]) = CopyOf(pusher[u])
  PROVE  CopiesAreOrdered'
<1>1. ServerCopies' \subseteq ServerCopies
  <2> SUFFICES ASSUME NEW c \in ServerCopies' PROVE c \in ServerCopies
    OBVIOUS
  <2>1. CASE \E u \in Pusher : At(u, {"loaded"})' /\ c = CopyOf(pusher'[u])
    BY <2>1 DEF ServerCopies
  <2>2. CASE ~\E u \in Pusher : At(u, {"loaded"})' /\ c = CopyOf(pusher'[u])
    BY <2>2 DEF ServerCopies, CopyOf
  <2>3. QED
    BY <2>1, <2>2
<1>2. ClientCopies' = ClientCopies /\ (Attached' <=> Attached)
  BY DEF ClientCopies, Attached, CopyOf
<1>3. QED
  BY <1>1, <1>2, CopiesKept

(* A step that at most gives up announcements.                             *)
LEMMA ShownKept ==
  ASSUME ShownIsServed, UNCHANGED <<served, link, queue, connection, loads, answers, shown>>,
         silent \subseteq silent', silent' \subseteq Path
  PROVE  ShownIsServed'
<1>1. silent = Path => silent' = Path
  OBVIOUS
<1>2. QED
  BY <1>1 DEF ShownIsServed

(* A push during which no announcement is lost.                            *)
LEMMA PushKeepsTold ==
  ASSUME ChangesAreAnnounced, BrowserIsTold,
         UNCHANGED <<link, closed, disk, served, pending, flushing, queue, loads, answers,
                     connection, shown>>,
         \A p \in Path : Announced(p) => Announced(p)',
         \A u \in Pusher, p \in Path : Delivers(u, p) => Delivers(u, p)'
  PROVE  ChangesAreAnnounced' /\ BrowserIsTold'
<1>1. ChangesAreAnnounced'
  BY DEF ChangesAreAnnounced
<1>2. ASSUME NEW p \in Path, Told(p) PROVE Told(p)'
  <2>1. EventOnItsWay(p) => EventOnItsWay(p)'
    BY DEF EventOnItsWay, Names
  <2>2. (LoadOnItsWay(p) => LoadOnItsWay(p)') /\ (ShownRight(p) => ShownRight(p)')
    BY DEF LoadOnItsWay, ShownRight, ShowsCurrent
  <2>3. QED
    BY <1>2, <2>1, <2>2 DEF Told
<1>3. QED
  BY <1>1, <1>2 DEF BrowserIsTold, Listening


(* The path is left to the handler that has written it.                    *)
LEMMA SuppressStep ==
  ASSUME Core, SuppressWatcherFor
  PROVE  Core'
<1> USE DEF Core
<1>1. UNCHANGED <<disk, noticed, polled, recent, parsed, revision, served,
                  pending, flushing, link, closed, queue, connection, loads,
                  answers, shown, announced, missed, silent, written, overtaken>>
  BY DEF SuppressWatcherFor, server, hub, stream, client, bounds, history
<1>2. /\ pusher["api"].at = "written" /\ pusher'["api"].at = "fired"
      /\ pusher'["api"].path = pusher["api"].path
      /\ pusher'["api"].files = pusher["api"].files /\ pusher'["api"].rev = pusher["api"].rev
      /\ \A u \in Pusher \ {"api"} : pusher'[u] = pusher[u]
      /\ pusher' \in [Pusher -> PushState]
  <2>1. pusher["api"] \in PushState /\ disk \in Files /\ parsed \in Files
        /\ served.files \in Files /\ served.rev \in Nat /\ revision + 1 \in Nat
    BY PushType, ServerTypes DEF Pusher
  <2>2. "api" \in Pusher /\ pusher \in [Pusher -> PushState]
    BY DEF TypeOK, Pusher
  <2> DEFINE row == [pusher["api"] EXCEPT !.at = "fired"]
  <2>3. pusher' = [pusher EXCEPT !["api"] = row] /\ pusher["api"].at = "written"
    BY <2>1, <2>2 DEF SuppressWatcherFor
  <2>4. /\ row \in PushState /\ row.at = "fired" /\ row.path = pusher["api"].path
        /\ row.files = pusher["api"].files /\ row.rev = pusher["api"].rev
    BY <2>1 DEF PushState, Stage
  <2> HIDE DEF row
  <2>5. QED
    BY <2>2, <2>3, <2>4
<1>3. /\ suppressed' \subseteq Path
  BY ServerTypes, PushType, NotOlder DEF SuppressWatcherFor, TypeOK, Pusher
<1>4. TypeOK'
  BY <1>1, <1>2, <1>3, PushType, ServerTypes DEF TypeOK
<1>5. DiskIsLatest'
  BY <1>1, <1>2, <1>3, PushType, ServerTypes, BelowSelf DEF DiskIsLatest
<1>6. RevisionsAreFresh'
  BY <1>1, <1>2, <1>3, PushType, ServerTypes DEF RevisionsAreFresh, At
<1>7. ConnectionsAreCounted'
  BY <1>1 DEF ConnectionsAreCounted
<1>8. ASSUME ~overtaken' PROVE StoredIsServed'
  <2>1. /\ Below(served.files, parsed)'
        /\ \A u \in Pusher : ~At(u, {"parsed"})' => Below(pusher[u].files, parsed)'
    BY <1>1, <1>2, <1>3, <1>8, PushType, ServerTypes, BelowSelf, BelowUnset
       DEF StoredIsServed, At
  <2>2. ASSUME NEW p \in Path, NEW u \in Pusher,
               At(u, {"stored", "got", "stamped"}), pusher[u].files[p] = parsed[p]
        PROVE  \E v \in Pusher : /\ At(v, {"stored", "got", "stamped"})'
                                 /\ pusher'[v].files[p] = parsed'[p]
    BY <1>1, <1>2, <1>3, <1>8, <2>2 DEF At
  <2>3. QED
    BY <1>1, <1>2, <1>3, <1>8, <2>1, <2>2 DEF StoredIsServed
<1>9. ASSUME ~overtaken' PROVE ChangesAreParsed'
  BY <1>1, <1>2, <1>3, <1>9 DEF ChangesAreParsed, WillParse, At
<1>10. ASSUME ~overtaken' PROVE CopiesAreOrdered'
  <2>1. \A u \in Pusher : At(u, {"loaded"})' =>
          At(u, {"loaded"}) /\ CopyOf(pusher'[u]) = CopyOf(pusher[u])
    BY <1>1, <1>2, <1>3, <1>10 DEF At
  <2>2. QED
    BY <1>1, <1>2, <1>3, <1>10, <2>1, PushKeepsCopies
<1>11. ASSUME ~overtaken' PROVE ShownIsServed'
  BY <1>1, <1>2, <1>3, <1>11 DEF ShownIsServed
<1>12. ASSUME ~overtaken' PROVE LatestIsDelivered'
  BY <1>1, <1>2, <1>3, <1>12 DEF LatestIsDelivered, LatestIsOnItsWay, Listening, ShowsCurrent, At
<1>13. ASSUME ~overtaken' PROVE (ChangesAreAnnounced /\ BrowserIsTold)'
  <2>1. ASSUME NEW p \in Path, Announced(p) PROVE Announced(p)'
    BY <1>1, <1>2, <1>3, <1>13, PushType, ServerTypes, <2>1
       DEF Announced, Announces, Unannounced, WillParse, Carries, At
  <2>2. ASSUME NEW u \in Pusher, NEW p \in Path, Delivers(u, p) PROVE Delivers(u, p)'
    BY <1>1, <1>2, <1>3, <1>13, <2>2 DEF Delivers, At
  <2>3. QED
    BY <1>1, <1>2, <1>3, <1>13, <2>1, <2>2, PushKeepsTold
<1>14. QED
  BY <1>4, <1>5, <1>6, <1>7, <1>8, <1>9, <1>10, <1>11, <1>12, <1>13, <1>1

(* All files are read: every change is parsed, and that of the path carried.*)
LEMMA ParseStep ==
  ASSUME Core, NEW t \in Pusher, Parse(t)
  PROVE  Core'
<1> USE DEF Core
<1>1. UNCHANGED <<disk, noticed, polled, recent, suppressed, parsed, revision,
                  served, pending, flushing, link, closed, queue, connection,
                  loads, answers, shown, silent, written, overtaken>>
  BY DEF Parse, server, hub, stream, client, bounds, history
<1>2. /\ pusher[t].at = "fired" /\ pusher'[t].at = "parsed"
      /\ pusher'[t].path = pusher[t].path
      /\ pusher'[t].files = disk /\ pusher'[t].rev = pusher[t].rev
      /\ \A u \in Pusher \ {t} : pusher'[u] = pusher[u]
      /\ pusher' \in [Pusher -> PushState]
  <2>1. pusher[t] \in PushState /\ disk \in Files /\ parsed \in Files
        /\ served.files \in Files /\ served.rev \in Nat /\ revision + 1 \in Nat
    BY PushType, ServerTypes DEF Pusher
  <2>2. t \in Pusher /\ pusher \in [Pusher -> PushState]
    BY DEF TypeOK, Pusher
  <2> DEFINE row == [pusher[t] EXCEPT !.at = "parsed", !.files = disk]
  <2>3. pusher' = [pusher EXCEPT ![t] = row] /\ pusher[t].at = "fired"
    BY <2>1, <2>2 DEF Parse
  <2>4. /\ row \in PushState /\ row.at = "parsed" /\ row.path = pusher[t].path
        /\ row.files = disk /\ row.rev = pusher[t].rev
    BY <2>1 DEF PushState, Stage
  <2> HIDE DEF row
  <2>5. QED
    BY <2>2, <2>3, <2>4
<1>3. /\ announced' \in Files /\ announced'[pusher[t].path] = disk[pusher[t].path]
      /\ \A p \in Path : p = pusher[t].path \/ announced'[p] = announced[p]
      /\ Below(announced', disk)
      /\ missed' = {}
  <2>1. announced \in Files /\ disk \in Files /\ Below(announced, disk) /\ pusher[t].path \in Path
    BY ServerTypes, PushType DEF DiskIsLatest
  <2>2. announced' = [announced EXCEPT ![pusher[t].path] = disk[pusher[t].path]] /\ missed' = {}
    BY DEF Parse
  <2>3. QED
    BY <2>1, <2>2 DEF Below, Files
<1>4. TypeOK'
  BY <1>1, <1>2, <1>3, PushType, ServerTypes DEF TypeOK
<1>5. DiskIsLatest'
  BY <1>1, <1>2, <1>3, PushType, ServerTypes, BelowSelf DEF DiskIsLatest
<1>6. RevisionsAreFresh'
  BY <1>1, <1>2, <1>3, PushType, ServerTypes DEF RevisionsAreFresh, At
<1>7. ConnectionsAreCounted'
  BY <1>1 DEF ConnectionsAreCounted
<1>8. ASSUME ~overtaken' PROVE StoredIsServed'
  <2>1. /\ Below(served.files, parsed)'
        /\ \A u \in Pusher : ~At(u, {"parsed"})' => Below(pusher[u].files, parsed)'
    BY <1>1, <1>2, <1>3, <1>8, PushType, ServerTypes, BelowSelf, BelowUnset
       DEF StoredIsServed, At
  <2>2. ASSUME NEW p \in Path, NEW u \in Pusher,
               At(u, {"stored", "got", "stamped"}), pusher[u].files[p] = parsed[p]
        PROVE  \E v \in Pusher : /\ At(v, {"stored", "got", "stamped"})'
                                 /\ pusher'[v].files[p] = parsed'[p]
    BY <1>1, <1>2, <1>3, <1>8, <2>2 DEF At
  <2>3. QED
    BY <1>1, <1>2, <1>3, <1>8, <2>1, <2>2 DEF StoredIsServed
<1>9. ASSUME ~overtaken' PROVE ChangesAreParsed'
  BY <1>1, <1>2, <1>3, <1>9 DEF ChangesAreParsed, WillParse, At
<1>10. ASSUME ~overtaken' PROVE CopiesAreOrdered'
  <2>1. \A u \in Pusher : At(u, {"loaded"})' =>
          At(u, {"loaded"}) /\ CopyOf(pusher'[u]) = CopyOf(pusher[u])
    BY <1>1, <1>2, <1>3, <1>10 DEF At
  <2>2. QED
    BY <1>1, <1>2, <1>3, <1>10, <2>1, PushKeepsCopies
<1>11. ASSUME ~overtaken' PROVE ShownIsServed'
  BY <1>1, <1>2, <1>3, <1>11 DEF ShownIsServed
<1>12. ASSUME ~overtaken' PROVE LatestIsDelivered'
  BY <1>1, <1>2, <1>3, <1>12 DEF LatestIsDelivered, LatestIsOnItsWay, Listening, ShowsCurrent, At
<1>13. ASSUME ~overtaken' PROVE (ChangesAreAnnounced /\ BrowserIsTold)'
  <2>1. ASSUME NEW p \in Path, Announced(p) PROVE Announced(p)'
    BY <1>1, <1>2, <1>3, <1>13, PushType, ServerTypes, <2>1
       DEF Announced, Announces, Unannounced, WillParse, Carries, At
  <2>2. ASSUME NEW u \in Pusher, NEW p \in Path, Delivers(u, p) PROVE Delivers(u, p)'
    BY <1>1, <1>2, <1>3, <1>13, <2>2 DEF Delivers, At
  <2>3. QED
    BY <1>1, <1>2, <1>3, <1>13, <2>1, <2>2, PushKeepsTold
<1>14. QED
  BY <1>4, <1>5, <1>6, <1>7, <1>8, <1>9, <1>10, <1>11, <1>12, <1>13, <1>1

(* What is not parsed is missed, what is not announced silent.             *)
LEMMA ParseFailsStep ==
  ASSUME Core, NEW t \in Pusher, ParseFails(t)
  PROVE  Core'
<1> USE DEF Core
<1>1. UNCHANGED <<disk, noticed, polled, recent, suppressed, parsed, revision,
                  served, pending, flushing, link, closed, queue, connection,
                  loads, answers, shown, announced, written, overtaken>>
  BY DEF ParseFails, Advance, server, hub, stream, client, bounds, history
<1>2. /\ pusher[t].at = "fired" /\ pusher'[t].at = "serving"
      /\ pusher'[t].path = pusher[t].path
      /\ pusher'[t].files = pusher[t].files /\ pusher'[t].rev = pusher[t].rev
      /\ \A u \in Pusher \ {t} : pusher'[u] = pusher[u]
      /\ pusher' \in [Pusher -> PushState]
  <2>1. pusher[t] \in PushState /\ disk \in Files /\ parsed \in Files
        /\ served.files \in Files /\ served.rev \in Nat /\ revision + 1 \in Nat
    BY PushType, ServerTypes DEF Pusher
  <2>2. t \in Pusher /\ pusher \in [Pusher -> PushState]
    BY DEF TypeOK, Pusher
  <2> DEFINE row == [pusher[t] EXCEPT !.at = "serving"]
  <2>3. pusher' = [pusher EXCEPT ![t] = row] /\ pusher[t].at = "fired"
    BY <2>1, <2>2 DEF ParseFails, Advance
  <2>4. /\ row \in PushState /\ row.at = "serving" /\ row.path = pusher[t].path
        /\ row.files = pusher[t].files /\ row.rev = pusher[t].rev
    BY <2>1 DEF PushState, Stage
  <2> HIDE DEF row
  <2>5. QED
    BY <2>2, <2>3, <2>4
<1>3. /\ missed' = missed \cup {p \in Path : disk[p] # parsed[p]}
      /\ silent' = silent \cup {pusher[t].path}
  BY ServerTypes, PushType, NotOlder DEF ParseFails, Advance, TypeOK, Pusher
<1>4. TypeOK'
  BY <1>1, <1>2, <1>3, PushType, ServerTypes DEF TypeOK
<1>5. DiskIsLatest'
  BY <1>1, <1>2, <1>3, PushType, ServerTypes, BelowSelf DEF DiskIsLatest
<1>6. RevisionsAreFresh'
  BY <1>1, <1>2, <1>3, PushType, ServerTypes DEF RevisionsAreFresh, At
<1>7. ConnectionsAreCounted'
  BY <1>1 DEF ConnectionsAreCounted
<1>8. ASSUME ~overtaken' PROVE StoredIsServed'
  <2>1. /\ Below(served.files, parsed)'
        /\ \A u \in Pusher : ~At(u, {"parsed"})' => Below(pusher[u].files, parsed)'
    BY <1>1, <1>2, <1>3, <1>8, PushType, ServerTypes, BelowSelf, BelowUnset
       DEF StoredIsServed, At
  <2>2. ASSUME NEW p \in Path, NEW u \in Pusher,
               At(u, {"stored", "got", "stamped"}), pusher[u].files[p] = parsed[p]
        PROVE  \E v \in Pusher : /\ At(v, {"stored", "got", "stamped"})'
                                 /\ pusher'[v].files[p] = parsed'[p]
    BY <1>1, <1>2, <1>3, <1>8, <2>2 DEF At
  <2>3. QED
    BY <1>1, <1>2, <1>3, <1>8, <2>1, <2>2 DEF StoredIsServed
<1>9. ASSUME ~overtaken' PROVE ChangesAreParsed'
  BY <1>1, <1>2, <1>3, <1>9 DEF ChangesAreParsed, WillParse, At
<1>10. ASSUME ~overtaken' PROVE CopiesAreOrdered'
  <2>1. \A u \in Pusher : At(u, {"loaded"})' =>
          At(u, {"loaded"}) /\ CopyOf(pusher'[u]) = CopyOf(pusher[u])
    BY <1>1, <1>2, <1>3, <1>10 DEF At
  <2>2. QED
    BY <1>1, <1>2, <1>3, <1>10, <2>1, PushKeepsCopies
<1>11. ASSUME ~overtaken' PROVE ShownIsServed'
  <2>1. silent \subseteq silent' /\ silent' \subseteq Path
    BY <1>3, PushType DEF TypeOK
  <2>2. QED
    BY <1>1, <1>11, <2>1, ShownKept
<1>12. ASSUME ~overtaken' PROVE LatestIsDelivered'
  BY <1>1, <1>2, <1>3, <1>12 DEF LatestIsDelivered, LatestIsOnItsWay, Listening, ShowsCurrent, At
<1>13. ASSUME ~overtaken' PROVE (ChangesAreAnnounced /\ BrowserIsTold)'
  <2>1. ASSUME NEW p \in Path, Announced(p) PROVE Announced(p)'
    BY <1>1, <1>2, <1>3, <1>13, PushType, ServerTypes, <2>1
       DEF Announced, Announces, Unannounced, WillParse, Carries, At
  <2>2. ASSUME NEW u \in Pusher, NEW p \in Path, Delivers(u, p) PROVE Delivers(u, p)'
    BY <1>1, <1>2, <1>3, <1>13, <2>2 DEF Delivers, At
  <2>3. QED
    BY <1>1, <1>2, <1>3, <1>13, <2>1, <2>2, PushKeepsTold
<1>14. QED
  BY <1>4, <1>5, <1>6, <1>7, <1>8, <1>9, <1>10, <1>11, <1>12, <1>13, <1>1

(* What is stored is no older than what was, and is carried by this push.  *)
LEMMA StoreStep ==
  ASSUME Core, NEW t \in Pusher, Store(t)
  PROVE  Core'
<1> USE DEF Core
<1>1. UNCHANGED <<disk, noticed, polled, recent, suppressed, revision, served,
                  pending, flushing, link, closed, queue, connection, loads,
                  answers, shown, announced, missed, silent, written>>
  BY DEF Store, Advance, server, hub, stream, client, bounds, history
<1>2. /\ pusher[t].at = "parsed" /\ pusher'[t].at = "stored"
      /\ pusher'[t].path = pusher[t].path
      /\ pusher'[t].files = pusher[t].files /\ pusher'[t].rev = pusher[t].rev
      /\ \A u \in Pusher \ {t} : pusher'[u] = pusher[u]
      /\ pusher' \in [Pusher -> PushState]
  <2>1. pusher[t] \in PushState /\ disk \in Files /\ parsed \in Files
        /\ served.files \in Files /\ served.rev \in Nat /\ revision + 1 \in Nat
    BY PushType, ServerTypes DEF Pusher
  <2>2. t \in Pusher /\ pusher \in [Pusher -> PushState]
    BY DEF TypeOK, Pusher
  <2> DEFINE row == [pusher[t] EXCEPT !.at = "stored"]
  <2>3. pusher' = [pusher EXCEPT ![t] = row] /\ pusher[t].at = "parsed"
    BY <2>1, <2>2 DEF Store, Advance
  <2>4. /\ row \in PushState /\ row.at = "stored" /\ row.path = pusher[t].path
        /\ row.files = pusher[t].files /\ row.rev = pusher[t].rev
    BY <2>1 DEF PushState, Stage
  <2> HIDE DEF row
  <2>5. QED
    BY <2>2, <2>3, <2>4
<1>3. /\ parsed' = pusher[t].files
      /\ ~overtaken' => ~overtaken /\ Below(parsed, parsed')
      /\ overtaken' \in BOOLEAN
  BY ServerTypes, PushType, NotOlder DEF Store, Advance, TypeOK, Pusher
<1>4. TypeOK'
  BY <1>1, <1>2, <1>3, PushType, ServerTypes DEF TypeOK
<1>5. DiskIsLatest'
  BY <1>1, <1>2, <1>3, PushType, ServerTypes, BelowSelf DEF DiskIsLatest
<1>6. RevisionsAreFresh'
  BY <1>1, <1>2, <1>3, PushType, ServerTypes DEF RevisionsAreFresh, At
<1>7. ConnectionsAreCounted'
  BY <1>1 DEF ConnectionsAreCounted
<1>8. ASSUME ~overtaken' PROVE StoredIsServed'
  <2>1. Below(served.files, parsed)'
    BY <1>1, <1>2, <1>3, <1>8, PushType, ServerTypes, BelowTrans DEF StoredIsServed
  <2>2. ASSUME NEW u \in Pusher, ~At(u, {"parsed"})' PROVE Below(pusher[u].files, parsed)'
    <3>1. CASE u = t
      BY <1>1, <1>2, <1>3, <1>8, PushType, ServerTypes, BelowSelf, <3>1
    <3>2. CASE u # t
      <4>1. Below(pusher[u].files, parsed)
        BY <1>1, <1>2, <1>3, <1>8, <2>2, <3>2 DEF StoredIsServed, At
      <4>2. QED
        BY <1>1, <1>2, <1>3, <1>8, PushType, ServerTypes, BelowTrans, <3>2, <4>1
    <3>3. QED
      BY <3>1, <3>2
  <2>3. At(t, {"stored", "got", "stamped"})' /\ pusher'[t].files = parsed'
    BY <1>1, <1>2, <1>3, <1>8 DEF At
  <2>4. QED
    BY <2>1, <2>2, <2>3 DEF StoredIsServed
<1>9. ASSUME ~overtaken' PROVE ChangesAreParsed'
  <2> SUFFICES ASSUME NEW p \in Path, p \notin missed \cup noticed, parsed'[p] # disk[p]
               PROVE  \E u \in Pusher : \/ WillParse(u)'
                                        \/ At(u, {"parsed"})' /\ pusher'[u].files[p] = disk[p]
    BY <1>1, <1>2, <1>3, <1>9 DEF ChangesAreParsed
  <2>1. parsed[p] # disk[p] /\ pusher[t].files[p] # disk[p]
    <3>1. Below(parsed, pusher[t].files) /\ Below(pusher[t].files, disk)
      BY <1>1, <1>2, <1>3, <1>9 DEF DiskIsLatest
    <3>2. /\ parsed[p] <= pusher[t].files[p] /\ pusher[t].files[p] <= disk[p]
          /\ parsed[p] \in Nat /\ pusher[t].files[p] \in Nat /\ disk[p] \in Nat
      BY PushType, ServerTypes, BelowAt, <3>1
    <3>3. QED
      BY <1>1, <1>2, <1>3, <1>9, <3>2
  <2>2. PICK u \in Pusher : WillParse(u) \/ (At(u, {"parsed"}) /\ pusher[u].files[p] = disk[p])
    BY <1>1, <1>2, <1>3, <1>9, <2>1 DEF ChangesAreParsed
  <2>3. QED
    BY <1>1, <1>2, <1>3, <1>9, <2>1, <2>2 DEF WillParse, At
<1>10. ASSUME ~overtaken' PROVE CopiesAreOrdered'
  <2>1. \A u \in Pusher : At(u, {"loaded"})' =>
          At(u, {"loaded"}) /\ CopyOf(pusher'[u]) = CopyOf(pusher[u])
    BY <1>1, <1>2, <1>3, <1>10 DEF At
  <2>2. QED
    BY <1>1, <1>2, <1>3, <1>10, <2>1, PushKeepsCopies
<1>11. ASSUME ~overtaken' PROVE ShownIsServed'
  BY <1>1, <1>2, <1>3, <1>11 DEF ShownIsServed
<1>12. ASSUME ~overtaken' PROVE LatestIsDelivered'
  BY <1>1, <1>2, <1>3, <1>12 DEF LatestIsDelivered, LatestIsOnItsWay, Listening, ShowsCurrent, At
<1>13. ASSUME ~overtaken' PROVE (ChangesAreAnnounced /\ BrowserIsTold)'
  <2>1. ASSUME NEW p \in Path, Announced(p) PROVE Announced(p)'
    BY <1>1, <1>2, <1>3, <1>13, PushType, ServerTypes, <2>1
       DEF Announced, Announces, Unannounced, WillParse, Carries, At
  <2>2. ASSUME NEW u \in Pusher, NEW p \in Path, Delivers(u, p) PROVE Delivers(u, p)'
    BY <1>1, <1>2, <1>3, <1>13, <2>2 DEF Delivers, At
  <2>3. QED
    BY <1>1, <1>2, <1>3, <1>13, <2>1, <2>2, PushKeepsTold
<1>14. QED
  BY <1>4, <1>5, <1>6, <1>7, <1>8, <1>9, <1>10, <1>11, <1>12, <1>13, <1>3

(* The push goes on with the shared state, which is no older than its own. *)
LEMMA GetStateStep ==
  ASSUME Core, NEW t \in Pusher, GetState(t)
  PROVE  Core'
<1> USE DEF Core
<1>1. UNCHANGED <<disk, noticed, polled, recent, suppressed, parsed, revision,
                  served, pending, flushing, link, closed, queue, connection,
                  loads, answers, shown, announced, missed, silent, written, overtaken>>
  BY DEF GetState, server, hub, stream, client, bounds, history
<1>2. /\ pusher[t].at = "stored" /\ pusher'[t].at = "got"
      /\ pusher'[t].path = pusher[t].path
      /\ pusher'[t].files = parsed /\ pusher'[t].rev = pusher[t].rev
      /\ \A u \in Pusher \ {t} : pusher'[u] = pusher[u]
      /\ pusher' \in [Pusher -> PushState]
  <2>1. pusher[t] \in PushState /\ disk \in Files /\ parsed \in Files
        /\ served.files \in Files /\ served.rev \in Nat /\ revision + 1 \in Nat
    BY PushType, ServerTypes DEF Pusher
  <2>2. t \in Pusher /\ pusher \in [Pusher -> PushState]
    BY DEF TypeOK, Pusher
  <2> DEFINE row == [pusher[t] EXCEPT !.at = "got", !.files = parsed]
  <2>3. pusher' = [pusher EXCEPT ![t] = row] /\ pusher[t].at = "stored"
    BY <2>1, <2>2 DEF GetState
  <2>4. /\ row \in PushState /\ row.at = "got" /\ row.path = pusher[t].path
        /\ row.files = parsed /\ row.rev = pusher[t].rev
    BY <2>1 DEF PushState, Stage
  <2> HIDE DEF row
  <2>5. QED
    BY <2>2, <2>3, <2>4
<1>4. TypeOK'
  BY <1>1, <1>2, PushType, ServerTypes DEF TypeOK
<1>5. DiskIsLatest'
  BY <1>1, <1>2, PushType, ServerTypes, BelowSelf DEF DiskIsLatest
<1>6. RevisionsAreFresh'
  BY <1>1, <1>2, PushType, ServerTypes DEF RevisionsAreFresh, At
<1>7. ConnectionsAreCounted'
  BY <1>1 DEF ConnectionsAreCounted
<1>8. ASSUME ~overtaken' PROVE StoredIsServed'
  <2>1. /\ Below(served.files, parsed)'
        /\ \A u \in Pusher : ~At(u, {"parsed"})' => Below(pusher[u].files, parsed)'
    BY <1>1, <1>2, <1>8, PushType, ServerTypes, BelowSelf, BelowUnset
       DEF StoredIsServed, At
  <2>2. ASSUME NEW p \in Path, NEW u \in Pusher,
               At(u, {"stored", "got", "stamped"}), pusher[u].files[p] = parsed[p]
        PROVE  \E v \in Pusher : /\ At(v, {"stored", "got", "stamped"})'
                                 /\ pusher'[v].files[p] = parsed'[p]
    BY <1>1, <1>2, <1>8, <2>2 DEF At
  <2>3. QED
    BY <1>1, <1>2, <1>8, <2>1, <2>2 DEF StoredIsServed
<1>9. ASSUME ~overtaken' PROVE ChangesAreParsed'
  BY <1>1, <1>2, <1>9 DEF ChangesAreParsed, WillParse, At
<1>10. ASSUME ~overtaken' PROVE CopiesAreOrdered'
  <2>1. \A u \in Pusher : At(u, {"loaded"})' =>
          At(u, {"loaded"}) /\ CopyOf(pusher'[u]) = CopyOf(pusher[u])
    BY <1>1, <1>2, <1>10 DEF At
  <2>2. QED
    BY <1>1, <1>2, <1>10, <2>1, PushKeepsCopies
<1>11. ASSUME ~overtaken' PROVE ShownIsServed'
  BY <1>1, <1>2, <1>11 DEF ShownIsServed
<1>12. ASSUME ~overtaken' PROVE LatestIsDelivered'
  BY <1>1, <1>2, <1>12 DEF LatestIsDelivered, LatestIsOnItsWay, Listening, ShowsCurrent, At
<1>13. ASSUME ~overtaken' PROVE (ChangesAreAnnounced /\ BrowserIsTold)'
  <2>1. ASSUME NEW p \in Path, pusher[t].files[p] = disk[p] PROVE parsed[p] = disk[p]
    <3>1. Below(pusher[t].files, parsed) /\ Below(parsed, disk)
      BY <1>1, <1>2, <1>13 DEF StoredIsServed, DiskIsLatest, At
    <3>2. QED
      BY PushType, ServerTypes, BelowAt, <2>1, <3>1
  <2>2. ASSUME NEW p \in Path, Announced(p) PROVE Announced(p)'
    BY <1>1, <1>2, <1>13, PushType, ServerTypes, <2>1, <2>2
       DEF Announced, Announces, Unannounced, WillParse, Carries, At
  <2>3. ASSUME NEW u \in Pusher, NEW p \in Path, Delivers(u, p) PROVE Delivers(u, p)'
    BY <1>1, <1>2, <1>13, <2>3 DEF Delivers, At
  <2>4. QED
    BY <1>1, <1>2, <1>13, <2>2, <2>3, PushKeepsTold
<1>14. QED
  BY <1>4, <1>5, <1>6, <1>7, <1>8, <1>9, <1>10, <1>11, <1>12, <1>13, <1>1

(* The revision is new.                                                    *)
LEMMA StampStep ==
  ASSUME Core, NEW t \in Pusher, Stamp(t)
  PROVE  Core'
<1> USE DEF Core
<1>1. UNCHANGED <<disk, noticed, polled, recent, suppressed, parsed, served,
                  pending, flushing, link, closed, queue, connection, loads,
                  answers, shown, announced, missed, silent, written, overtaken>>
  BY DEF Stamp, server, hub, stream, client, bounds, history
<1>2. /\ pusher[t].at = "got" /\ pusher'[t].at = "stamped"
      /\ pusher'[t].path = pusher[t].path
      /\ pusher'[t].files = pusher[t].files /\ pusher'[t].rev = revision + 1
      /\ \A u \in Pusher \ {t} : pusher'[u] = pusher[u]
      /\ pusher' \in [Pusher -> PushState]
  <2>1. pusher[t] \in PushState /\ disk \in Files /\ parsed \in Files
        /\ served.files \in Files /\ served.rev \in Nat /\ revision + 1 \in Nat
    BY PushType, ServerTypes DEF Pusher
  <2>2. t \in Pusher /\ pusher \in [Pusher -> PushState]
    BY DEF TypeOK, Pusher
  <2> DEFINE row == [pusher[t] EXCEPT !.at = "stamped", !.rev = revision + 1]
  <2>3. pusher' = [pusher EXCEPT ![t] = row] /\ pusher[t].at = "got"
    BY <2>1, <2>2 DEF Stamp
  <2>4. /\ row \in PushState /\ row.at = "stamped" /\ row.path = pusher[t].path
        /\ row.files = pusher[t].files /\ row.rev = revision + 1
    BY <2>1 DEF PushState, Stage
  <2> HIDE DEF row
  <2>5. QED
    BY <2>2, <2>3, <2>4
<1>3. /\ revision' = revision + 1
  BY ServerTypes, PushType, NotOlder DEF Stamp, TypeOK, Pusher
<1>4. TypeOK'
  BY <1>1, <1>2, <1>3, PushType, ServerTypes DEF TypeOK
<1>5. DiskIsLatest'
  BY <1>1, <1>2, <1>3, PushType, ServerTypes, BelowSelf DEF DiskIsLatest
<1>6. RevisionsAreFresh'
  BY <1>1, <1>2, <1>3, PushType, ServerTypes DEF RevisionsAreFresh, At
<1>7. ConnectionsAreCounted'
  BY <1>1 DEF ConnectionsAreCounted
<1>8. ASSUME ~overtaken' PROVE StoredIsServed'
  <2>1. /\ Below(served.files, parsed)'
        /\ \A u \in Pusher : ~At(u, {"parsed"})' => Below(pusher[u].files, parsed)'
    BY <1>1, <1>2, <1>3, <1>8, PushType, ServerTypes, BelowSelf, BelowUnset
       DEF StoredIsServed, At
  <2>2. ASSUME NEW p \in Path, NEW u \in Pusher,
               At(u, {"stored", "got", "stamped"}), pusher[u].files[p] = parsed[p]
        PROVE  \E v \in Pusher : /\ At(v, {"stored", "got", "stamped"})'
                                 /\ pusher'[v].files[p] = parsed'[p]
    BY <1>1, <1>2, <1>3, <1>8, <2>2 DEF At
  <2>3. QED
    BY <1>1, <1>2, <1>3, <1>8, <2>1, <2>2 DEF StoredIsServed
<1>9. ASSUME ~overtaken' PROVE ChangesAreParsed'
  BY <1>1, <1>2, <1>3, <1>9 DEF ChangesAreParsed, WillParse, At
<1>10. ASSUME ~overtaken' PROVE CopiesAreOrdered'
  <2>1. \A u \in Pusher : At(u, {"loaded"})' =>
          At(u, {"loaded"}) /\ CopyOf(pusher'[u]) = CopyOf(pusher[u])
    BY <1>1, <1>2, <1>3, <1>10 DEF At
  <2>2. QED
    BY <1>1, <1>2, <1>3, <1>10, <2>1, PushKeepsCopies
<1>11. ASSUME ~overtaken' PROVE ShownIsServed'
  BY <1>1, <1>2, <1>3, <1>11 DEF ShownIsServed
<1>12. ASSUME ~overtaken' PROVE LatestIsDelivered'
  BY <1>1, <1>2, <1>3, <1>12 DEF LatestIsDelivered, LatestIsOnItsWay, Listening, ShowsCurrent, At
<1>13. ASSUME ~overtaken' PROVE (ChangesAreAnnounced /\ BrowserIsTold)'
  <2>1. ASSUME NEW p \in Path, Announced(p) PROVE Announced(p)'
    BY <1>1, <1>2, <1>3, <1>13, PushType, ServerTypes, <2>1
       DEF Announced, Announces, Unannounced, WillParse, Carries, At
  <2>2. ASSUME NEW u \in Pusher, NEW p \in Path, Delivers(u, p) PROVE Delivers(u, p)'
    BY <1>1, <1>2, <1>3, <1>13, <2>2 DEF Delivers, At
  <2>3. QED
    BY <1>1, <1>2, <1>3, <1>13, <2>1, <2>2, PushKeepsTold
<1>14. QED
  BY <1>4, <1>5, <1>6, <1>7, <1>8, <1>9, <1>10, <1>11, <1>12, <1>13, <1>1

(* The served state is replaced by a newer one of a later revision.        *)
LEMMA ServeStep ==
  ASSUME Core, NEW t \in Pusher, Serve(t)
  PROVE  Core'
<1> USE DEF Core
<1>1. UNCHANGED <<disk, noticed, polled, recent, suppressed, parsed, revision,
                  pending, flushing, link, closed, queue, connection, loads,
                  answers, shown, announced, missed, silent, written>>
  BY DEF Serve, Advance, server, hub, stream, client, bounds, history
<1>2. /\ pusher[t].at = "stamped" /\ pusher'[t].at = "serving"
      /\ pusher'[t].path = pusher[t].path
      /\ pusher'[t].files = pusher[t].files /\ pusher'[t].rev = pusher[t].rev
      /\ \A u \in Pusher \ {t} : pusher'[u] = pusher[u]
      /\ pusher' \in [Pusher -> PushState]
  <2>1. pusher[t] \in PushState /\ disk \in Files /\ parsed \in Files
        /\ served.files \in Files /\ served.rev \in Nat /\ revision + 1 \in Nat
    BY PushType, ServerTypes DEF Pusher
  <2>2. t \in Pusher /\ pusher \in [Pusher -> PushState]
    BY DEF TypeOK, Pusher
  <2> DEFINE row == [pusher[t] EXCEPT !.at = "serving"]
  <2>3. pusher' = [pusher EXCEPT ![t] = row] /\ pusher[t].at = "stamped"
    BY <2>1, <2>2 DEF Serve, Advance
  <2>4. /\ row \in PushState /\ row.at = "serving" /\ row.path = pusher[t].path
        /\ row.files = pusher[t].files /\ row.rev = pusher[t].rev
    BY <2>1 DEF PushState, Stage
  <2> HIDE DEF row
  <2>5. QED
    BY <2>2, <2>3, <2>4
<1>3. /\ served' = [rev |-> pusher[t].rev, files |-> pusher[t].files]
      /\ ~overtaken' => /\ ~overtaken /\ served.rev <= pusher[t].rev
                         /\ Below(served.files, pusher[t].files)
      /\ overtaken' \in BOOLEAN
      /\ served' \in Copy /\ served'.files = pusher[t].files /\ served'.rev = pusher[t].rev
  BY ServerTypes, PushType, NotOlder DEF Serve, Advance, TypeOK, Pusher, Copy
<1>4. TypeOK'
  BY <1>1, <1>2, <1>3, PushType, ServerTypes DEF TypeOK
<1>5. DiskIsLatest'
  BY <1>1, <1>2, <1>3, PushType, ServerTypes, BelowSelf DEF DiskIsLatest
<1>6. RevisionsAreFresh'
  BY <1>1, <1>2, <1>3, PushType, ServerTypes DEF RevisionsAreFresh, At
<1>7. ConnectionsAreCounted'
  BY <1>1 DEF ConnectionsAreCounted
<1>8. ASSUME ~overtaken' PROVE StoredIsServed'
  <2>1. Below(served.files, parsed) /\ Below(pusher[t].files, parsed)
    BY <1>1, <1>2, <1>3, <1>8 DEF StoredIsServed, At
  <2>2. ASSUME NEW u \in Pusher, ~At(u, {"parsed"})' PROVE Below(pusher[u].files, parsed)'
    BY <1>1, <1>2, <1>3, <1>8, <2>1, <2>2 DEF StoredIsServed, At
  <2>3. ASSUME NEW p \in Path,
               ~\E u \in Pusher : /\ At(u, {"stored", "got", "stamped"})'
                                  /\ pusher'[u].files[p] = parsed[p]
        PROVE  pusher[t].files[p] = parsed[p]
    <3>1. CASE served.files[p] = parsed[p]
      BY <1>1, <1>2, <1>3, <1>8, PushType, ServerTypes, BelowAt, <2>1, <3>1
    <3>2. CASE served.files[p] # parsed[p]
      BY <1>1, <1>2, <1>3, <1>8, <2>3, <3>2 DEF StoredIsServed, At
    <3>3. QED
      BY <3>1, <3>2
  <2>4. QED
    BY <1>1, <1>2, <1>3, <1>8, <2>1, <2>2, <2>3 DEF StoredIsServed
<1>9. ASSUME ~overtaken' PROVE ChangesAreParsed'
  BY <1>1, <1>2, <1>3, <1>9 DEF ChangesAreParsed, WillParse, At
<1>10. ASSUME ~overtaken' PROVE CopiesAreOrdered'
  <2>1. served.rev < served'.rev
    BY <1>1, <1>2, <1>3, <1>10, PushType, ServerTypes DEF RevisionsAreFresh, At
  <2>2. ServerCopies' \subseteq ServerCopies \cup {served'}
    BY <1>1, <1>2, <1>3, <1>10 DEF ServerCopies, CopyOf, At
  <2>3. ClientCopies' = ClientCopies /\ (Attached' <=> Attached)
    BY <1>1, <1>2, <1>3, <1>10 DEF ClientCopies, Attached, CopyOf
  <2>4. QED
    BY <1>1, <1>2, <1>3, <1>10, <2>1, <2>2, <2>3, CopiesGrow
<1>11. ASSUME ~overtaken' PROVE ShownIsServed'
  <2>1. Below(served.files, served'.files)
    BY <1>1, <1>2, <1>3, <1>11
  <2>2. QED
    BY <1>1, <1>2, <1>3, <1>11, PushType, ServerTypes, <2>1, BrowserTypes, BelowTrans
       DEF ShownIsServed
<1>12. ASSUME ~overtaken' PROVE LatestIsDelivered'
  BY <1>1, <1>2, <1>3, <1>12 DEF LatestIsDelivered, LatestIsOnItsWay, Listening, ShowsCurrent, At
<1>13. ASSUME ~overtaken' PROVE (ChangesAreAnnounced /\ BrowserIsTold)'
  <2>1. ASSUME NEW p \in Path, served.files[p] = disk[p] PROVE pusher[t].files[p] = disk[p]
    <3>1. Below(served.files, pusher[t].files) /\ Below(pusher[t].files, disk)
      BY <1>1, <1>2, <1>3, <1>13 DEF DiskIsLatest
    <3>2. QED
      BY PushType, ServerTypes, BelowAt, <2>1, <3>1
  <2>2. ASSUME NEW p \in Path, Announced(p)
        PROVE  Announced(p)' \/ (served'.files[p] = disk[p] /\ Delivers(t, p)')
    BY <1>1, <1>2, <1>3, <1>13, PushType, ServerTypes, <2>2
       DEF Announced, Announces, Unannounced, WillParse, Carries, At, Delivers
  <2>3. ASSUME NEW p \in Path, EventOnItsWay(p) PROVE EventOnItsWay(p)'
    <3>1. ASSUME NEW u \in Pusher, Delivers(u, p) PROVE Delivers(u, p)'
      BY <1>1, <1>2, <1>3, <1>13, <2>1, <3>1 DEF Delivers, At
    <3>2. QED
      BY <1>1, <1>2, <1>3, <1>13, <2>3, <3>1 DEF EventOnItsWay, Names
  <2>4. ASSUME NEW p \in Path PROVE /\ LoadOnItsWay(p) => LoadOnItsWay(p)'
                                    /\ ShownRight(p) => ShownRight(p)'
    BY <1>1, <1>2, <1>3, <1>13, <2>1 DEF LoadOnItsWay, ShownRight, ShowsCurrent
  <2>5. ASSUME NEW p \in Path, Told(p) PROVE Told(p)'
    BY <1>1, <1>2, <1>3, <1>13, <2>2, <2>3, <2>4, <2>5 DEF Told, EventOnItsWay
  <2>6. QED
    BY <1>1, <1>2, <1>3, <1>13, <2>1, <2>2, <2>5
       DEF ChangesAreAnnounced, BrowserIsTold, Listening
<1>14. QED
  BY <1>4, <1>5, <1>6, <1>7, <1>8, <1>9, <1>10, <1>11, <1>12, <1>13, <1>3

(* The event is a copy of what is served.                                  *)
LEMMA CurrentStateStep ==
  ASSUME Core, NEW t \in Pusher, CurrentState(t)
  PROVE  Core'
<1> USE DEF Core
<1>1. UNCHANGED <<disk, noticed, polled, recent, suppressed, parsed, revision,
                  served, pending, flushing, link, closed, queue, connection,
                  loads, answers, shown, announced, missed, silent, written, overtaken>>
  BY DEF CurrentState, server, hub, stream, client, bounds, history
<1>2. /\ pusher[t].at = "serving" /\ pusher'[t].at = "loaded"
      /\ pusher'[t].path = pusher[t].path
      /\ pusher'[t].files = served.files /\ pusher'[t].rev = served.rev
      /\ \A u \in Pusher \ {t} : pusher'[u] = pusher[u]
      /\ pusher' \in [Pusher -> PushState]
  <2>1. pusher[t] \in PushState /\ disk \in Files /\ parsed \in Files
        /\ served.files \in Files /\ served.rev \in Nat /\ revision + 1 \in Nat
    BY PushType, ServerTypes DEF Pusher
  <2>2. t \in Pusher /\ pusher \in [Pusher -> PushState]
    BY DEF TypeOK, Pusher
  <2> DEFINE row == [at |-> "loaded", path |-> pusher[t].path,
                  rev |-> served.rev, files |-> served.files]
  <2>3. pusher' = [pusher EXCEPT ![t] = row] /\ pusher[t].at = "serving"
    BY <2>1, <2>2 DEF CurrentState
  <2>4. /\ row \in PushState /\ row.at = "loaded" /\ row.path = pusher[t].path
        /\ row.files = served.files /\ row.rev = served.rev
    BY <2>1 DEF PushState, Stage
  <2> HIDE DEF row
  <2>5. QED
    BY <2>2, <2>3, <2>4
<1>4. TypeOK'
  BY <1>1, <1>2, PushType, ServerTypes DEF TypeOK
<1>5. DiskIsLatest'
  BY <1>1, <1>2, PushType, ServerTypes, BelowSelf DEF DiskIsLatest
<1>6. RevisionsAreFresh'
  BY <1>1, <1>2, PushType, ServerTypes DEF RevisionsAreFresh, At
<1>7. ConnectionsAreCounted'
  BY <1>1 DEF ConnectionsAreCounted
<1>8. ASSUME ~overtaken' PROVE StoredIsServed'
  <2>1. /\ Below(served.files, parsed)'
        /\ \A u \in Pusher : ~At(u, {"parsed"})' => Below(pusher[u].files, parsed)'
    BY <1>1, <1>2, <1>8, PushType, ServerTypes, BelowSelf, BelowUnset
       DEF StoredIsServed, At
  <2>2. ASSUME NEW p \in Path, NEW u \in Pusher,
               At(u, {"stored", "got", "stamped"}), pusher[u].files[p] = parsed[p]
        PROVE  \E v \in Pusher : /\ At(v, {"stored", "got", "stamped"})'
                                 /\ pusher'[v].files[p] = parsed'[p]
    BY <1>1, <1>2, <1>8, <2>2 DEF At
  <2>3. QED
    BY <1>1, <1>2, <1>8, <2>1, <2>2 DEF StoredIsServed
<1>9. ASSUME ~overtaken' PROVE ChangesAreParsed'
  BY <1>1, <1>2, <1>9 DEF ChangesAreParsed, WillParse, At
<1>10. ASSUME ~overtaken' PROVE CopiesAreOrdered'
  <2>1. CopyOf(pusher'[t]) = served
    BY <1>1, <1>2, <1>10, PushType, ServerTypes DEF CopyOf, Copy
  <2>2. ServerCopies' \subseteq ServerCopies
    <3>1. ASSUME NEW u \in Pusher, At(u, {"loaded"})' PROVE CopyOf(pusher'[u]) \in ServerCopies
      BY <1>1, <1>2, <1>10, <2>1, <3>1 DEF ServerCopies, At
    <3>2. SUFFICES ASSUME NEW c \in ServerCopies' PROVE c \in ServerCopies
      OBVIOUS
    <3>3. CASE \E u \in Pusher : At(u, {"loaded"})' /\ c = CopyOf(pusher'[u])
      BY <3>1, <3>3
    <3>4. CASE ~\E u \in Pusher : At(u, {"loaded"})' /\ c = CopyOf(pusher'[u])
      BY <1>1, <1>2, <1>10, <3>4 DEF ServerCopies, CopyOf
    <3>5. QED
      BY <3>3, <3>4
  <2>3. ClientCopies' = ClientCopies /\ (Attached' <=> Attached)
    BY <1>1, <1>2, <1>10 DEF ClientCopies, Attached, CopyOf
  <2>4. QED
    BY <1>1, <1>2, <1>10, <2>2, <2>3, CopiesKept
<1>11. ASSUME ~overtaken' PROVE ShownIsServed'
  BY <1>1, <1>2, <1>11 DEF ShownIsServed
<1>12. ASSUME ~overtaken' PROVE LatestIsDelivered'
  BY <1>1, <1>2, <1>12 DEF LatestIsDelivered, LatestIsOnItsWay, Listening, ShowsCurrent, At
<1>13. ASSUME ~overtaken' PROVE (ChangesAreAnnounced /\ BrowserIsTold)'
  <2>1. ASSUME NEW p \in Path, Announced(p) PROVE Announced(p)'
    BY <1>1, <1>2, <1>13, PushType, ServerTypes, <2>1
       DEF Announced, Announces, Unannounced, WillParse, Carries, At
  <2>2. ASSUME NEW u \in Pusher, NEW p \in Path, Delivers(u, p) PROVE Delivers(u, p)'
    BY <1>1, <1>2, <1>13, <2>2 DEF Delivers, At
  <2>3. QED
    BY <1>1, <1>2, <1>13, <2>1, <2>2, PushKeepsTold
<1>14. QED
  BY <1>4, <1>5, <1>6, <1>7, <1>8, <1>9, <1>10, <1>11, <1>12, <1>13, <1>1

-----------------------------------------------------------------------------
(* The files and the watchers *)

(* A file changes, and a handler may have begun its push of it.            *)
LEMMA ChangeKeeps ==
  ASSUME Core, NEW p \in Path, Change(p),
         pusher' \in [Pusher -> PushState],
         \A u \in Pusher : \/ pusher'[u] = pusher[u]
                           \/ /\ pusher[u].at = "idle" /\ pusher'[u].at = "written"
                              /\ pusher'[u].files = Unset,
         UNCHANGED <<polled, recent, suppressed, parsed, revision, served, hub, stream,
                     client, announced, missed, silent, overtaken>>,
         written' \subseteq Path
  PROVE  Core'
<1> USE DEF Core, hub, stream, client
<1>1. /\ disk' \in Files /\ Below(disk, disk') /\ disk'[p] = disk[p] + 1
      /\ \A q \in Path \ {p} : disk'[q] = disk[q]
      /\ noticed' = noticed \cup {p}
  <2>1. disk' = [disk EXCEPT ![p] = @ + 1] /\ noticed' = noticed \cup {p} /\ disk \in Files
    BY ServerTypes DEF Change
  <2>2. QED
    BY <2>1 DEF Files, Below
<1>2. TypeOK'
  BY <1>1 DEF TypeOK
<1>3. DiskIsLatest'
  <2>1. \A f \in Files : Below(f, disk) => Below(f, disk')
    BY <1>1, ServerTypes, BelowTrans
  <2>2. \A u \in Pusher : Below(pusher'[u].files, disk')
    BY <1>1, <2>1, PushType, BelowUnset DEF DiskIsLatest
  <2>3. QED
    BY <2>1, <2>2, ServerTypes, EventTypes, BrowserTypes DEF DiskIsLatest
<1>4. RevisionsAreFresh' /\ ConnectionsAreCounted'
  BY DEF RevisionsAreFresh, ConnectionsAreCounted, At
<1>5. ASSUME ~overtaken' PROVE StoredIsServed'
  <2>1. \A u \in Pusher : ~At(u, {"parsed"})' => Below(pusher'[u].files, parsed)
    BY <1>5, ServerTypes, BelowUnset DEF StoredIsServed, At
  <2>2. ASSUME NEW q \in Path, NEW u \in Pusher,
               At(u, {"stored", "got", "stamped"}), pusher[u].files[q] = parsed[q]
        PROVE  At(u, {"stored", "got", "stamped"})' /\ pusher'[u].files[q] = parsed[q]
    BY <2>2 DEF At
  <2>3. QED
    BY <1>5, <2>1, <2>2 DEF StoredIsServed
<1>6. ASSUME ~overtaken' PROVE ChangesAreParsed'
  BY <1>1, <1>6 DEF ChangesAreParsed, WillParse, At
<1>7. ASSUME ~overtaken' PROVE CopiesAreOrdered'
  <2>1. \A u \in Pusher : At(u, {"loaded"})' =>
          At(u, {"loaded"}) /\ CopyOf(pusher'[u]) = CopyOf(pusher[u])
    BY DEF At
  <2>2. QED
    BY <1>7, <2>1, PushKeepsCopies
<1>8. ASSUME ~overtaken' PROVE ShownIsServed' /\ LatestIsDelivered'
  BY <1>8 DEF ShownIsServed, LatestIsDelivered, LatestIsOnItsWay, Listening, ShowsCurrent, At
<1>9. Announced(p)'
  <2>1. announced[p] <= disk[p] /\ announced[p] \in Nat /\ disk[p] \in Nat
    BY ServerTypes, BelowAt DEF DiskIsLatest
  <2>2. QED
    BY <1>1, <2>1 DEF Announced, Unannounced
<1>10. ASSUME NEW q \in Path \ {p} PROVE /\ Announced(q) => Announced(q)'
                                         /\ Told(q) => Told(q)'
  <2>1. Announced(q) => Announced(q)'
    BY <1>1 DEF Announced, Unannounced, Announces, WillParse, Carries, At
  <2>2. \A u \in Pusher : Delivers(u, q) => Delivers(u, q)'
    BY <1>1 DEF Delivers, At
  <2>3. EventOnItsWay(q) => EventOnItsWay(q)'
    BY <1>1, <2>2 DEF EventOnItsWay, Names
  <2>4. (LoadOnItsWay(q) => LoadOnItsWay(q)') /\ (ShownRight(q) => ShownRight(q)')
    BY <1>1 DEF LoadOnItsWay, ShownRight, ShowsCurrent
  <2>5. QED
    BY <2>1, <2>3, <2>4 DEF Told
<1>11. ASSUME ~overtaken' PROVE ChangesAreAnnounced' /\ BrowserIsTold'
  <2>1. ASSUME NEW q \in Path PROVE Announced(q)' \/ served.files[q] = disk'[q]
    <3>1. CASE q = p
      BY <1>9, <3>1
    <3>2. CASE q # p
      <4>1. q \in Path \ {p} /\ (Announced(q) \/ served.files[q] = disk[q])
        BY <1>11, <3>2 DEF ChangesAreAnnounced
      <4>2. Announced(q) => Announced(q)'
        BY <1>10, <4>1
      <4>3. disk'[q] = disk[q]
        BY <1>1, <4>1
      <4>4. QED
        BY <4>1, <4>2, <4>3
    <3>3. QED
      BY <3>1, <3>2
  <2>2. ASSUME NEW q \in Path, Listening PROVE Told(q)'
    <3>1. CASE q = p
      BY <1>9, <3>1 DEF Told
    <3>2. CASE q # p
      <4>1. q \in Path \ {p} /\ Told(q)
        BY <1>11, <2>2, <3>2 DEF BrowserIsTold
      <4>2. Told(q) => Told(q)'
        BY <1>10, <4>1
      <4>3. QED
        BY <4>1, <4>2
    <3>3. QED
      BY <3>1, <3>2
  <2>3. Listening' <=> Listening
    BY DEF Listening
  <2>4. QED
    BY <2>1, <2>2, <2>3 DEF ChangesAreAnnounced, BrowserIsTold
<1>12. QED
  BY <1>2, <1>3, <1>4, <1>5, <1>6, <1>7, <1>8, <1>11

LEMMA EditStep ==
  ASSUME Core, NEW p \in Path, Edit(p) PROVE Core'
<1>1. /\ Change(p) /\ pusher' = pusher
      /\ UNCHANGED <<polled, recent, suppressed, parsed, revision, served, hub, stream,
                     client, announced, missed, silent, overtaken>>
  BY DEF Edit, server
<1>2. pusher' \in [Pusher -> PushState] /\ written' \subseteq Path
  BY <1>1 DEF Core, TypeOK, Edit
<1>3. QED
  BY <1>1, <1>2, ChangeKeeps

LEMMA WriteFileStep ==
  ASSUME Core, NEW p \in Path, WriteFile(p) PROVE Core'
<1> DEFINE row == [Idle EXCEPT !.at = "written", !.path = p]
<1>1. /\ Change(p) /\ pusher["api"].at = "idle"
      /\ pusher' = [pusher EXCEPT !["api"] = row]
      /\ UNCHANGED <<polled, recent, suppressed, parsed, revision, served, hub, stream,
                     client, announced, missed, silent, overtaken>>
  BY DEF WriteFile
<1>2. row \in PushState /\ row.at = "written" /\ row.files = Unset
  BY IdleType DEF PushState, Stage
<1> HIDE DEF row
<1>3. /\ pusher' \in [Pusher -> PushState] /\ pusher'["api"] = row
      /\ \A u \in Pusher \ {"api"} : pusher'[u] = pusher[u]
  BY <1>1, <1>2 DEF Core, TypeOK, Pusher
<1>4. written' \subseteq Path
  BY DEF WriteFile, Core, TypeOK
<1>5. QED
  BY <1>1, <1>2, <1>3, <1>4, ChangeKeeps

(* A notification begins a push of its path, or it is dropped: then the    *)
(* change is parsed and announced by somebody else, or it is written down  *)
(* as missed or silent.                                                    *)
LEMMA FireKeeps ==
  ASSUME Core, NEW t \in Pusher, NEW p \in Path, pusher[t].at = "idle", Fire(t, p),
         noticed' = noticed \ (IF t = "fsnotify" THEN {p} ELSE {}), polled' \in Files,
         UNCHANGED <<disk, parsed, revision, served, hub, stream, client, announced,
                     written, overtaken>>
  PROVE  Core'
<1> USE DEF Core, hub, stream, client
<1>1. /\ recent' \subseteq Path /\ suppressed' \subseteq Path /\ noticed' \subseteq Path
      /\ missed' \subseteq Path /\ silent' \subseteq Path
      /\ missed \subseteq missed' /\ silent \subseteq silent'
      /\ noticed \ {p} \subseteq noticed'
  BY DEF Fire, Dropped, TypeOK
<1>2. \/ pusher' = pusher /\ Dropped(p)
      \/ pusher' = [pusher EXCEPT ![t] = [Idle EXCEPT !.at = "fired", !.path = p]]
  BY DEF Fire
<1>3. /\ pusher' \in [Pusher -> PushState]
      /\ \A u \in Pusher \ {t} : pusher'[u] = pusher[u]
      /\ \/ pusher'[t] = pusher[t] /\ Dropped(p)
         \/ pusher'[t].at = "fired" /\ pusher'[t].path = p /\ pusher'[t].files = Unset
  <2> DEFINE row == [Idle EXCEPT !.at = "fired", !.path = p]
  <2>1. row \in PushState /\ row.at = "fired" /\ row.path = p /\ row.files = Unset
    BY IdleType DEF PushState, Stage
  <2> HIDE DEF row
  <2>2. pusher \in [Pusher -> PushState]
    BY DEF TypeOK
  <2>3. CASE pusher' = pusher /\ Dropped(p)
    BY <2>2, <2>3
  <2>4. CASE pusher' = [pusher EXCEPT ![t] = row]
    BY <2>1, <2>2, <2>4
  <2>5. QED
    BY <1>2, <2>3, <2>4 DEF row
<1>4. \A u \in Pusher : At(u, {"stored", "got", "stamped"})' <=> At(u, {"stored", "got", "stamped"})
  BY <1>3 DEF At
<1>5. TypeOK'
  BY <1>1, <1>3 DEF TypeOK
<1>6. DiskIsLatest'
  BY <1>3, ServerTypes, BelowUnset DEF DiskIsLatest
<1>7. RevisionsAreFresh' /\ ConnectionsAreCounted'
  BY <1>3 DEF RevisionsAreFresh, ConnectionsAreCounted, At
<1>8. ASSUME ~overtaken' PROVE StoredIsServed'
  <2>1. \A u \in Pusher : ~At(u, {"parsed"})' => Below(pusher'[u].files, parsed)
    BY <1>3, <1>8, ServerTypes, BelowUnset DEF StoredIsServed, At
  <2>2. ASSUME NEW q \in Path, NEW u \in Pusher,
               At(u, {"stored", "got", "stamped"}), pusher[u].files[q] = parsed[q]
        PROVE  At(u, {"stored", "got", "stamped"})' /\ pusher'[u].files[q] = parsed[q]
    BY <1>3, <2>2 DEF At
  <2>3. QED
    BY <1>8, <2>1, <2>2 DEF StoredIsServed
<1>9. ASSUME ~overtaken' PROVE ChangesAreParsed'
  <2> SUFFICES ASSUME NEW q \in Path, q \notin missed' \cup noticed', parsed[q] # disk[q]
               PROVE  \E u \in Pusher : \/ WillParse(u)'
                                        \/ At(u, {"parsed"})' /\ pusher'[u].files[q] = disk[q]
    BY DEF ChangesAreParsed
  <2>1. CASE \E u \in Pusher : WillParse(u) \/ (At(u, {"parsed"}) /\ pusher[u].files[q] = disk[q])
    BY <1>3, <2>1 DEF WillParse, At
  <2>2. CASE q = p /\ pusher'[t] = pusher[t] /\ Dropped(p)
    <3>1. PICK u \in Pusher : WillParse(u) \/ pusher[u].files[p] = disk[p]
      BY <2>2 DEF Dropped
    <3>2. CASE WillParse(u) \/ At(u, {"parsed"})
      BY <2>1, <2>2, <3>1, <3>2
    <3>3. CASE ~WillParse(u) /\ ~At(u, {"parsed"})
      <4>1. Below(pusher[u].files, parsed) /\ Below(parsed, disk)
        BY <1>9, <3>3 DEF StoredIsServed, DiskIsLatest
      <4>2. parsed[p] = disk[p]
        BY <3>1, <3>3, <4>1, BelowAt, PushType, ServerTypes
      <4>3. QED
        BY <2>2, <4>2
    <3>4. QED
      BY <3>2, <3>3
  <2>3. CASE q = p /\ pusher'[t].at = "fired"
    BY <2>3 DEF WillParse
  <2>4. CASE q # p
    BY <1>1, <1>9, <2>1, <2>4 DEF ChangesAreParsed
  <2>5. QED
    BY <1>3, <2>2, <2>3, <2>4
<1>10. ASSUME ~overtaken' PROVE CopiesAreOrdered'
  <2>1. \A u \in Pusher : At(u, {"loaded"})' =>
          At(u, {"loaded"}) /\ CopyOf(pusher'[u]) = CopyOf(pusher[u])
    BY <1>3 DEF At
  <2>2. QED
    BY <1>10, <2>1, PushKeepsCopies
<1>11. ASSUME ~overtaken' PROVE ShownIsServed' /\ LatestIsDelivered'
  <2>1. ShownIsServed'
    BY <1>1, <1>11, ShownKept
  <2>2. QED
    BY <1>3, <1>11, <2>1 DEF LatestIsDelivered, LatestIsOnItsWay, Listening, ShowsCurrent, At
<1>12. ASSUME ~overtaken' PROVE ChangesAreAnnounced' /\ BrowserIsTold'
  <2>1. ASSUME NEW q \in Path, NEW u \in Pusher, Announces(u, q) PROVE Announces(u, q)'
    BY <1>3, <2>1 DEF Announces, WillParse, Carries, At
  <2>2. ASSUME Unannounced(p) PROVE Announced(p)'
    <3>1. CASE pusher'[t] = pusher[t] /\ Dropped(p)
      <4>1. p \in silent' \/ \E u \in Pusher : WillParse(u) /\ pusher[u].path = p
        BY <2>2, <3>1 DEF Dropped, Unannounced
      <4>2. QED
        BY <2>1, <4>1 DEF Announced, Announces
    <3>2. CASE pusher'[t].at = "fired" /\ pusher'[t].path = p
      BY <3>2 DEF Announced, Announces, WillParse
    <3>3. QED
      BY <1>3, <3>1, <3>2
  <2>3. ASSUME NEW q \in Path, Announced(q) PROVE Announced(q)'
    <3>1. CASE q = p /\ Unannounced(p)
      BY <2>2, <3>1
    <3>2. CASE q # p /\ Unannounced(q)
      BY <1>1, <3>2 DEF Announced, Unannounced
    <3>3. CASE ~Unannounced(q)
      BY <1>1, <2>1, <2>3, <3>3 DEF Announced
    <3>4. QED
      BY <3>1, <3>2, <3>3
  <2>4. \A u \in Pusher, q \in Path : Delivers(u, q) => Delivers(u, q)'
    BY <1>3 DEF Delivers, At
  <2>5. QED
    BY <1>12, <2>3, <2>4, PushKeepsTold
<1>13. QED
  BY <1>5, <1>6, <1>7, <1>8, <1>9, <1>10, <1>11, <1>12

LEMMA NoticeStep ==
  ASSUME Core, NEW p \in Path, Notice(p) PROVE Core'
<1>1. /\ pusher["fsnotify"].at = "idle" /\ noticed' = noticed \ {p} /\ Fire("fsnotify", p)
      /\ UNCHANGED <<disk, polled, parsed, revision, served, hub, stream, client, announced,
                     written, overtaken>>
  BY DEF Notice
<1>2. polled' \in Files /\ "fsnotify" \in Pusher
  BY <1>1 DEF Core, TypeOK, Pusher
<1>3. QED
  BY <1>1, <1>2, FireKeeps

LEMMA PollStep ==
  ASSUME Core, Poll PROVE Core'
<1> DEFINE p == firstChangedPath
<1>1. /\ pusher["poll"].at = "idle" /\ polled # disk /\ Fire("poll", p) /\ polled' = disk
      /\ UNCHANGED <<disk, noticed, parsed, revision, served, hub, stream, client, announced,
                     written, overtaken>>
  BY DEF Poll
<1>2. p \in Path /\ polled' \in Files /\ "poll" \in Pusher
  BY <1>1, FirstChanged, ServerTypes DEF Core, Pusher
<1> HIDE DEF p
<1>3. noticed' = noticed \ (IF "poll" = "fsnotify" THEN {p} ELSE {})
  BY <1>1
<1>4. QED
  BY <1>1, <1>2, <1>3, FireKeeps

-----------------------------------------------------------------------------
(* The hub *)

LEMMA EventOfType ==
  ASSUME TypeOK, NEW t \in Pusher
  PROVE  /\ EventOf(t) \in Event /\ EventOf(t) # Nothing
         /\ EventOf(t).rev = pusher[t].rev /\ EventOf(t).files = pusher[t].files
         /\ EventOf(t).changed = {pusher[t].path}
         /\ CopyOf(EventOf(t)) = CopyOf(pusher[t])
<1>1. EventOf(t) \in Event
  BY PushType DEF EventOf, Event
<1>2. QED
  BY <1>1, NothingAssumption DEF EventOf, CopyOf

(* A push that is done holds nothing any more.                             *)
LEMMA IdleKeeps ==
  ASSUME TypeOK, NEW t \in Pusher, pusher[t].at = "loaded",
         pusher' = [pusher EXCEPT ![t] = Idle]
  PROVE  /\ pusher' \in [Pusher -> PushState]
         /\ pusher'[t].at = "idle" /\ pusher'[t].files = Unset
         /\ \A u \in Pusher \ {t} : pusher'[u] = pusher[u]
BY IdleType DEF TypeOK

LEMMA DonePushKeeps ==
  ASSUME Core, pusher' \in [Pusher -> PushState],
         \A u \in Pusher : \/ pusher'[u] = pusher[u]
                           \/ /\ pusher[u].at = "loaded"
                              /\ pusher'[u].at = "idle" /\ pusher'[u].files = Unset,
         UNCHANGED <<disk, parsed, served, revision, noticed, announced, missed>>,
         silent \subseteq silent', ~overtaken' => ~overtaken
  PROVE  /\ \A u \in Pusher : Below(pusher'[u].files, disk)
         /\ RevisionsAreFresh'
         /\ ~overtaken' => StoredIsServed' /\ ChangesAreParsed' /\ ChangesAreAnnounced'
         /\ \A p \in Path : Announced(p) => Announced(p)'
<1> USE DEF Core
<1>1. \A u \in Pusher : Below(pusher'[u].files, disk)
  BY ServerTypes, BelowUnset DEF DiskIsLatest
<1>2. RevisionsAreFresh'
  BY DEF RevisionsAreFresh, At
<1>3. ASSUME ~overtaken' PROVE StoredIsServed'
  <2>1. \A u \in Pusher : ~At(u, {"parsed"})' => Below(pusher'[u].files, parsed)
    BY <1>3, ServerTypes, BelowUnset DEF StoredIsServed, At
  <2>2. ASSUME NEW q \in Path, NEW u \in Pusher,
               At(u, {"stored", "got", "stamped"}), pusher[u].files[q] = parsed[q]
        PROVE  At(u, {"stored", "got", "stamped"})' /\ pusher'[u].files[q] = parsed[q]
    BY <2>2 DEF At
  <2>3. QED
    BY <1>3, <2>1, <2>2 DEF StoredIsServed
<1>4. ASSUME ~overtaken' PROVE ChangesAreParsed'
  BY <1>4 DEF ChangesAreParsed, WillParse, At
<1>5. ASSUME NEW p \in Path, Announced(p) PROVE Announced(p)'
  BY <1>5 DEF Announced, Unannounced, Announces, WillParse, Carries, At
<1>6. ASSUME ~overtaken' PROVE ChangesAreAnnounced'
  BY <1>5, <1>6 DEF ChangesAreAnnounced
<1>7. QED
  BY <1>1, <1>2, <1>3, <1>4, <1>5, <1>6

(* The event that waits is replaced by one that is no older; the paths it  *)
(* named and the new one does not are silent.                              *)
LEMMA PublishStep ==
  ASSUME Core, NEW t \in Pusher, Publish(t)
  PROVE  Core'
<1> USE DEF Core
<1>1. UNCHANGED <<disk, noticed, polled, recent, suppressed, parsed, revision, served,
                  flushing, link, closed, queue, connection, loads, answers, shown,
                  announced, missed, written>>
  BY DEF Publish, stream, client, bounds
<1>2. PICK e \in Event : e = EventOf(t)
  BY EventOfType
<1>3. /\ e # Nothing /\ e.rev = pusher[t].rev /\ e.files = pusher[t].files
      /\ e.changed = {pusher[t].path} /\ CopyOf(e) = CopyOf(pusher[t])
  BY <1>2, EventOfType
<1>4. /\ pusher[t].at = "loaded" /\ pusher' = [pusher EXCEPT ![t] = Idle] /\ pending' = e
      /\ silent' = IF pending = Nothing THEN silent
                   ELSE silent \cup (pending.changed \ {pusher[t].path})
      /\ overtaken' = (overtaken \/ (pending # Nothing /\ pusher[t].rev < pending.rev))
  BY <1>2 DEF Publish
<1>5. /\ pusher' \in [Pusher -> PushState]
      /\ pusher'[t].at = "idle" /\ pusher'[t].files = Unset
      /\ \A u \in Pusher \ {t} : pusher'[u] = pusher[u]
  BY <1>4, IdleKeeps
<1>6. /\ ~overtaken' => ~overtaken /\ (pending # Nothing => pending.rev <= e.rev)
      /\ silent \subseteq silent' /\ silent' \subseteq Path /\ overtaken' \in BOOLEAN
  <2>1. pending # Nothing => pending.rev \in Nat /\ pending.changed \subseteq Path
    BY EventTypes
  <2>2. overtaken \in BOOLEAN /\ silent \subseteq Path /\ e.rev \in Nat /\ pusher[t].path \in Path
    BY <1>3, PushType DEF TypeOK
  <2>3. ~overtaken' => ~overtaken /\ ~(pending # Nothing /\ e.rev < pending.rev)
    BY <1>3, <1>4
  <2>4. ~overtaken' => (pending # Nothing => pending.rev <= e.rev)
    BY <2>1, <2>2, <2>3
  <2>5. silent \subseteq silent' /\ silent' \subseteq Path
    BY <1>4, <2>1, <2>2
  <2>6. overtaken' \in BOOLEAN
    BY <1>4, <2>2
  <2>7. QED
    BY <2>3, <2>4, <2>5, <2>6
<1>7. /\ \A u \in Pusher : Below(pusher'[u].files, disk)
      /\ RevisionsAreFresh'
      /\ ~overtaken' => StoredIsServed' /\ ChangesAreParsed' /\ ChangesAreAnnounced'
      /\ \A p \in Path : Announced(p) => Announced(p)'
  BY <1>1, <1>4, <1>5, <1>6, DonePushKeeps
<1>8. TypeOK'
  BY <1>1, <1>4, <1>3, <1>5, <1>6 DEF TypeOK
<1>9. DiskIsLatest'
  BY <1>1, <1>4, <1>3, <1>7 DEF DiskIsLatest
<1>10. ConnectionsAreCounted'
  BY <1>1 DEF ConnectionsAreCounted
<1>11. ASSUME ~overtaken' PROVE CopiesAreOrdered'
  <2>1. CopyOf(e) \in ServerCopies
    BY <1>4, <1>3 DEF ServerCopies, At
  <2>2. ASSUME NEW c \in ServerCopies' PROVE c \in ServerCopies
    <3>1. CASE c = CopyOf(e)
      BY <2>1, <3>1
    <3>2. CASE c # CopyOf(e)
      BY <1>1, <1>4, <1>5, <2>2, <3>2 DEF ServerCopies, CopyOf, At
    <3>3. QED
      BY <3>1, <3>2
  <2>3. ClientCopies' = ClientCopies /\ (Attached' <=> Attached)
    BY <1>1 DEF ClientCopies, Attached, CopyOf
  <2>4. QED
    BY <1>1, <1>6, <1>11, <2>2, <2>3, CopiesKept
<1>12. ASSUME ~overtaken' PROVE ShownIsServed'
  BY <1>1, <1>6, <1>12 DEF ShownIsServed
<1>13. ASSUME ~overtaken' PROVE /\ e.rev <= served.rev
                                /\ pending # Nothing => Below(pending.files, e.files)
  <2>1. CopyOf(e) \in ServerCopies /\ (pending # Nothing => CopyOf(pending) \in ServerCopies)
    BY <1>4, <1>3 DEF ServerCopies, At
  <2>2. QED
    BY <1>6, <1>13, <2>1 DEF CopiesAreOrdered, InOrder, CopyOf
<1>14. ASSUME ~overtaken' PROVE LatestIsDelivered'
  <2>1. pending # Nothing /\ pending.rev = served.rev => e.rev = served.rev
    <3> SUFFICES ASSUME pending # Nothing, pending.rev = served.rev PROVE e.rev = served.rev
      OBVIOUS
    <3>1. pending.rev <= e.rev /\ e.rev <= served.rev
      BY <1>6, <1>13, <1>14
    <3>2. e.rev \in Nat /\ served.rev \in Nat
      BY EventTypes, ServerTypes
    <3>3. QED
      BY <3>1, <3>2
  <2>2. QED
    BY <1>1, <1>4, <1>3, <1>5, <1>6, <1>14, <2>1
       DEF LatestIsDelivered, LatestIsOnItsWay, Listening, ShowsCurrent, At
<1>15. ASSUME ~overtaken' PROVE BrowserIsTold'
  <2>1. ASSUME NEW p \in Path, Delivers(t, p) PROVE Names(e, p)'
    BY <1>1, <1>4, <1>3, <2>1 DEF Delivers, Names, At
  <2>2. ASSUME NEW p \in Path, pending # Nothing, Names(pending, p)
        PROVE  p \in silent' \/ Names(e, p)'
    <3>1. CASE p # pusher[t].path
      BY <1>4, <2>2, <3>1 DEF Names
    <3>2. CASE p = pusher[t].path
      <4>1. Below(pending.files, e.files)
        BY <1>13, <1>15, <2>2
      <4>2. Below(e.files, disk)
        BY <1>3 DEF DiskIsLatest
      <4>3. pending.files[p] = disk[p]
        BY <2>2 DEF Names
      <4>4. pending.files \in Files /\ e.files \in Files /\ disk \in Files
        BY <1>3, <2>2, EventTypes, ServerTypes
      <4>5. e.files[p] = disk[p]
        BY <4>1, <4>2, <4>3, <4>4, BelowAt
      <4>6. QED
        BY <1>1, <1>3, <3>2, <4>5 DEF Names
    <3>3. QED
      BY <3>1, <3>2
  <2>3. ASSUME NEW p \in Path, EventOnItsWay(p) PROVE p \in silent' \/ EventOnItsWay(p)'
    <3>1. CASE \E u \in Pusher : Delivers(u, p)
      <4>1. ASSUME NEW u \in Pusher \ {t}, Delivers(u, p) PROVE Delivers(u, p)'
        BY <1>1, <1>5, <4>1 DEF Delivers, At
      <4>2. Delivers(t, p) => EventOnItsWay(p)'
        BY <1>4, <1>3, <2>1 DEF EventOnItsWay
      <4>3. QED
        BY <3>1, <4>1, <4>2 DEF EventOnItsWay
    <3>2. CASE pending # Nothing /\ Names(pending, p)
      BY <1>4, <1>3, <2>2, <3>2 DEF EventOnItsWay
    <3>3. CASE flushing # Nothing /\ Names(flushing, p)
      BY <1>1, <3>3 DEF EventOnItsWay, Names
    <3>4. CASE \E i \in DOMAIN queue : Names(queue[i], p)
      BY <1>1, <3>4 DEF EventOnItsWay, Names
    <3>5. QED
      BY <2>3, <3>1, <3>2, <3>3, <3>4 DEF EventOnItsWay
  <2>4. ASSUME NEW p \in Path PROVE /\ LoadOnItsWay(p) => LoadOnItsWay(p)'
                                    /\ ShownRight(p) => ShownRight(p)'
    BY <1>1 DEF LoadOnItsWay, ShownRight, ShowsCurrent
  <2>5. ASSUME NEW p \in Path, Told(p) PROVE Told(p)'
    BY <1>7, <2>3, <2>4, <2>5 DEF Told, Announced
  <2>6. QED
    BY <1>1, <1>6, <1>15, <2>5 DEF BrowserIsTold, Listening
<1>16. QED
  BY <1>6, <1>7, <1>8, <1>9, <1>10, <1>11, <1>12, <1>14, <1>15


LEMMA BroadcastFacts ==
  ASSUME TypeOK, ConnectionsAreCounted, NEW e \in Event, Broadcast(e)
  PROVE  /\ queue' \in Seq(Event) /\ Len(queue') <= Buffer + 1
         /\ closed' \in BOOLEAN /\ link' = link
         /\ link = "subscribed" => Len(queue') <= Buffer
         /\ \A i \in DOMAIN queue : i \in DOMAIN queue' /\ queue'[i] = queue[i]
         /\ \A i \in DOMAIN queue' :
              queue'[i] = e \/ (i \in DOMAIN queue /\ queue'[i] = queue[i])
         /\ queue # <<>> => queue' # <<>>
         /\ link # "down" /\ ~closed' => ~closed /\ \E i \in DOMAIN queue' : queue'[i] = e
<1>1. /\ queue \in Seq(Event) /\ Len(queue) <= Buffer + 1 /\ Len(queue) \in Nat
      /\ Buffer \in Nat /\ closed \in BOOLEAN
      /\ link = "subscribed" => Len(queue) <= Buffer
  BY SyncAssumption DEF TypeOK, SyncAssumption, ConnectionsAreCounted
<1>2. /\ queue' = IF Subscribed /\ Len(queue) < Buffer THEN Append(queue, e) ELSE queue
      /\ closed' = (closed \/ (Subscribed /\ Len(queue) >= Buffer)) /\ link' = link
  BY DEF Broadcast
<1>3. CASE Subscribed /\ Len(queue) < Buffer
  <2>1. queue' = Append(queue, e)
    BY <1>2, <1>3
  <2>2. /\ queue' \in Seq(Event) /\ Len(queue') = Len(queue) + 1
        /\ queue'[Len(queue) + 1] = e
        /\ \A i \in 1 .. Len(queue) : queue'[i] = queue[i]
    BY <1>1, <2>1
  <2>3. DOMAIN queue = 1 .. Len(queue) /\ DOMAIN queue' = 1 .. (Len(queue) + 1)
    BY <1>1, <2>2
  <2>4. Len(queue) + 1 \in DOMAIN queue' /\ \A i \in DOMAIN queue : i \in DOMAIN queue'
    BY <1>1, <2>3
  <2>5. \A i \in DOMAIN queue' : queue'[i] = e \/ (i \in DOMAIN queue /\ queue'[i] = queue[i])
    BY <1>1, <2>2, <2>3
  <2>6. queue # <<>> => queue' # <<>>
    BY <1>1, <2>2
  <2>7. QED
    BY <1>1, <1>2, <1>3, <2>2, <2>3, <2>4, <2>5, <2>6
<1>4. CASE ~(Subscribed /\ Len(queue) < Buffer)
  <2>1. queue' = queue
    BY <1>2, <1>4
  <2>2. ASSUME link # "down", ~closed' PROVE FALSE
    <3>1. Subscribed /\ ~(Len(queue) >= Buffer)
      BY <1>2, <2>2 DEF Subscribed
    <3>2. QED
      BY <1>1, <1>4, <3>1
  <2>3. closed' \in BOOLEAN
    BY <1>1, <1>2
  <2>4. QED
    BY <1>1, <1>2, <2>1, <2>2, <2>3
<1>5. QED
  BY <1>3, <1>4

(* What the hub was about to broadcast reaches the queue of a page that    *)
(* still listens.                                                          *)
LEMMA BroadcastKeeps ==
  ASSUME Core, NEW e \in Event, Broadcast(e), Below(e.files, disk),
         CopyOf(e) \in ServerCopies,
         pusher' \in [Pusher -> PushState],
         \A u \in Pusher : \/ pusher'[u] = pusher[u]
                           \/ /\ pusher[u].at = "loaded"
                              /\ pusher'[u].at = "idle" /\ pusher'[u].files = Unset
                              /\ pusher[u].rev = e.rev /\ pusher[u].files = e.files
                              /\ e.changed = {pusher[u].path},
         flushing' = flushing \/ (flushing = e /\ flushing' = Nothing),
         UNCHANGED <<disk, noticed, polled, recent, suppressed, parsed, revision, served,
                     pending, connection, loads, answers, shown, history>>
  PROVE  Core'
<1> USE DEF Core
<1>1. /\ queue' \in Seq(Event) /\ Len(queue') <= Buffer + 1
      /\ closed' \in BOOLEAN /\ link' = link
      /\ link = "subscribed" => Len(queue') <= Buffer
      /\ \A i \in DOMAIN queue : i \in DOMAIN queue' /\ queue'[i] = queue[i]
      /\ \A i \in DOMAIN queue' :
           queue'[i] = e \/ (i \in DOMAIN queue /\ queue'[i] = queue[i])
      /\ queue # <<>> => queue' # <<>>
      /\ link # "down" /\ ~closed' => ~closed /\ \E i \in DOMAIN queue' : queue'[i] = e
  BY BroadcastFacts
<1>2. UNCHANGED <<announced, missed, silent, written, overtaken>>
  BY DEF history
<1>3. /\ \A u \in Pusher : Below(pusher'[u].files, disk)
      /\ RevisionsAreFresh'
      /\ ~overtaken' => StoredIsServed' /\ ChangesAreParsed' /\ ChangesAreAnnounced'
      /\ \A p \in Path : Announced(p) => Announced(p)'
  BY <1>2, DonePushKeeps
<1>4. TypeOK'
  BY <1>1, <1>2 DEF TypeOK
<1>5. DiskIsLatest'
  <2>1. \A i \in DOMAIN queue' : Below(queue'[i].files, disk)
    BY <1>1 DEF DiskIsLatest
  <2>2. QED
    BY <1>2, <1>3, <2>1 DEF DiskIsLatest
<1>6. ConnectionsAreCounted'
  BY <1>1 DEF ConnectionsAreCounted
<1>7. ASSUME ~overtaken' PROVE CopiesAreOrdered'
  <2>1. ServerCopies' \subseteq ServerCopies
    <3>1. \A i \in DOMAIN queue' : CopyOf(queue'[i]) \in ServerCopies
      BY <1>1 DEF ServerCopies
    <3>2. \A u \in Pusher : At(u, {"loaded"})' =>
            At(u, {"loaded"}) /\ CopyOf(pusher'[u]) = CopyOf(pusher[u])
      BY DEF At
    <3>3. ASSUME NEW c \in ServerCopies' PROVE c \in ServerCopies
      <4>1. CASE \E u \in Pusher : At(u, {"loaded"})' /\ c = CopyOf(pusher'[u])
        BY <3>2, <4>1 DEF ServerCopies
      <4>2. CASE \E i \in DOMAIN queue' : c = CopyOf(queue'[i])
        BY <3>1, <4>2
      <4>3. CASE ~\/ \E u \in Pusher : At(u, {"loaded"})' /\ c = CopyOf(pusher'[u])
                  \/ \E i \in DOMAIN queue' : c = CopyOf(queue'[i])
        BY <4>3 DEF ServerCopies, CopyOf
      <4>4. QED
        BY <4>1, <4>2, <4>3
    <3>4. QED
      BY <3>3
  <2>2. ClientCopies' = ClientCopies /\ (Attached' <=> Attached)
    BY <1>1 DEF ClientCopies, Attached, CopyOf
  <2>3. QED
    BY <1>2, <1>7, <2>1, <2>2, CopiesKept
<1>8. ASSUME ~overtaken' PROVE ShownIsServed'
  BY <1>1, <1>2, <1>8 DEF ShownIsServed
<1>9. ASSUME ~overtaken' PROVE LatestIsDelivered'
  <2>1. ASSUME LatestIsOnItsWay, link # "down", ~closed' PROVE LatestIsOnItsWay'
    <3>1. e.rev = served.rev => LatestIsOnItsWay'
      BY <1>1, <2>1 DEF LatestIsOnItsWay
    <3>2. CASE \E t \in Pusher : \/ At(t, {"serving"})
                                 \/ At(t, {"loaded"}) /\ pusher[t].rev = served.rev
      BY <3>1, <3>2 DEF LatestIsOnItsWay, At
    <3>3. CASE \E i \in DOMAIN queue : queue[i].rev = served.rev
      BY <1>1, <3>3 DEF LatestIsOnItsWay
    <3>4. CASE \E d \in {pending, flushing} \ {Nothing} : d.rev = served.rev
      BY <3>1, <3>4 DEF LatestIsOnItsWay
    <3>5. QED
      BY <2>1, <3>2, <3>3, <3>4 DEF LatestIsOnItsWay
  <2>2. ShowsCurrent /\ shown.rev = served.rev => (ShowsCurrent /\ shown.rev = served.rev)'
    BY DEF ShowsCurrent
  <2>3. QED
    BY <1>1, <1>2, <1>9, <2>1, <2>2 DEF LatestIsDelivered, Listening
<1>10. ASSUME ~overtaken' PROVE BrowserIsTold'
  <2> SUFFICES ASSUME Listening', NEW p \in Path PROVE Told(p)'
    BY DEF BrowserIsTold
  <2>0. Listening /\ \E i \in DOMAIN queue' : queue'[i] = e
    BY <1>1 DEF Listening
  <2>1. ASSUME Names(e, p) PROVE EventOnItsWay(p)'
    BY <2>0, <2>1 DEF EventOnItsWay, Names
  <2>2. ASSUME EventOnItsWay(p) PROVE EventOnItsWay(p)'
    <3>1. CASE \E u \in Pusher : Delivers(u, p)
      <4>1. PICK u \in Pusher : Delivers(u, p)
        BY <3>1
      <4>2. CASE pusher'[u] = pusher[u]
        <5>1. Delivers(u, p)'
          BY <4>1, <4>2 DEF Delivers, At
        <5>2. QED
          BY <5>1 DEF EventOnItsWay
      <4>3. CASE pusher'[u] # pusher[u]
        <5>1. Names(e, p)
          BY <4>1, <4>3 DEF Delivers, At, Names
        <5>2. QED
          BY <2>1, <5>1
      <4>4. QED
        BY <4>2, <4>3
    <3>2. CASE \E d \in {pending, flushing} \ {Nothing} : Names(d, p)
      <4>1. PICK d \in {pending, flushing} \ {Nothing} : Names(d, p)
        BY <3>2
      <4>2. CASE d = e
        BY <2>1, <4>1, <4>2
      <4>3. CASE d # e
        <5>1. d \in {pending', flushing'} \ {Nothing}
          BY <4>1, <4>3
        <5>2. d \in {pending', flushing'} \ {Nothing} /\ p \in d.changed /\ d.files[p] = disk'[p]
          BY <4>1, <5>1 DEF Names
        <5>3. QED
          BY <5>2 DEF EventOnItsWay, Names
      <4>4. QED
        BY <4>2, <4>3
    <3>3. CASE \E i \in DOMAIN queue : Names(queue[i], p)
      BY <1>1, <3>3 DEF EventOnItsWay, Names
    <3>4. QED
      BY <2>2, <3>1, <3>2, <3>3 DEF EventOnItsWay
  <2>3. (LoadOnItsWay(p) => LoadOnItsWay(p)') /\ (ShownRight(p) => ShownRight(p)')
    BY DEF LoadOnItsWay, ShownRight, ShowsCurrent
  <2>4. Told(p)
    BY <1>2, <1>10, <2>0 DEF BrowserIsTold
  <2>5. QED
    BY <1>3, <2>2, <2>3, <2>4 DEF Told
<1>11. QED
  BY <1>2, <1>3, <1>4, <1>5, <1>6, <1>7, <1>8, <1>9, <1>10

LEMMA PublishImmediateStep ==
  ASSUME Core, PublishImmediate PROVE Core'
<1>1. PICK e \in Event : e = EventOf("api")
  BY EventOfType DEF Core, Pusher
<1>2. /\ e.rev = pusher["api"].rev /\ e.files = pusher["api"].files
      /\ e.changed = {pusher["api"].path} /\ CopyOf(e) = CopyOf(pusher["api"])
      /\ "api" \in Pusher
  BY <1>1, EventOfType DEF Core, Pusher
<1>3. /\ pusher["api"].at = "loaded" /\ Broadcast(e)
      /\ pusher' = [pusher EXCEPT !["api"] = Idle]
  BY <1>1 DEF PublishImmediate
<1>4. UNCHANGED <<disk, noticed, polled, recent, suppressed, parsed, revision, served,
                  pending, flushing, connection, loads, answers, shown, history>>
  BY DEF PublishImmediate, hub, client
<1>5. /\ pusher' \in [Pusher -> PushState]
      /\ pusher'["api"].at = "idle" /\ pusher'["api"].files = Unset
      /\ \A u \in Pusher \ {"api"} : pusher'[u] = pusher[u]
  BY <1>2, <1>3, IdleKeeps DEF Core
<1>6. Below(e.files, disk)
  BY <1>2 DEF Core, DiskIsLatest
<1>7. CopyOf(e) \in ServerCopies
  BY <1>2, <1>3 DEF ServerCopies, At
<1>8. QED
  BY <1>2, <1>3, <1>4, <1>5, <1>6, <1>7, BroadcastKeeps

LEMMA FlushStep ==
  ASSUME Core, Flush PROVE Core'
<1>1. /\ flushing # Nothing /\ Broadcast(flushing) /\ flushing' = Nothing
      /\ UNCHANGED <<disk, noticed, polled, recent, suppressed, pusher, parsed, revision,
                     served, pending, connection, loads, answers, shown, history>>
  BY DEF Flush, server, client
<1>2. PICK e \in Event : e = flushing
  BY <1>1 DEF Core, TypeOK
<1>3. Broadcast(e)
  BY <1>1, <1>2
<1>4. Below(e.files, disk) /\ CopyOf(e) \in ServerCopies
  BY <1>1, <1>2 DEF Core, DiskIsLatest, ServerCopies
<1>5. pusher' \in [Pusher -> PushState]
  BY <1>1 DEF Core, TypeOK
<1>6. QED
  BY <1>1, <1>2, <1>3, <1>4, <1>5, BroadcastKeeps

LEMMA TakePendingStep ==
  ASSUME Core, TakePending PROVE Core'
<1> USE DEF Core
<1>1. UNCHANGED <<disk, noticed, polled, recent, suppressed, pusher, parsed, revision,
                  served, link, closed, queue, connection, loads, answers, shown,
                  announced, missed, silent, written, overtaken>>
  BY DEF TakePending, server, stream, client, history
<1>2. {pending', flushing'} \ {Nothing} = {pending, flushing} \ {Nothing}
  BY DEF TakePending
<1>3. TypeOK'
  BY <1>1 DEF TakePending, TypeOK
<1>4. DiskIsLatest' /\ RevisionsAreFresh' /\ ConnectionsAreCounted'
  BY <1>1, <1>2 DEF DiskIsLatest, RevisionsAreFresh, ConnectionsAreCounted, At
<1>5. ASSUME ~overtaken' PROVE StoredIsServed' /\ ChangesAreParsed' /\ ChangesAreAnnounced'
  BY <1>1, <1>5 DEF StoredIsServed, ChangesAreParsed, ChangesAreAnnounced, Announced,
     Unannounced, Announces, WillParse, Carries, At
<1>6. ASSUME ~overtaken' PROVE CopiesAreOrdered'
  <2>1. ServerCopies' = ServerCopies /\ ClientCopies' = ClientCopies
        /\ (Attached' <=> Attached)
    BY <1>1, <1>2 DEF ServerCopies, ClientCopies, Attached, CopyOf, At
  <2>2. QED
    BY <1>1, <1>6, <2>1, CopiesKept
<1>7. ASSUME ~overtaken' PROVE ShownIsServed' /\ LatestIsDelivered'
  BY <1>1, <1>2, <1>7
     DEF ShownIsServed, LatestIsDelivered, LatestIsOnItsWay, Listening, ShowsCurrent, At
<1>8. ASSUME ~overtaken' PROVE BrowserIsTold'
  <2>1. ASSUME NEW p \in Path, Told(p) PROVE Told(p)'
    <3>1. Announced(p) => Announced(p)'
      BY <1>1 DEF Announced, Unannounced, Announces, WillParse, Carries, At
    <3>2. EventOnItsWay(p) => EventOnItsWay(p)'
      BY <1>1, <1>2 DEF EventOnItsWay, Names, Delivers, At
    <3>3. (LoadOnItsWay(p) => LoadOnItsWay(p)') /\ (ShownRight(p) => ShownRight(p)')
      BY <1>1 DEF LoadOnItsWay, ShownRight, ShowsCurrent
    <3>4. QED
      BY <2>1, <3>1, <3>2, <3>3 DEF Told
  <2>2. QED
    BY <1>1, <1>8, <2>1 DEF BrowserIsTold, Listening
<1>9. QED
  BY <1>3, <1>4, <1>5, <1>6, <1>7, <1>8

-----------------------------------------------------------------------------
(* The event stream *)

(* What a step of the stream or of the page leaves alone, but for an       *)
(* announcement that it may give up.                                       *)
LEMMA ServerKeeps ==
  ASSUME Core,
         UNCHANGED <<disk, noticed, pusher, parsed, served, revision, announced, missed,
                     written, overtaken>>
  PROVE  /\ RevisionsAreFresh'
         /\ ~overtaken' => StoredIsServed' /\ ChangesAreParsed'
BY DEF Core, RevisionsAreFresh, StoredIsServed, ChangesAreParsed, WillParse, At

LEMMA AnnouncedKeeps ==
  ASSUME Core, UNCHANGED <<disk, noticed, pusher, served, announced, written, overtaken>>,
         silent \subseteq silent'
  PROVE  /\ ~overtaken' => ChangesAreAnnounced'
         /\ \A p \in Path : Announced(p) => Announced(p)'
<1>1. ASSUME NEW p \in Path, Announced(p) PROVE Announced(p)'
  BY <1>1 DEF Announced, Unannounced, Announces, WillParse, Carries, At
<1>2. QED
  BY <1>1 DEF Core, ChangesAreAnnounced

(* The stream is opened, or closed: nobody listens.                        *)
LEMMA StreamKeeps ==
  ASSUME Core, link' # "up", queue' = <<>>, link' \in {"down", "subscribed"},
         closed' \in BOOLEAN,
         UNCHANGED <<disk, noticed, polled, server, hub, client, history>>
  PROVE  Core'
<1> USE DEF Core
<1>1. UNCHANGED <<disk, noticed, polled, recent, suppressed, pusher, parsed, revision,
                  served, pending, flushing, connection, loads, answers, shown,
                  announced, missed, silent, written, overtaken>>
  BY DEF server, hub, client, history
<1>2. TypeOK'
  <2>1. queue' \in Seq(Event) /\ Len(queue') = 0
    OBVIOUS
  <2>2. 0 <= Buffer + 1
    BY SyncAssumption DEF SyncAssumption
  <2>3. QED
    BY <1>1, <2>1, <2>2 DEF TypeOK
<1>3. DiskIsLatest'
  BY <1>1 DEF DiskIsLatest
<1>4. /\ RevisionsAreFresh'
      /\ ~overtaken' => StoredIsServed' /\ ChangesAreParsed' /\ ChangesAreAnnounced'
  BY <1>1, ServerKeeps, AnnouncedKeeps
<1>5. ConnectionsAreCounted'
  BY <1>1, SyncAssumption DEF ConnectionsAreCounted, SyncAssumption
<1>6. ASSUME ~overtaken' PROVE CopiesAreOrdered'
  <2>1. ServerCopies' \subseteq ServerCopies
    BY <1>1 DEF ServerCopies, CopyOf, At
  <2>2. ClientCopies' = ClientCopies /\ (Attached' => Attached)
    BY <1>1 DEF ClientCopies, Attached, CopyOf
  <2>3. QED
    BY <1>1, <1>6, <2>1, <2>2, CopiesKept
<1>7. ASSUME ~overtaken' PROVE ShownIsServed'
  BY <1>1, <1>7 DEF ShownIsServed
<1>8. LatestIsDelivered' /\ BrowserIsTold'
  BY DEF LatestIsDelivered, BrowserIsTold, Listening
<1>9. QED
  BY <1>2, <1>3, <1>4, <1>5, <1>6, <1>7, <1>8

LEMMA SubscribeStep ==
  ASSUME Core, Subscribe PROVE Core'
BY StreamKeeps DEF Subscribe

LEMMA EndOfStreamStep ==
  ASSUME Core, EndOfStream PROVE Core'
BY StreamKeeps DEF EndOfStream, Core, TypeOK

LEMMA DisconnectStep ==
  ASSUME Core, Disconnect PROVE Core'
BY StreamKeeps DEF Disconnect, Core, TypeOK

(* A page that is loaded anew has nothing and begins to count.             *)
LEMMA LoadPageStep ==
  ASSUME Core, LoadPage PROVE Core'
<1> USE DEF Core
<1>1. UNCHANGED <<disk, noticed, polled, recent, suppressed, pusher, parsed, revision,
                  served, pending, flushing, closed, announced, missed, silent, written, overtaken>>
  BY DEF LoadPage, server, hub, history
<1>2. /\ link' = "down" /\ queue' = <<>> /\ connection' = 0 /\ shown' = Nothing
      /\ loads' = {[conn |-> 0, why |-> "open"]} /\ answers' = {}
  BY DEF LoadPage
<1>3. TypeOK'
  <2>1. queue' \in Seq(Event) /\ Len(queue') = 0
    BY <1>2
  <2>2. 0 <= Buffer + 1
    BY SyncAssumption DEF SyncAssumption
  <2>3. loads' \subseteq Request /\ answers' \subseteq Response
    BY <1>2 DEF Request
  <2>4. QED
    BY <1>1, <1>2, <2>1, <2>2, <2>3 DEF TypeOK
<1>4. DiskIsLatest'
  BY <1>1, <1>2 DEF DiskIsLatest
<1>5. /\ RevisionsAreFresh'
      /\ ~overtaken' => StoredIsServed' /\ ChangesAreParsed' /\ ChangesAreAnnounced'
  BY <1>1, ServerKeeps, AnnouncedKeeps
<1>6. ConnectionsAreCounted'
  BY <1>2 DEF ConnectionsAreCounted
<1>7. ASSUME ~overtaken' PROVE CopiesAreOrdered'
  <2>1. ServerCopies' \subseteq ServerCopies
    BY <1>1, <1>2 DEF ServerCopies, CopyOf, At
  <2>2. ClientCopies' = {}
    BY <1>2 DEF ClientCopies
  <2>3. InOrder(ServerCopies')
    BY <1>1, <1>7, <2>1 DEF CopiesAreOrdered, InOrder
  <2>4. QED
    BY <1>1, <1>7, <2>1, <2>2, <2>3 DEF CopiesAreOrdered, InOrder
<1>8. ASSUME ~overtaken' PROVE ShownIsServed'
  BY <1>2 DEF ShownIsServed
<1>9. LatestIsDelivered' /\ BrowserIsTold'
  BY <1>2 DEF LatestIsDelivered, BrowserIsTold, Listening
<1>10. QED
  BY <1>3, <1>4, <1>5, <1>6, <1>7, <1>8, <1>9

(* The greeting carries what is served; nobody listens yet.                *)
LEMMA GreetStep ==
  ASSUME Core, Greet PROVE Core'
<1> USE DEF Core
<1>1. UNCHANGED <<disk, noticed, polled, recent, suppressed, pusher, parsed, revision,
                  served, pending, flushing, closed, connection, loads, answers, shown,
                  announced, missed, silent, written, overtaken>>
  BY DEF Greet, server, hub, client, history
<1>2. PICK g \in Event : g = [rev |-> served.rev, files |-> served.files, changed |-> {},
                             contents |-> {}]
  BY ServerTypes DEF Event
<1>3. link = "subscribed" /\ link' = "greeted" /\ queue' = <<g>> \o queue
  BY <1>2 DEF Greet
<1>4. /\ queue' \in Seq(Event) /\ Len(queue') = Len(queue) + 1 /\ queue' # <<>>
      /\ Head(queue') = g /\ queue'[1] = g /\ 1 \in DOMAIN queue'
      /\ \A i \in DOMAIN queue' : queue'[i] = g \/ \E j \in DOMAIN queue : queue'[i] = queue[j]
  <2>1. queue \in Seq(Event) /\ <<g>> \in Seq(Event)
    BY DEF TypeOK
  <2>2. /\ queue' \in Seq(Event) /\ Len(queue') = Len(queue) + 1 /\ Len(queue) \in Nat
        /\ queue'[1] = g /\ \A i \in 2 .. Len(queue) + 1 : queue'[i] = queue[i - 1]
    BY <1>3, <2>1
  <2>3. DOMAIN queue = 1 .. Len(queue) /\ DOMAIN queue' = 1 .. (Len(queue) + 1)
    BY <2>1, <2>2
  <2>4. ASSUME NEW i \in DOMAIN queue'
        PROVE  queue'[i] = g \/ \E j \in DOMAIN queue : queue'[i] = queue[j]
    <3>1. CASE i = 1
      BY <2>2, <3>1
    <3>2. CASE i # 1
      <4>1. i \in 2 .. Len(queue) + 1 /\ i - 1 \in DOMAIN queue
        BY <2>2, <2>3, <3>2
      <4>2. QED
        BY <2>2, <4>1
    <3>3. QED
      BY <3>1, <3>2
  <2>5. queue' # <<>> /\ Head(queue') = g /\ 1 \in DOMAIN queue'
    BY <2>2, <2>3
  <2>6. QED
    BY <2>2, <2>4, <2>5
<1>5. g # Nothing /\ g.rev = served.rev /\ g.files = served.files /\ CopyOf(g) = served
  BY <1>2, NothingAssumption, ServerTypes DEF CopyOf, Copy
<1>6. TypeOK'
  <2>1. Len(queue) <= Buffer /\ Len(queue) \in Nat
    BY <1>3 DEF ConnectionsAreCounted, TypeOK
  <2>2. Len(queue') <= Buffer + 1
    BY <1>4, <2>1, SyncAssumption DEF SyncAssumption
  <2>3. QED
    BY <1>1, <1>3, <1>4, <2>2 DEF TypeOK
<1>7. DiskIsLatest'
  BY <1>1, <1>4, <1>5 DEF DiskIsLatest
<1>8. /\ RevisionsAreFresh'
      /\ ~overtaken' => StoredIsServed' /\ ChangesAreParsed' /\ ChangesAreAnnounced'
  BY <1>1, ServerKeeps, AnnouncedKeeps
<1>9. ConnectionsAreCounted'
  BY <1>1, <1>3, <1>4 DEF ConnectionsAreCounted
<1>10. ASSUME ~overtaken' PROVE CopiesAreOrdered'
  <2>1. ServerCopies' \subseteq ServerCopies
    <3>1. \A i \in DOMAIN queue' : CopyOf(queue'[i]) \in ServerCopies
      BY <1>4, <1>5 DEF ServerCopies
    <3>2. ASSUME NEW c \in ServerCopies' PROVE c \in ServerCopies
      <4>1. CASE \E i \in DOMAIN queue' : c = CopyOf(queue'[i])
        BY <3>1, <4>1
      <4>2. CASE ~\E i \in DOMAIN queue' : c = CopyOf(queue'[i])
        BY <1>1, <4>2 DEF ServerCopies, CopyOf, At
      <4>3. QED
        BY <4>1, <4>2
    <3>3. QED
      BY <3>2
  <2>2. ClientCopies' = ClientCopies /\ (Attached' => Attached)
    BY <1>1, <1>3 DEF ClientCopies, Attached, CopyOf
  <2>3. QED
    BY <1>1, <1>10, <2>1, <2>2, CopiesKept
<1>11. ASSUME ~overtaken' PROVE ShownIsServed'
  BY <1>1, <1>3, <1>11 DEF ShownIsServed
<1>12. LatestIsDelivered'
  <2>1. LatestIsOnItsWay'
    BY <1>1, <1>4, <1>5 DEF LatestIsOnItsWay
  <2>2. QED
    BY <1>3, <2>1 DEF LatestIsDelivered, Listening
<1>13. BrowserIsTold'
  BY <1>3 DEF BrowserIsTold, Listening
<1>14. QED
  BY <1>6, <1>7, <1>8, <1>9, <1>10, <1>11, <1>12, <1>13

(* The page has nothing yet of the connection it begins but the request of *)
(* the workspace; what was published since the greeting is on its way.     *)
LEMMA OpenStep ==
  ASSUME Core, Open PROVE Core'
<1> USE DEF Core
<1>1. UNCHANGED <<disk, noticed, polled, recent, suppressed, pusher, parsed, revision,
                  served, pending, flushing, closed, queue, answers, shown, announced,
                  missed, silent, written, overtaken>>
  BY DEF Open, server, hub, history
<1>2. connection \in Nat /\ connection + 1 \in Nat
  BY BrowserTypes
<1>3. PICK l \in Request : l = [conn |-> connection + 1, why |-> "open"]
  BY <1>2 DEF Request
<1>4. /\ link = "greeted" /\ link' = "up" /\ connection' = connection + 1
      /\ loads' = loads \cup {l} /\ l.conn = connection'
  BY <1>3 DEF Open
<1>5. queue # <<>>
  BY <1>4 DEF ConnectionsAreCounted
<1>6. ~ShowsCurrent' /\ (\A a \in answers : a.conn # connection') /\ ClientCopies' = {}
  <2>1. shown # Nothing => shown.conn \in Nat /\ shown.conn <= connection
    BY BrowserTypes DEF ConnectionsAreCounted
  <2>2. \A a \in answers : a.conn \in Nat /\ a.conn <= connection
    BY BrowserTypes DEF ConnectionsAreCounted
  <2>3. (shown # Nothing => shown.conn # connection') /\ \A a \in answers : a.conn # connection'
    BY <1>2, <1>4, <2>1, <2>2
  <2>4. QED
    BY <1>1, <2>3 DEF ShowsCurrent, ClientCopies
<1>7. TypeOK'
  BY <1>1, <1>2, <1>3, <1>4 DEF TypeOK
<1>8. DiskIsLatest'
  BY <1>1 DEF DiskIsLatest
<1>9. /\ RevisionsAreFresh'
      /\ ~overtaken' => StoredIsServed' /\ ChangesAreParsed' /\ ChangesAreAnnounced'
  BY <1>1, ServerKeeps, AnnouncedKeeps
<1>10. ConnectionsAreCounted'
  <2>1. \A r \in loads \cup answers : r.conn \in Nat /\ r.conn <= connection
    BY BrowserTypes DEF ConnectionsAreCounted
  <2>2. \A r \in loads' \cup answers' : r.conn <= connection'
    BY <1>1, <1>2, <1>3, <1>4, <2>1
  <2>3. shown # Nothing => shown.conn \in Nat /\ shown.conn <= connection
    BY BrowserTypes DEF ConnectionsAreCounted
  <2>4. shown' # Nothing => shown'.conn <= connection'
    BY <1>1, <1>2, <1>4, <2>3
  <2>5. QED
    BY <1>1, <1>4, <2>2, <2>4 DEF ConnectionsAreCounted
<1>11. ASSUME ~overtaken' PROVE CopiesAreOrdered'
  <2>1. ServerCopies' = ServerCopies
    BY <1>1 DEF ServerCopies, CopyOf, At
  <2>2. InOrder(ServerCopies') /\ \A c \in ServerCopies' : c.rev <= served'.rev
    BY <1>1, <1>11, <2>1 DEF CopiesAreOrdered
  <2>3. ServerCopies' \cup ClientCopies' = ServerCopies'
    BY <1>6
  <2>4. QED
    BY <1>6, <2>2, <2>3 DEF CopiesAreOrdered, InOrder
<1>12. ASSUME ~overtaken' PROVE ShownIsServed'
  <2>1. \E r \in loads' \cup answers' : r.conn = connection'
    BY <1>4
  <2>2. QED
    BY <1>1, <1>5, <1>6, <1>12, <2>1 DEF ShownIsServed
<1>13. ASSUME ~overtaken' PROVE LatestIsDelivered'
  <2>1. ~closed => LatestIsOnItsWay
    BY <1>1, <1>4, <1>13 DEF LatestIsDelivered
  <2>2. LatestIsOnItsWay => LatestIsOnItsWay'
    BY <1>1 DEF LatestIsOnItsWay, At
  <2>3. QED
    BY <1>1, <1>4, <2>1, <2>2 DEF LatestIsDelivered, Listening
<1>14. ASSUME ~overtaken' PROVE BrowserIsTold'
  <2> SUFFICES ASSUME NEW p \in Path PROVE Told(p)'
    BY DEF BrowserIsTold
  <2>1. CASE served.files[p] = disk[p]
    BY <1>1, <1>4, <2>1 DEF Told, LoadOnItsWay
  <2>2. CASE served.files[p] # disk[p]
    BY <1>1, <1>9, <1>14, <2>2 DEF ChangesAreAnnounced, Told
  <2>3. QED
    BY <2>1, <2>2
<1>15. QED
  BY <1>7, <1>8, <1>9, <1>10, <1>11, <1>12, <1>13, <1>14

-----------------------------------------------------------------------------
(* The browser *)

(* The page holds a copy of what is served now.                            *)
LEMMA AnswerStep ==
  ASSUME Core, NEW l \in loads, Answer(l) PROVE Core'
<1> USE DEF Core
<1>1. UNCHANGED <<disk, noticed, polled, recent, suppressed, pusher, parsed, revision,
                  served, pending, flushing, link, closed, queue, connection, shown,
                  announced, missed, silent, written, overtaken>>
  BY DEF Answer, server, hub, stream, history
<1>2. PICK a \in Response : a = [conn |-> l.conn, rev |-> served.rev, files |-> served.files]
  <2>1. l.conn \in Nat
    BY BrowserTypes
  <2>2. [conn |-> l.conn, rev |-> served.rev, files |-> served.files] \in Response
    BY <2>1, ServerTypes DEF Response
  <2>3. QED
    BY <2>2
<1>3. a.conn = l.conn /\ a.rev = served.rev /\ a.files = served.files /\ CopyOf(a) = served
  BY <1>2, ServerTypes DEF CopyOf, Copy
<1>4. loads' = loads \ {l} /\ answers' = answers \cup {a}
  BY <1>2 DEF Answer
<1>5. TypeOK'
  BY <1>1, <1>4 DEF TypeOK
<1>6. DiskIsLatest'
  BY <1>1, <1>3, <1>4 DEF DiskIsLatest
<1>7. /\ RevisionsAreFresh'
      /\ ~overtaken' => StoredIsServed' /\ ChangesAreParsed' /\ ChangesAreAnnounced'
      /\ \A p \in Path : Announced(p) => Announced(p)'
  BY <1>1, ServerKeeps, AnnouncedKeeps
<1>8. ConnectionsAreCounted'
  BY <1>1, <1>3, <1>4 DEF ConnectionsAreCounted
<1>9. ASSUME ~overtaken' PROVE CopiesAreOrdered'
  <2>1. ServerCopies' = ServerCopies /\ served \in ServerCopies
    BY <1>1 DEF ServerCopies, CopyOf, At
  <2>2. Attached' => Attached
    BY <1>1, <1>4 DEF Attached
  <2>3. CASE l.conn = connection
    <3>1. ClientCopies' \subseteq ClientCopies \cup {served}
      BY <1>1, <1>3, <1>4 DEF ClientCopies, CopyOf
    <3>2. InOrder(ServerCopies \cup ClientCopies)
          /\ \A c \in ClientCopies : c.rev <= served.rev
      BY <1>1, <1>9, <2>3 DEF CopiesAreOrdered, Attached
    <3>3. InOrder(ServerCopies' \cup ClientCopies') /\ InOrder(ClientCopies')
      BY <2>1, <3>1, <3>2 DEF InOrder
    <3>4. \A c \in ClientCopies' : c.rev <= served.rev
      BY <3>1, <3>2, ServerTypes
    <3>5. QED
      BY <1>1, <1>9, <2>1, <3>3, <3>4 DEF CopiesAreOrdered
  <2>4. CASE l.conn # connection
    <3>1. ClientCopies' = ClientCopies
      BY <1>1, <1>3, <1>4, <2>4 DEF ClientCopies, CopyOf
    <3>2. QED
      BY <1>1, <1>9, <2>1, <2>2, <3>1, CopiesKept
  <2>5. QED
    BY <2>3, <2>4
<1>10. ASSUME ~overtaken' PROVE ShownIsServed'
  <2>1. Below(served.files, served.files)
    BY ServerTypes, BelowSelf
  <2>2. QED
    BY <1>1, <1>3, <1>4, <1>10, <2>1 DEF ShownIsServed
<1>11. ASSUME ~overtaken' PROVE LatestIsDelivered'
  BY <1>1, <1>11 DEF LatestIsDelivered, LatestIsOnItsWay, Listening, ShowsCurrent, At
<1>12. ASSUME ~overtaken' PROVE BrowserIsTold'
  <2>1. ASSUME NEW p \in Path, Told(p) PROVE Told(p)'
    <3>1. EventOnItsWay(p) => EventOnItsWay(p)'
      BY <1>1 DEF EventOnItsWay, Names, Delivers, At
    <3>2. LoadOnItsWay(p) => LoadOnItsWay(p)'
      BY <1>1, <1>3, <1>4 DEF LoadOnItsWay
    <3>3. ShownRight(p) => ShownRight(p)'
      BY <1>1 DEF ShownRight, ShowsCurrent
    <3>4. QED
      BY <1>7, <2>1, <3>1, <3>2, <3>3 DEF Told
  <2>2. QED
    BY <1>1, <1>12, <2>1 DEF BrowserIsTold, Listening
<1>13. QED
  BY <1>1, <1>5, <1>6, <1>7, <1>8, <1>9, <1>10, <1>11, <1>12

(* Nobody asks again: whatever the load was to bring is silent.            *)
LEMMA LoadFailsStep ==
  ASSUME Core, NEW l \in loads, LoadFails(l) PROVE Core'
<1> USE DEF Core
<1>1. UNCHANGED <<disk, noticed, polled, recent, suppressed, pusher, parsed, revision,
                  served, pending, flushing, link, closed, queue, connection, answers, shown,
                  announced, missed, written, overtaken>>
  BY DEF LoadFails, server, hub, stream
<1>2. /\ loads' = loads \ {l}
      /\ silent' = IF l.conn = connection THEN Path ELSE silent
  BY DEF LoadFails
<1>3. silent \subseteq silent' /\ silent' \subseteq Path
  BY <1>2 DEF TypeOK
<1>4. TypeOK'
  BY <1>1, <1>2, <1>3 DEF TypeOK
<1>5. DiskIsLatest' /\ ConnectionsAreCounted'
  BY <1>1, <1>2 DEF DiskIsLatest, ConnectionsAreCounted
<1>6. /\ RevisionsAreFresh'
      /\ ~overtaken' => StoredIsServed' /\ ChangesAreParsed' /\ ChangesAreAnnounced'
      /\ \A p \in Path : Announced(p) => Announced(p)'
  BY <1>1, <1>3, ServerKeeps, AnnouncedKeeps
<1>7. ASSUME ~overtaken' PROVE CopiesAreOrdered'
  <2>1. ServerCopies' = ServerCopies /\ ClientCopies' = ClientCopies
    BY <1>1 DEF ServerCopies, ClientCopies, CopyOf, At
  <2>2. Attached' => Attached
    BY <1>1, <1>2 DEF Attached
  <2>3. QED
    BY <1>1, <1>7, <2>1, <2>2, CopiesKept
<1>8. ASSUME ~overtaken' PROVE ShownIsServed' /\ LatestIsDelivered'
  <2>1. (\E r \in loads \cup answers : r.conn = connection) =>
          silent' = Path \/ \E r \in loads' \cup answers' : r.conn = connection
    BY <1>1, <1>2
  <2>2. silent = Path => silent' = Path
    BY <1>3
  <2>3. ShownIsServed'
    BY <1>1, <1>8, <2>1, <2>2 DEF ShownIsServed
  <2>4. QED
    BY <1>1, <1>8, <2>3
       DEF LatestIsDelivered, LatestIsOnItsWay, Listening, ShowsCurrent, At
<1>9. ASSUME ~overtaken' PROVE BrowserIsTold'
  <2>1. ASSUME NEW p \in Path, Told(p) PROVE Told(p)'
    <3>1. EventOnItsWay(p) => EventOnItsWay(p)'
      BY <1>1 DEF EventOnItsWay, Names, Delivers, At
    <3>2. LoadOnItsWay(p) => p \in silent' \/ LoadOnItsWay(p)'
      BY <1>1, <1>2 DEF LoadOnItsWay
    <3>3. ShownRight(p) => ShownRight(p)'
      BY <1>1 DEF ShownRight, ShowsCurrent
    <3>4. QED
      BY <1>6, <2>1, <3>1, <3>2, <3>3 DEF Told, Announced
  <2>2. QED
    BY <1>1, <1>9, <2>1 DEF BrowserIsTold, Listening
<1>10. QED
  BY <1>1, <1>4, <1>5, <1>6, <1>7, <1>8, <1>9

(* What the browser shows after an event, and after a full load.           *)
LEMMA FieldTypes ==
  ASSUME NEW f \in Files
  PROVE  /\ \A p \in Path : f[p] \in Nat /\ Stated(f[p]) \in Nat \cup {Nothing}
         /\ StatedBy(f) \in Field
<1>1. \A p \in Path : f[p] \in Nat
  BY DEF Files
<1>2. \A p \in Path : Stated(f[p]) \in Nat \cup {Nothing}
  BY <1>1 DEF Stated
<1>3. QED
  BY <1>1, <1>2 DEF StatedBy, Field

LEMMA MergedType ==
  ASSUME TypeOK, NEW e \in Event
  PROVE  /\ Merged(e) \in View /\ Merged(e) # Nothing
         /\ Merged(e).conn = connection /\ Merged(e).rev = e.rev /\ Merged(e).files = e.files
         /\ Merged(e).owner = Cleared(e) /\ Merged(e).description = Kept(e)
         /\ Merged(e).content = Contents(e) /\ Merged(e).how = "event"
<1>1. e.rev \in Nat /\ e.files \in Files /\ connection \in Nat
  BY EventTypes, BrowserTypes
<1>2. \A p \in Path : Stated(e.files[p]) \in Nat \cup {Nothing}
  BY <1>1, FieldTypes
<1>3. shown # Nothing =>
        \A p \in Path : /\ shown.owner[p] \in Nat \cup {Nothing}
                        /\ shown.description[p] \in Nat \cup {Nothing}
                        /\ shown.content[p] \in Nat \cup {Nothing}
  BY DEF TypeOK, View, Field
<1>4. Cleared(e) \in Field
  BY <1>2, <1>3 DEF Cleared, Field
<1>5. Kept(e) \in Field
  BY <1>2, <1>3 DEF Kept, Field
<1>6. Contents(e) \in Field
  BY <1>2, <1>3 DEF Contents, Field
<1>7. Merged(e) \in View
  BY <1>1, <1>4, <1>5, <1>6 DEF Merged, View
<1>8. QED
  BY <1>7, NothingAssumption DEF Merged

LEMMA LoadedType ==
  ASSUME NEW conn \in Nat, NEW rev \in Nat, NEW f \in Files
  PROVE  /\ Loaded(conn, rev, f) \in View /\ Loaded(conn, rev, f) # Nothing
         /\ Loaded(conn, rev, f).conn = conn /\ Loaded(conn, rev, f).rev = rev
         /\ Loaded(conn, rev, f).files = f /\ Loaded(conn, rev, f).owner = StatedBy(f)
         /\ Loaded(conn, rev, f).description = StatedBy(f)
         /\ Loaded(conn, rev, f).content = StatedBy(f) /\ Loaded(conn, rev, f).how = "load"
         /\ \A p \in Path : Loaded(conn, rev, f).owner[p] = Stated(f[p])
<1>1. StatedBy(f) \in Field
  BY FieldTypes
<1>2. Loaded(conn, rev, f) \in View
  BY <1>1 DEF Loaded, View
<1>3. \A p \in Path : StatedBy(f)[p] = Stated(f[p])
  BY DEF StatedBy
<1>4. Loaded(conn, rev, f).owner = StatedBy(f)
  BY DEF Loaded
<1>5. QED
  BY <1>2, <1>3, <1>4, NothingAssumption DEF Loaded

(* The first event of the stream, and what is left of it.                  *)
LEMMA NextEvent ==
  ASSUME TypeOK, queue # <<>>, queue' = Tail(queue)
  PROVE  /\ Head(queue) \in Event
         /\ 1 \in DOMAIN queue /\ queue[1] = Head(queue)
         /\ queue' \in Seq(Event) /\ Len(queue') <= Len(queue) /\ Len(queue) \in Nat
         /\ Len(queue') \in Nat
         /\ \A i \in DOMAIN queue' : \E j \in DOMAIN queue : queue'[i] = queue[j]
         /\ \A j \in DOMAIN queue :
              queue[j] = Head(queue) \/ \E i \in DOMAIN queue' : queue'[i] = queue[j]
<1>1. queue \in Seq(Event) /\ Len(queue) \in Nat /\ Len(queue) # 0
  BY DEF TypeOK
<1>2. /\ queue' \in Seq(Event) /\ Len(queue') = Len(queue) - 1
      /\ \A i \in 1 .. Len(queue) - 1 : queue'[i] = queue[i + 1]
  BY <1>1
<1>3. DOMAIN queue = 1 .. Len(queue) /\ DOMAIN queue' = 1 .. (Len(queue) - 1)
  BY <1>1, <1>2
<1>4. 1 \in DOMAIN queue /\ queue[1] = Head(queue) /\ Head(queue) \in Event
  BY <1>1, <1>3
<1>5. ASSUME NEW i \in DOMAIN queue' PROVE \E j \in DOMAIN queue : queue'[i] = queue[j]
  <2>1. i + 1 \in DOMAIN queue /\ queue'[i] = queue[i + 1]
    BY <1>1, <1>2, <1>3
  <2>2. QED
    BY <2>1
<1>6. ASSUME NEW j \in DOMAIN queue
      PROVE  queue[j] = Head(queue) \/ \E i \in DOMAIN queue' : queue'[i] = queue[j]
  <2>1. CASE j = 1
    BY <1>4, <2>1
  <2>2. CASE j # 1
    <3>1. j - 1 \in DOMAIN queue' /\ queue'[j - 1] = queue[j]
      BY <1>1, <1>2, <1>3, <2>2
    <3>2. QED
      BY <3>1
  <2>3. QED
    BY <2>1, <2>2
<1>7. QED
  BY <1>1, <1>2, <1>4, <1>5, <1>6

(* What is admitted is no older than what was shown of this connection; a  *)
(* response is no older than what was shown of an earlier one.             *)
LEMMA ReceiveKeepsUp ==
  ASSUME Core, Receive, ~overtaken, ShowsCurrent,
         Admits(connection, Head(queue).rev, "event")
  PROVE  Below(shown.files, Head(queue).files)
<1> DEFINE e == Head(queue)
<1>1. link = "up" /\ queue # <<>> /\ queue' = Tail(queue)
  BY DEF Receive
<1>2. e \in Event /\ 1 \in DOMAIN queue /\ queue[1] = e
  BY <1>1, NextEvent DEF Core
<1> HIDE DEF e
<1>3. shown.rev <= e.rev
  <2>1. e.rev > shown.rev
    BY DEF Admits, ShowsCurrent, e
  <2>2. shown.rev \in Nat /\ e.rev \in Nat
    BY <1>2, EventTypes, BrowserTypes DEF Core, ShowsCurrent
  <2>3. QED
    BY <2>1, <2>2
<1>4. CopyOf(e) \in ServerCopies /\ CopyOf(shown) \in ClientCopies
  BY <1>2 DEF ServerCopies, ClientCopies, ShowsCurrent
<1>5. InOrder(ServerCopies \cup ClientCopies)
  BY <1>1 DEF Core, CopiesAreOrdered, Attached
<1>6. Below(CopyOf(shown).files, CopyOf(e).files)
  BY <1>3, <1>4, <1>5 DEF InOrder, CopyOf
<1>7. QED
  BY <1>6 DEF CopyOf, e

LEMMA ArriveKeepsUp ==
  ASSUME Core, NEW a \in answers, Arrive(a), ~overtaken, shown # Nothing,
         Admits(a.conn, a.rev, "load")
  PROVE  Below(shown.files, a.files)
<1>1. a.conn = connection
  BY DEF Admits
<1>2. CASE shown.conn # connection
  BY <1>1, <1>2 DEF Core, ShownIsServed
<1>3. CASE shown.conn = connection
  <2>1. shown.rev <= a.rev
    <3>1. a.rev > shown.rev \/ a.rev = shown.rev
      BY <1>1, <1>3 DEF Admits
    <3>2. shown.rev \in Nat /\ a.rev \in Nat
      BY BrowserTypes DEF Core
    <3>3. QED
      BY <3>1, <3>2
  <2>2. CopyOf(a) \in ClientCopies /\ CopyOf(shown) \in ClientCopies
    BY <1>1, <1>3 DEF ClientCopies
  <2>3. InOrder(ClientCopies)
    BY DEF Core, CopiesAreOrdered
  <2>4. Below(CopyOf(shown).files, CopyOf(a).files)
    BY <2>1, <2>2, <2>3 DEF InOrder, CopyOf
  <2>5. QED
    BY <2>4 DEF CopyOf
<1>4. QED
  BY <1>2, <1>3

(* An event is admitted, or the page has already a state that is no older. *)
LEMMA ReceiveStep ==
  ASSUME Core, FieldsAreStated, Receive PROVE Core'
<1> USE DEF Core
<1>1. /\ UNCHANGED <<disk, noticed, polled, recent, suppressed, pusher, parsed, revision,
                     served, pending, flushing, link, closed, connection, answers,
                     announced, missed, written, overtaken>>
      /\ link = "up" /\ queue # <<>> /\ queue' = Tail(queue)
  BY DEF Receive, server, hub
<1>2. PICK e \in Event : e = Head(queue)
  BY <1>1, NextEvent
<1>3. /\ 1 \in DOMAIN queue /\ queue[1] = e
      /\ queue' \in Seq(Event) /\ Len(queue') <= Len(queue) /\ Len(queue) \in Nat
      /\ Len(queue') \in Nat
      /\ \A i \in DOMAIN queue' : \E j \in DOMAIN queue : queue'[i] = queue[j]
      /\ \A j \in DOMAIN queue : queue[j] = e \/ \E i \in DOMAIN queue' : queue'[i] = queue[j]
  BY <1>1, <1>2, NextEvent
<1>4. e.rev \in Nat /\ e.files \in Files /\ e.changed \subseteq Path
  BY EventTypes
<1>5. /\ connection \in Nat
      /\ shown # Nothing => /\ shown \in View /\ shown.conn \in Nat /\ shown.rev \in Nat
                            /\ shown.files \in Files
  BY BrowserTypes
<1> DEFINE ok == Admits(connection, e.rev, "event")
           view == Merged(e)
<1>6. /\ shown' = IF ok THEN view ELSE shown
      /\ loads' = IF ok /\ shown = Nothing
                  THEN loads \cup {[conn |-> connection, why |-> "hydrate"]} ELSE loads
      /\ silent' = IF ~ok /\ shown.how = "event" THEN silent \cup e.changed ELSE silent
  BY <1>2 DEF Receive
<1>7. /\ view \in View /\ view # Nothing
      /\ view.conn = connection /\ view.rev = e.rev /\ view.files = e.files
      /\ view.owner = Cleared(e) /\ view.how = "event"
  BY MergedType
<1>8. ~ok => /\ shown # Nothing /\ shown.conn = connection
             /\ e.rev <= shown.rev
  <2>1. ~ok => shown # Nothing /\ shown.conn = connection /\ ~(e.rev > shown.rev)
    BY DEF Admits
  <2>2. QED
    BY <1>4, <1>5, <2>1
<1>9. ok /\ ShowsCurrent => shown.rev < e.rev
  <2>1. ok /\ ShowsCurrent => e.rev > shown.rev
    BY DEF Admits, ShowsCurrent
  <2>2. QED
    BY <1>4, <1>5, <2>1 DEF ShowsCurrent
<1>10. ok /\ ~overtaken /\ ShowsCurrent => Below(shown.files, e.files)
  BY <1>2, ReceiveKeepsUp
<1> HIDE DEF ok, view
<1>11. /\ ok => shown' = view
       /\ ~ok => shown' = shown
       /\ shown' # Nothing /\ shown'.conn = connection
  BY <1>6, <1>7, <1>8
<1>12. /\ silent \subseteq silent' /\ silent' \subseteq Path
       /\ loads \subseteq loads' /\ loads' \subseteq Request
       /\ \A l \in loads' : l \in loads \/ l.conn = connection
  <2>1. [conn |-> connection, why |-> "hydrate"] \in Request
    BY <1>5 DEF Request
  <2>2. loads' \subseteq loads \cup {[conn |-> connection, why |-> "hydrate"]}
        /\ loads \subseteq loads'
    BY <1>6
  <2>3. silent \subseteq silent' /\ silent' \subseteq silent \cup e.changed
    BY <1>6
  <2>4. loads \subseteq Request /\ silent \subseteq Path
    BY DEF TypeOK
  <2>5. QED
    BY <1>4, <2>1, <2>2, <2>3, <2>4
<1>13. TypeOK'
  <2>1. shown' \in View \cup {Nothing}
    BY <1>7, <1>11 DEF TypeOK
  <2>2. Len(queue') <= Buffer + 1
    BY <1>3, SyncAssumption DEF TypeOK, SyncAssumption
  <2>3. QED
    BY <1>1, <1>3, <1>12, <2>1, <2>2 DEF TypeOK
<1>14. DiskIsLatest'
  <2>1. Below(e.files, disk) /\ \A i \in DOMAIN queue' : Below(queue'[i].files, disk)
    BY <1>3 DEF DiskIsLatest
  <2>2. shown' # Nothing => Below(shown'.files, disk)
    BY <1>7, <1>11, <2>1 DEF DiskIsLatest
  <2>3. QED
    BY <1>1, <2>1, <2>2 DEF DiskIsLatest
<1>15. /\ RevisionsAreFresh'
       /\ ~overtaken' => StoredIsServed' /\ ChangesAreParsed' /\ ChangesAreAnnounced'
       /\ \A p \in Path : Announced(p) => Announced(p)'
  BY <1>1, <1>12, ServerKeeps, AnnouncedKeeps
<1>16. ConnectionsAreCounted'
  <2>1. \A r \in loads' \cup answers' : r.conn <= connection
    BY <1>1, <1>5, <1>12 DEF ConnectionsAreCounted
  <2>2. QED
    BY <1>1, <1>5, <1>11, <2>1 DEF ConnectionsAreCounted
<1>17. ASSUME ~overtaken'
       PROVE  /\ CopyOf(e) \in ServerCopies
              /\ InOrder(ServerCopies \cup ClientCopies)
              /\ \A c \in ServerCopies \cup ClientCopies : c.rev <= served.rev
              /\ e.rev <= served.rev /\ Below(e.files, served.files)
              /\ ShowsCurrent => CopyOf(shown) \in ClientCopies /\ shown.rev <= served.rev
  <2>1. CopyOf(e) \in ServerCopies /\ served \in ServerCopies
    BY <1>3 DEF ServerCopies
  <2>2. /\ InOrder(ServerCopies) /\ InOrder(ServerCopies \cup ClientCopies)
        /\ \A c \in ServerCopies \cup ClientCopies : c.rev <= served.rev
    BY <1>1, <1>17 DEF CopiesAreOrdered, Attached
  <2>3. CopyOf(e).rev = e.rev /\ CopyOf(e).files = e.files
    BY DEF CopyOf
  <2>4. e.rev <= served.rev /\ Below(e.files, served.files)
    BY <2>1, <2>2, <2>3 DEF InOrder
  <2>5. ShowsCurrent => CopyOf(shown) \in ClientCopies
    BY DEF ShowsCurrent, ClientCopies
  <2>6. ShowsCurrent => shown.rev <= served.rev
    BY <2>2, <2>5 DEF CopyOf
  <2>7. QED
    BY <2>1, <2>2, <2>4, <2>5, <2>6
<1>18. ASSUME ~overtaken' PROVE CopiesAreOrdered'
  <2>1. ServerCopies' \subseteq ServerCopies
    <3>1. \A i \in DOMAIN queue' : CopyOf(queue'[i]) \in ServerCopies
      BY <1>3 DEF ServerCopies
    <3>2. ASSUME NEW c \in ServerCopies' PROVE c \in ServerCopies
      <4>1. CASE \E i \in DOMAIN queue' : c = CopyOf(queue'[i])
        BY <3>1, <4>1
      <4>2. CASE ~\E i \in DOMAIN queue' : c = CopyOf(queue'[i])
        BY <1>1, <4>2 DEF ServerCopies, CopyOf, At
      <4>3. QED
        BY <4>1, <4>2
    <3>3. QED
      BY <3>2
  <2>2. ClientCopies' \subseteq ClientCopies \cup {CopyOf(e)}
    <3>1. ok => CopyOf(shown') = CopyOf(e)
      BY <1>7, <1>11 DEF CopyOf
    <3>2. CASE ok
      BY <1>1, <1>11, <3>1, <3>2 DEF ClientCopies, CopyOf
    <3>3. CASE ~ok
      BY <1>1, <1>11, <3>3 DEF ClientCopies, CopyOf
    <3>4. QED
      BY <3>2, <3>3
  <2>3. ServerCopies' \cup ClientCopies' \subseteq ServerCopies \cup ClientCopies
    BY <1>17, <1>18, <2>1, <2>2
  <2>4. /\ InOrder(ServerCopies') /\ InOrder(ClientCopies')
        /\ InOrder(ServerCopies' \cup ClientCopies')
    BY <1>17, <1>18, <2>3 DEF InOrder
  <2>5. \A c \in ServerCopies' \cup ClientCopies' : c.rev <= served'.rev
    BY <1>1, <1>17, <1>18, <2>3
  <2>6. QED
    BY <2>4, <2>5 DEF CopiesAreOrdered
<1>19. ASSUME ~overtaken' PROVE ShownIsServed'
  <2>1. Below(shown'.files, served.files)
    <3>1. CASE ok
      BY <1>7, <1>11, <1>17, <1>19, <3>1
    <3>2. CASE ~ok
      BY <1>1, <1>8, <1>11, <1>19, <3>2 DEF ShownIsServed
    <3>3. QED
      BY <3>1, <3>2
  <2>2. \A a \in answers : Below(a.files, served.files)
    BY <1>1, <1>19 DEF ShownIsServed
  <2>3. QED
    BY <1>1, <1>11, <2>1, <2>2 DEF ShownIsServed
<1>20. ASSUME ~overtaken' PROVE LatestIsDelivered'
  <2>1. CASE ok /\ e.rev = served.rev
    BY <1>1, <1>7, <1>11, <2>1 DEF LatestIsDelivered, LatestIsOnItsWay, ShowsCurrent
  <2>2. CASE ~ok /\ e.rev = served.rev
    <3>1. ShowsCurrent /\ shown.rev = served.rev
      BY <1>5, <1>8, <1>17, <1>20, <2>2, ServerTypes DEF ShowsCurrent
    <3>2. QED
      BY <1>1, <1>11, <2>2, <3>1 DEF LatestIsDelivered, LatestIsOnItsWay, ShowsCurrent
  <2>3. CASE ShowsCurrent /\ shown.rev = served.rev
    <3>1. ~ok
      BY <1>4, <1>5, <1>9, <1>17, <1>20, <2>3 DEF ShowsCurrent
    <3>2. QED
      BY <1>1, <1>11, <2>3, <3>1 DEF LatestIsDelivered, LatestIsOnItsWay, ShowsCurrent
  <2>4. CASE e.rev # served.rev /\ ~(ShowsCurrent /\ shown.rev = served.rev)
    <3> SUFFICES ASSUME Listening PROVE LatestIsDelivered'
      BY <1>1 DEF LatestIsDelivered, LatestIsOnItsWay, Listening
    <3>1. \/ \E t \in Pusher : \/ At(t, {"serving"})
                               \/ At(t, {"loaded"}) /\ pusher[t].rev = served.rev
          \/ \E d \in {pending, flushing} \ {Nothing} : d.rev = served.rev
          \/ \E j \in DOMAIN queue : queue[j].rev = served.rev
      BY <1>1, <1>20, <2>4 DEF LatestIsDelivered, LatestIsOnItsWay
    <3>2. CASE \E t \in Pusher : \/ At(t, {"serving"})
                                 \/ At(t, {"loaded"}) /\ pusher[t].rev = served.rev
      BY <1>1, <3>2 DEF LatestIsDelivered, LatestIsOnItsWay, At
    <3>3. CASE \E d \in {pending, flushing} \ {Nothing} : d.rev = served.rev
      BY <1>1, <3>3 DEF LatestIsDelivered, LatestIsOnItsWay
    <3>4. CASE \E j \in DOMAIN queue : queue[j].rev = served.rev
      <4>1. PICK i \in DOMAIN queue' : queue'[i].rev = served.rev
        BY <1>3, <2>4, <3>4
      <4>2. QED
        BY <1>1, <4>1 DEF LatestIsDelivered, LatestIsOnItsWay
    <3>5. QED
      BY <3>1, <3>2, <3>3, <3>4
  <2>5. QED
    BY <2>1, <2>2, <2>3, <2>4
<1>21. ASSUME ~overtaken' PROVE BrowserIsTold'
  <2> SUFFICES ASSUME Listening, NEW p \in Path PROVE Told(p)'
    BY <1>1 DEF BrowserIsTold, Listening
  <2>1. /\ disk \in Files /\ disk' = disk
        /\ Below(e.files, disk) /\ (shown # Nothing => Below(shown.files, disk))
    BY <1>1, <1>3, ServerTypes DEF DiskIsLatest
  <2>2. CASE Announced(p)
    BY <1>15, <2>2 DEF Told
  <2>3. CASE LoadOnItsWay(p)
    BY <1>1, <1>12, <2>3 DEF Told, LoadOnItsWay
  <2>4. ASSUME ok, e.files[p] = disk[p], Cleared(e)[p] = Stated(disk[p])
        PROVE  Told(p)'
    <3>1. shown'.files = e.files /\ shown'.owner = Cleared(e)
      BY <1>7, <1>11, <2>4
    <3>2. ShowsCurrent'
      BY <1>1, <1>11 DEF ShowsCurrent
    <3>3. shown'.files[p] = disk'[p] /\ shown'.owner[p] = Stated(disk'[p])
      BY <2>1, <2>4, <3>1
    <3>4. QED
      BY <3>2, <3>3 DEF Told, ShownRight
  <2>5. CASE Names(e, p)
    <3>1. CASE ok
      <4>1. Cleared(e)[p] = Stated(e.files[p])
        BY <2>5 DEF Cleared, Names
      <4>2. QED
        BY <2>4, <2>5, <3>1, <4>1 DEF Names
    <3>2. CASE ~ok
      <4>1. CASE shown.how = "event"
        <5>1. p \in silent'
          BY <1>6, <2>5, <3>2, <4>1 DEF Names
        <5>2. QED
          BY <5>1 DEF Told, Announced
      <4>2. CASE shown.how # "event"
        <5>1. /\ shown # Nothing /\ shown.conn = connection /\ shown.files \in Files
              /\ shown.how = "load" /\ shown.owner[p] = Stated(shown.files[p])
          BY <1>5, <1>8, <3>2, <4>2 DEF View, FieldsAreStated, StatedBy
        <5>2. Below(e.files, shown.files)
          <6>1. CopyOf(shown) \in ClientCopies /\ CopyOf(e) \in ServerCopies
            BY <1>17, <1>21, <5>1 DEF ShowsCurrent
          <6>2. CopyOf(e).rev <= CopyOf(shown).rev
            BY <1>8, <3>2 DEF CopyOf
          <6>3. Below(CopyOf(e).files, CopyOf(shown).files)
            BY <1>17, <1>21, <6>1, <6>2 DEF InOrder
          <6>4. QED
            BY <6>3 DEF CopyOf
        <5>3. shown.files[p] = disk[p]
          <6>1. e.files[p] = disk[p]
            BY <2>5 DEF Names
          <6>2. QED
            BY <1>4, <2>1, <5>1, <5>2, <6>1, BelowAt
        <5>4. ShownRight(p)'
          BY <1>1, <1>11, <2>1, <3>2, <5>1, <5>3 DEF ShownRight, ShowsCurrent
        <5>5. QED
          BY <5>4 DEF Told
      <4>3. QED
        BY <4>1, <4>2
    <3>3. QED
      BY <3>1, <3>2
  <2>6. CASE EventOnItsWay(p) /\ ~Names(e, p)
    <3>1. EventOnItsWay(p)'
      BY <1>1, <1>3, <2>6 DEF EventOnItsWay, Names, Delivers, At
    <3>2. QED
      BY <3>1 DEF Told
  <2>7. CASE ShownRight(p)
    <3>1. CASE ok
      <4>1. /\ ShowsCurrent /\ shown # Nothing /\ shown.files[p] = disk[p] /\ shown.owner[p] = Stated(disk[p])
            /\ shown.files \in Files /\ Below(shown.files, e.files)
        BY <1>1, <1>5, <1>10, <1>21, <2>7, <3>1 DEF ShownRight, ShowsCurrent
      <4>2. e.files[p] = disk[p]
        BY <1>4, <2>1, <4>1, BelowAt
      <4>3. Cleared(e)[p] = Stated(disk[p])
        BY <4>1, <4>2 DEF Cleared, ShownRight, ShowsCurrent
      <4>4. QED
        BY <2>4, <3>1, <4>2, <4>3
    <3>2. CASE ~ok
      <4>1. ShownRight(p)'
        BY <1>1, <1>11, <2>7, <3>2 DEF ShownRight, ShowsCurrent
      <4>2. QED
        BY <4>1 DEF Told
    <3>3. QED
      BY <3>1, <3>2
  <2>8. Told(p)
    BY <1>1, <1>21 DEF BrowserIsTold
  <2>9. QED
    BY <2>2, <2>3, <2>5, <2>6, <2>7, <2>8 DEF Told
<1>22. QED
  BY <1>1, <1>13, <1>14, <1>15, <1>16, <1>18, <1>19, <1>20, <1>21

(* A response is admitted, or whatever it was to bring is silent, or it    *)
(* belongs to an earlier connection.                                       *)
LEMMA ArriveStep ==
  ASSUME Core, NEW a \in answers, Arrive(a) PROVE Core'
<1> USE DEF Core
<1>1. /\ UNCHANGED <<disk, noticed, polled, recent, suppressed, pusher, parsed, revision,
                     served, pending, flushing, link, closed, queue, connection, loads,
                     announced, missed, written, overtaken>>
      /\ answers' = answers \ {a}
  BY DEF Arrive, server, hub, stream
<1>2. /\ a.conn \in Nat /\ a.rev \in Nat /\ a.files \in Files
      /\ connection \in Nat
      /\ shown # Nothing => /\ shown \in View /\ shown.conn \in Nat /\ shown.rev \in Nat
                            /\ shown.files \in Files
  BY BrowserTypes
<1> DEFINE ok == Admits(a.conn, a.rev, "load")
           view == Loaded(a.conn, a.rev, a.files)
<1>3. /\ shown' = IF ok THEN view ELSE shown
      /\ silent' = IF ok /\ a.files = disk THEN {}
                   ELSE IF ~ok /\ a.conn = connection THEN Path ELSE silent
  BY DEF Arrive
<1>4. /\ view \in View /\ view # Nothing
      /\ view.conn = a.conn /\ view.rev = a.rev /\ view.files = a.files /\ view.how = "load"
      /\ \A p \in Path : view.owner[p] = Stated(view.files[p])
  BY <1>2, LoadedType
<1>5. ok => /\ a.conn = connection
            /\ ShowsCurrent => shown.rev <= a.rev
  <2>1. ok => /\ a.conn = connection
              /\ ShowsCurrent => a.rev > shown.rev \/ a.rev = shown.rev
    BY DEF Admits, ShowsCurrent
  <2>2. QED
    BY <1>2, <2>1 DEF ShowsCurrent
<1>6. ok /\ ~overtaken /\ shown # Nothing => Below(shown.files, a.files)
  BY ArriveKeepsUp
<1> HIDE DEF ok, view
<1>7. (ok => shown' = view) /\ (~ok => shown' = shown)
  BY <1>3
<1>8. silent' \subseteq Path
  BY <1>3 DEF TypeOK
<1>9. TypeOK'
  <2>1. shown' \in View \cup {Nothing}
    BY <1>4, <1>7 DEF TypeOK
  <2>2. QED
    BY <1>1, <1>8, <2>1 DEF TypeOK
<1>10. DiskIsLatest'
  <2>1. shown' # Nothing => Below(shown'.files, disk)
    BY <1>4, <1>7 DEF DiskIsLatest
  <2>2. QED
    BY <1>1, <2>1 DEF DiskIsLatest
<1>11. /\ RevisionsAreFresh'
       /\ ~overtaken' => StoredIsServed' /\ ChangesAreParsed'
  BY <1>1, ServerKeeps
<1>12. ConnectionsAreCounted'
  <2>1. shown' # Nothing => shown'.conn <= connection
    BY <1>4, <1>7 DEF ConnectionsAreCounted
  <2>2. QED
    BY <1>1, <2>1 DEF ConnectionsAreCounted
<1>13. ASSUME ~overtaken' PROVE CopiesAreOrdered'
  <2>1. ServerCopies' = ServerCopies /\ (Attached' <=> Attached)
    BY <1>1 DEF ServerCopies, Attached, CopyOf, At
  <2>2. ClientCopies' \subseteq ClientCopies
    <3>1. CASE ok
      <4>1. CopyOf(view) = CopyOf(a) /\ CopyOf(a) \in ClientCopies
        BY <1>4, <1>5, <3>1 DEF CopyOf, ClientCopies
      <4>2. QED
        BY <1>1, <1>7, <3>1, <4>1 DEF ClientCopies, CopyOf
    <3>2. CASE ~ok
      BY <1>1, <1>7, <3>2 DEF ClientCopies, CopyOf
    <3>3. QED
      BY <3>1, <3>2
  <2>3. QED
    BY <1>1, <1>13, <2>1, <2>2, CopiesKept
<1>14. ASSUME ~overtaken' PROVE ShownIsServed'
  <2>1. CASE ok
    <3>1. shown' = view /\ view.conn = connection /\ Below(view.files, served.files)
      BY <1>1, <1>4, <1>5, <1>7, <1>14, <2>1 DEF ShownIsServed
    <3>2. QED
      BY <1>1, <1>4, <1>14, <3>1 DEF ShownIsServed
  <2>2. CASE ~ok
    <3>1. shown # Nothing /\ shown.conn # connection => a.conn # connection
      BY <2>2 DEF Admits, ok
    <3>2. shown # Nothing /\ shown.conn # connection => silent' = silent
      BY <1>3, <2>2, <3>1
    <3>3. QED
      BY <1>1, <1>7, <1>14, <2>2, <3>1, <3>2 DEF ShownIsServed
  <2>3. QED
    BY <2>1, <2>2
<1>15. ASSUME ~overtaken' PROVE LatestIsDelivered'
  <2>1. CASE ok /\ ShowsCurrent /\ shown.rev = served.rev /\ Listening
    <3>1. CopyOf(a) \in ClientCopies
      BY <1>5, <2>1 DEF ClientCopies
    <3>2. CopyOf(a).rev <= served.rev
      BY <1>1, <1>15, <2>1, <3>1 DEF CopiesAreOrdered, Attached, Listening
    <3>3. a.rev = served.rev
      BY <1>2, <1>5, <2>1, <3>2, ServerTypes DEF CopyOf
    <3>4. QED
      BY <1>1, <1>4, <1>5, <1>7, <2>1, <3>3 DEF LatestIsDelivered, Listening, ShowsCurrent
  <2>2. CASE ~(ok /\ ShowsCurrent /\ shown.rev = served.rev /\ Listening)
    BY <1>1, <1>7, <1>15, <2>2 DEF LatestIsDelivered, LatestIsOnItsWay, Listening, ShowsCurrent, At
  <2>3. QED
    BY <2>1, <2>2
<1>16. ASSUME NEW p \in Path, ok, a.files[p] = disk[p] PROVE ShownRight(p)'
  <2>1. shown' = view /\ view.conn = connection
    BY <1>4, <1>5, <1>7, <1>16
  <2>2. shown'.files[p] = disk'[p] /\ shown'.owner[p] = Stated(disk'[p])
    BY <1>1, <1>4, <1>16, <2>1
  <2>3. QED
    BY <1>1, <1>4, <2>1, <2>2 DEF ShownRight, ShowsCurrent
<1>17. ASSUME ~overtaken' PROVE ChangesAreAnnounced' /\ BrowserIsTold'
  <2>1. CASE ok /\ a.files = disk
    <3>1. served.files = disk
      <4>1. Below(disk, served.files) /\ Below(served.files, disk)
        BY <1>1, <1>17, <2>1 DEF ShownIsServed, DiskIsLatest
      <4>2. QED
        BY <4>1, ServerTypes, BelowBoth
    <3>2. ChangesAreAnnounced'
      BY <1>1, <3>1 DEF ChangesAreAnnounced
    <3>3. \A p \in Path : Told(p)'
      BY <1>16, <2>1 DEF Told
    <3>4. QED
      BY <3>2, <3>3 DEF BrowserIsTold
  <2>2. CASE ~(ok /\ a.files = disk)
    <3>1. silent \subseteq silent'
      BY <1>3, <2>2 DEF TypeOK
    <3>2. /\ ChangesAreAnnounced'
          /\ \A p \in Path : Announced(p) => Announced(p)'
      BY <1>1, <1>17, <3>1, AnnouncedKeeps
    <3>3. ASSUME NEW p \in Path, Told(p) PROVE Told(p)'
      <4>1. CASE ~ok /\ a.conn = connection
        <5>1. p \in silent'
          BY <1>3, <4>1
        <5>2. QED
          BY <5>1 DEF Told, Announced
      <4>2. EventOnItsWay(p) => EventOnItsWay(p)'
        BY <1>1 DEF EventOnItsWay, Names, Delivers, At
      <4>3. CASE ok
        <5>1. CASE LoadOnItsWay(p)
          <6>1. a.files[p] = disk[p] \/ LoadOnItsWay(p)'
            BY <1>1, <5>1 DEF LoadOnItsWay
          <6>2. QED
            BY <1>16, <4>3, <6>1 DEF Told
        <5>2. CASE ShownRight(p)
          <6>1. /\ Below(shown.files, a.files) /\ Below(a.files, disk)
                /\ shown.files \in Files /\ shown.files[p] = disk[p]
            BY <1>1, <1>2, <1>6, <1>17, <4>3, <5>2
               DEF ShownRight, ShowsCurrent, DiskIsLatest
          <6>2. a.files[p] = disk[p]
            BY <1>2, <6>1, ServerTypes, BelowAt
          <6>3. QED
            BY <1>16, <4>3, <6>2 DEF Told
        <5>3. QED
          BY <3>2, <3>3, <4>2, <5>1, <5>2 DEF Told
      <4>4. CASE ~ok /\ a.conn # connection
        <5>1. LoadOnItsWay(p) => LoadOnItsWay(p)'
          BY <1>1, <4>4 DEF LoadOnItsWay
        <5>2. ShownRight(p) => ShownRight(p)'
          BY <1>1, <1>7, <4>4 DEF ShownRight, ShowsCurrent
        <5>3. QED
          BY <3>2, <3>3, <4>2, <5>1, <5>2 DEF Told
      <4>5. QED
        BY <4>1, <4>3, <4>4
    <3>4. QED
      BY <1>1, <1>17, <3>2, <3>3 DEF BrowserIsTold, Listening
  <2>3. QED
    BY <2>1, <2>2
<1>18. QED
  BY <1>1, <1>9, <1>10, <1>11, <1>12, <1>13, <1>14, <1>15, <1>17

(* The server begins anew.  What was overtaken is forgotten unless an      *)
(* answer of this connection survives.                                     *)
LEMMA RestartStep ==
  ASSUME Core, Restart PROVE Core'
<1> USE DEF Core
<1>1. /\ noticed' = {} /\ polled' = disk /\ recent' = {} /\ suppressed' = {}
      /\ pusher' = [t \in Pusher |-> Idle]
      /\ parsed' = disk /\ revision' = 1 /\ served' = [rev |-> 1, files |-> disk]
      /\ pending' = Nothing /\ flushing' = Nothing
      /\ link' = "down" /\ closed' = FALSE /\ queue' = <<>>
      /\ loads' = {} /\ announced' = disk /\ missed' = {}
      /\ overtaken' = (overtaken /\ \E a \in answers : a.conn = connection)
      /\ UNCHANGED <<disk, connection, answers, shown, silent, written>>
  BY DEF Restart
<1>2. /\ disk \in Files /\ served'.files = disk /\ served'.rev = 1 /\ served' \in Copy
  BY <1>1, ServerTypes DEF Copy
<1>3. /\ pusher' \in [Pusher -> PushState]
      /\ \A t \in Pusher : pusher'[t].at = "idle" /\ pusher'[t].files = Unset
  BY <1>1, IdleType
<1>4. Below(disk, disk) /\ Below(Unset, disk)
  BY <1>2, BelowSelf, BelowUnset
<1>5. TypeOK'
  <2>1. queue' \in Seq(Event) /\ Len(queue') = 0
    BY <1>1
  <2>2. 0 <= Buffer + 1
    BY SyncAssumption DEF SyncAssumption
  <2>3. overtaken' \in BOOLEAN
    BY <1>1 DEF TypeOK
  <2>4. QED
    BY <1>1, <1>2, <1>3, <2>1, <2>2, <2>3 DEF TypeOK
<1>6. DiskIsLatest'
  BY <1>1, <1>2, <1>3, <1>4 DEF DiskIsLatest
<1>7. RevisionsAreFresh'
  BY <1>1, <1>2, <1>3 DEF RevisionsAreFresh, At
<1>8. ConnectionsAreCounted'
  BY <1>1 DEF ConnectionsAreCounted
<1>9. StoredIsServed' /\ ChangesAreParsed' /\ ChangesAreAnnounced'
  BY <1>1, <1>2, <1>3, <1>4 DEF StoredIsServed, ChangesAreParsed, ChangesAreAnnounced
<1>10. ASSUME ~overtaken' PROVE CopiesAreOrdered'
  <2>1. ServerCopies' = {served'}
    BY <1>1, <1>3 DEF ServerCopies, At
  <2>2. InOrder(ServerCopies')
    BY <1>2, <1>4, <2>1 DEF InOrder
  <2>3. ClientCopies' = ClientCopies
    BY <1>1 DEF ClientCopies, CopyOf
  <2>4. InOrder(ClientCopies)
    <3>1. CASE ~overtaken
      BY <3>1 DEF CopiesAreOrdered
    <3>2. CASE overtaken
      <4>1. \A a \in answers : a.conn # connection
        BY <1>1, <1>10, <3>2
      <4>2. ASSUME NEW c \in ClientCopies, NEW d \in ClientCopies PROVE c = d /\ c.files \in Files
        BY <4>1, CopyTypes DEF ClientCopies
      <4>3. QED
        BY <4>2, BelowSelf DEF InOrder
    <3>3. QED
      BY <3>1, <3>2
  <2>5. \A c \in ServerCopies' : c.rev <= served'.rev
    BY <1>2, <2>1
  <2>6. ~Attached'
    BY <1>1 DEF Attached
  <2>7. QED
    BY <2>2, <2>3, <2>4, <2>5, <2>6 DEF CopiesAreOrdered, InOrder
<1>11. ASSUME ~overtaken' PROVE ShownIsServed'
  <2>1. /\ shown # Nothing => Below(shown.files, disk)
        /\ \A a \in answers : Below(a.files, disk)
    BY DEF DiskIsLatest
  <2>2. shown # Nothing /\ shown.conn # connection =>
          \A a \in answers : a.conn = connection => Below(shown.files, a.files)
    <3>1. CASE ~overtaken
      BY <3>1 DEF ShownIsServed
    <3>2. CASE overtaken
      BY <1>1, <1>11, <3>2
    <3>3. QED
      BY <3>1, <3>2
  <2>3. QED
    BY <1>1, <1>2, <2>1, <2>2 DEF ShownIsServed
<1>12. LatestIsDelivered' /\ BrowserIsTold'
  BY <1>1 DEF LatestIsDelivered, BrowserIsTold, Listening
<1>13. QED
  BY <1>5, <1>6, <1>7, <1>8, <1>9, <1>10, <1>11, <1>12

-----------------------------------------------------------------------------
(* The invariant *)

LEMMA InitCore ==
  ASSUME Init PROVE Core
<1>1. /\ disk = Unset /\ noticed = {} /\ polled = Unset
      /\ recent = {} /\ suppressed = {} /\ pusher = [t \in Pusher |-> Idle]
      /\ parsed = Unset /\ revision = 1 /\ served = [rev |-> 1, files |-> Unset]
      /\ pending = Nothing /\ flushing = Nothing
      /\ link = "up" /\ closed = FALSE /\ queue = <<>>
      /\ connection = 1 /\ loads = {} /\ answers = {}
      /\ announced = Unset /\ missed = {} /\ silent = {}
      /\ written = {} /\ overtaken = FALSE
  BY DEF Init
<1>2. Unset \in Files /\ Below(Unset, Unset)
  BY BelowUnset
<1>3. /\ shown \in View /\ shown # Nothing
      /\ shown.conn = 1 /\ shown.rev = 1 /\ shown.files = Unset /\ shown.how = "load"
      /\ \A p \in Path : shown.owner[p] = Stated(Unset[p])
  <2>1. shown = Loaded(1, 1, Unset)
    BY DEF Init
  <2>2. QED
    BY <1>2, <2>1, LoadedType
<1>4. /\ pusher \in [Pusher -> PushState]
      /\ \A t \in Pusher : pusher[t].at = "idle" /\ pusher[t].files = Unset
  BY <1>1, IdleType
<1>5. served \in Copy /\ served.files = Unset /\ served.rev = 1 /\ shown # Nothing
  BY <1>1, <1>2, <1>3, NothingAssumption DEF Copy
<1>6. TypeOK
  <2>1. queue \in Seq(Event) /\ Len(queue) = 0
    BY <1>1
  <2>2. 0 <= Buffer + 1
    BY SyncAssumption DEF SyncAssumption
  <2>3. QED
    BY <1>1, <1>2, <1>3, <1>4, <1>5, <2>1, <2>2 DEF TypeOK
<1>7. DiskIsLatest
  BY <1>1, <1>2, <1>3, <1>4, <1>5 DEF DiskIsLatest
<1>8. RevisionsAreFresh /\ ConnectionsAreCounted
  BY <1>1, <1>3, <1>4, <1>5 DEF RevisionsAreFresh, ConnectionsAreCounted, At
<1>9. StoredIsServed /\ ChangesAreParsed /\ ChangesAreAnnounced
  BY <1>1, <1>2, <1>4, <1>5 DEF StoredIsServed, ChangesAreParsed, ChangesAreAnnounced
<1>10. CopiesAreOrdered
  <2>1. ServerCopies = {served}
    BY <1>1, <1>4 DEF ServerCopies, At
  <2>2. CopyOf(shown) = served
    BY <1>1, <1>3 DEF CopyOf
  <2>3. ClientCopies = {served}
    BY <1>1, <1>3, <1>5, <2>2 DEF ClientCopies
  <2>4. InOrder({served}) /\ InOrder({served} \cup {served})
    BY <1>2, <1>5 DEF InOrder
  <2>5. QED
    BY <1>5, <2>1, <2>3, <2>4 DEF CopiesAreOrdered
<1>11. ShownIsServed
  BY <1>1, <1>2, <1>3, <1>5 DEF ShownIsServed
<1>12. ShowsCurrent /\ shown.rev = served.rev
  BY <1>1, <1>3, <1>5 DEF ShowsCurrent
<1>13. LatestIsDelivered
  BY <1>1, <1>12 DEF LatestIsDelivered
<1>14. BrowserIsTold
  BY <1>1, <1>3, <1>12 DEF BrowserIsTold, Told, ShownRight
<1>15. QED
  BY <1>6, <1>7, <1>8, <1>9, <1>10, <1>11, <1>13, <1>14 DEF Core

LEMMA NextCore ==
  ASSUME IInv, [Next]_vars PROVE Core'
<1> USE DEF IInv
<1>1. CASE Write
  BY <1>1, SuppressStep, EditStep, WriteFileStep DEF Write
<1>2. CASE Poll
  BY <1>2, PollStep
<1>3. CASE \E p \in Path : Notice(p)
  BY <1>3, NoticeStep
<1>4. CASE \E t \in Pusher : Push(t)
  BY <1>4, ParseStep, ParseFailsStep, StoreStep, GetStateStep, StampStep, ServeStep,
     CurrentStateStep, PublishStep DEF Push
<1>5. CASE PublishImmediate \/ TakePending \/ Flush
  BY <1>5, PublishImmediateStep, TakePendingStep, FlushStep
<1>6. CASE Subscribe \/ Greet \/ Open \/ EndOfStream \/ Disconnect \/ LoadPage
  BY <1>6, SubscribeStep, GreetStep, OpenStep, EndOfStreamStep, DisconnectStep, LoadPageStep
<1>7. CASE Browse
  BY <1>7, ReceiveStep, AnswerStep, LoadFailsStep, ArriveStep DEF Browse
<1>8. CASE Restart
  BY <1>8, RestartStep
<1>9. CASE UNCHANGED vars
  <2>1. UNCHANGED <<disk, noticed, polled, recent, suppressed, pusher, parsed, revision,
                    served, pending, flushing, link, closed, queue, connection, loads,
                    answers, shown, announced, missed, silent, written, overtaken>>
    BY <1>9 DEF vars, server, hub, stream, client, history
  <2>2. TypeOK'
    BY <2>1 DEF Core, TypeOK
  <2>3. DiskIsLatest' /\ ConnectionsAreCounted' /\ RevisionsAreFresh'
    BY <2>1 DEF Core, DiskIsLatest, ConnectionsAreCounted, RevisionsAreFresh, At
  <2>4. ~overtaken' => StoredIsServed' /\ ChangesAreParsed' /\ ChangesAreAnnounced'
    BY <2>1, ServerKeeps, AnnouncedKeeps
  <2>5. ASSUME ~overtaken' PROVE CopiesAreOrdered'
    <3>1. /\ ServerCopies' = ServerCopies /\ ClientCopies' = ClientCopies
          /\ Attached' <=> Attached
      BY <2>1 DEF ServerCopies, ClientCopies, Attached, CopyOf, At
    <3>2. QED
      BY <2>1, <2>5, <3>1, CopiesKept DEF Core
  <2>6. ~overtaken' => ShownIsServed' /\ LatestIsDelivered'
    BY <2>1 DEF Core, ShownIsServed, LatestIsDelivered, LatestIsOnItsWay, Listening, ShowsCurrent, At
  <2>7. ASSUME ~overtaken' PROVE BrowserIsTold'
    <3>1. \A p \in Path : Announced(p) => Announced(p)'
      BY <2>1, AnnouncedKeeps
    <3>2. \A t \in Pusher, p \in Path : Delivers(t, p) => Delivers(t, p)'
      BY <2>1 DEF Delivers, At
    <3>3. QED
      BY <2>1, <2>7, <3>1, <3>2, PushKeepsTold DEF Core
  <2>8. QED
    BY <2>1, <2>2, <2>3, <2>4, <2>5, <2>6, <2>7 DEF Core
<1>10. QED
  BY <1>1, <1>2, <1>3, <1>4, <1>5, <1>6, <1>7, <1>8, <1>9 DEF Next

-----------------------------------------------------------------------------
(* The kinds of fields *)

LEMMA ShownChanges ==
  ASSUME [Next]_vars
  PROVE  \/ shown' = shown \/ shown' = Nothing
         \/ Receive \/ \E a \in answers : Arrive(a)
<1>1. Write \/ Poll \/ (\E p \in Path : Notice(p)) => shown' = shown
  BY DEF Write, SuppressWatcherFor, Edit, WriteFile, Poll, Notice, client
<1>2. (\E t \in Pusher : Push(t)) \/ PublishImmediate \/ TakePending \/ Flush => shown' = shown
  BY DEF Push, Parse, ParseFails, Store, GetState, Stamp, Serve, CurrentState, Publish,
     PublishImmediate, TakePending, Flush, client
<1>3. Subscribe \/ Greet \/ Open \/ EndOfStream \/ Disconnect \/ Restart \/ UNCHANGED vars
        => shown' = shown
  BY DEF Subscribe, Greet, Open, EndOfStream, Disconnect, Restart, vars, client
<1>4. LoadPage => shown' = Nothing
  BY DEF LoadPage
<1>5. (\E l \in loads : Answer(l) \/ LoadFails(l)) => shown' = shown
  BY DEF Answer, LoadFails
<1>6. QED
  BY <1>1, <1>2, <1>3, <1>4, <1>5 DEF Next, Browse

(* Every event and every full load states the fields that are not absent,  *)
(* and a full load the absent ones too.                                    *)
LEMMA NextFields ==
  ASSUME IInv, [Next]_vars PROVE FieldsAreStated'
<1> USE DEF IInv, Core
<1>1. CASE shown' = shown
  BY <1>1 DEF FieldsAreStated
<1>2. CASE Receive
  <2>1. PICK e \in Event : e = Head(queue)
    BY <1>2, NextEvent DEF Receive
  <2>2. shown' = shown \/ shown' = Merged(e)
    BY <1>2, <2>1 DEF Receive
  <2>3. /\ Merged(e).files = e.files /\ Merged(e).owner = Cleared(e)
        /\ Merged(e).description = Kept(e) /\ Merged(e).how = "event"
    BY MergedType
  <2>4. \A p \in Path : Stated(e.files[p]) # Nothing =>
          Cleared(e)[p] = Stated(e.files[p]) /\ Kept(e)[p] = Stated(e.files[p])
    BY DEF Cleared, Kept
  <2>5. QED
    BY <1>1, <2>2, <2>3, <2>4 DEF FieldsAreStated
<1>3. ASSUME NEW a \in answers, Arrive(a) PROVE FieldsAreStated'
  <2> DEFINE view == Loaded(a.conn, a.rev, a.files)
  <2>1. shown' = shown \/ shown' = view
    BY <1>3 DEF Arrive
  <2>2. /\ view.files = a.files /\ view.owner = StatedBy(a.files)
        /\ view.description = StatedBy(a.files) /\ view.content = StatedBy(a.files)
    BY BrowserTypes, LoadedType
  <2> HIDE DEF view
  <2>3. QED
    BY <1>1, <2>1, <2>2 DEF FieldsAreStated, StatedBy
<1>4. CASE shown' = Nothing
  BY <1>4 DEF FieldsAreStated
<1>5. QED
  BY <1>1, <1>2, <1>3, <1>4, ShownChanges

-----------------------------------------------------------------------------
(* The contents that a handler has written *)

(* A step of the server or its files after which the push of the handler   *)
(* still announces what it has announced before.                           *)
LEMMA HandlerKeeps ==
  ASSUME IInv, ~overtaken,
         UNCHANGED <<link, closed, disk, queue, loads, answers, connection, shown, written>>,
         silent \subseteq silent',
         \A p \in Path : served.files[p] = disk[p] => served'.files[p] = disk[p],
         \A p \in Path : Announces("api", p) =>
           \/ p \in silent' \/ Announces("api", p)'
           \/ Delivers("api", p)' /\ served'.files[p] = disk[p],
         \A p \in Path : Delivers("api", p) => Delivers("api", p)'
  PROVE  WrittenAreAnnounced' /\ ContentsAreTold'
<1> USE DEF IInv
<1>1. written \subseteq Path
  BY DEF Core, TypeOK
<1>2. WrittenAreAnnounced'
  BY <1>1 DEF WrittenAreAnnounced
<1>3. ASSUME NEW p \in written, ContentTold(p) PROVE ContentTold(p)'
  <2>1. p \in Path
    BY <1>1
  <2>2. p \in silent \/ Announces("api", p) \/ Delivers("api", p) => ContentTold(p)'
    BY <2>1 DEF ContentTold
  <2>3. (\E i \in DOMAIN queue : CarriesContents(queue[i], p)) => ContentTold(p)'
    BY DEF ContentTold, CarriesContents, Names
  <2>4. LoadOnItsWay(p) => ContentTold(p)'
    BY <2>1 DEF ContentTold, LoadOnItsWay
  <2>5. ContentRight(p) => ContentTold(p)'
    BY DEF ContentTold, ContentRight, ShowsCurrent
  <2>6. QED
    BY <1>3, <2>2, <2>3, <2>4, <2>5 DEF ContentTold
<1>4. ContentsAreTold'
  BY <1>3 DEF ContentsAreTold, Listening
<1>5. QED
  BY <1>2, <1>4

(* What the push of the handler carries when another push moves on.        *)
LEMMA OthersPush ==
  ASSUME TypeOK, NEW t \in Pusher \ {"api"}, Push(t)
  PROVE  pusher'["api"] = pusher["api"]
<1>1. "api" \in DOMAIN pusher /\ t # "api"
  BY DEF TypeOK, Pusher
<1>2. QED
  BY <1>1 DEF Push, Parse, ParseFails, Store, GetState, Stamp, Serve, CurrentState, Publish,
     Advance

(* What a push leaves alone, and what it does to the served state.         *)
LEMMA PushLeaves ==
  ASSUME IInv, NEW t \in Pusher, Push(t), ~overtaken'
  PROVE  /\ ~overtaken
         /\ UNCHANGED <<link, closed, disk, queue, loads, answers, connection, shown, written>>
         /\ silent \subseteq silent'
         /\ \A p \in Path : served.files[p] = disk[p] => served'.files[p] = disk[p]
<1>1. ~overtaken
  BY DEF Push, Parse, ParseFails, Store, GetState, Stamp, Serve, CurrentState, Publish,
     Advance, history
<1>2. /\ UNCHANGED <<link, closed, disk, queue, loads, answers, connection, shown, written>>
      /\ silent \subseteq silent'
  BY DEF Push, Parse, ParseFails, Store, GetState, Stamp, Serve, CurrentState, Publish,
     Advance, stream, client, bounds, history, server, hub
<1>3. CASE served' = served
  BY <1>1, <1>2, <1>3
<1>4. CASE Serve(t)
  <2>1. served'.files = pusher[t].files /\ ~Older(pusher[t].files, served.files)
    BY <1>4 DEF Serve
  <2>2. /\ pusher[t].files \in Files /\ served.files \in Files /\ disk \in Files
        /\ Below(pusher[t].files, disk)
    BY PushType, ServerTypes DEF IInv, Core, DiskIsLatest
  <2>3. Below(served.files, pusher[t].files)
    BY <2>1, <2>2, NotOlder
  <2>4. ASSUME NEW p \in Path, served.files[p] = disk[p] PROVE pusher[t].files[p] = disk[p]
    BY <2>2, <2>3, <2>4, BelowAt
  <2>5. QED
    BY <1>1, <1>2, <2>1, <2>4
<1>5. served' = served \/ Serve(t)
  BY DEF Push, Parse, ParseFails, Store, GetState, Stamp, CurrentState, Publish
<1>6. QED
  BY <1>3, <1>4, <1>5

LEMMA PushContents ==
  ASSUME IInv, NEW t \in Pusher, Push(t), ~overtaken'
  PROVE  WrittenAreAnnounced' /\ ContentsAreTold'
<1> USE DEF IInv, Core
<1>1. /\ ~overtaken
      /\ UNCHANGED <<link, closed, disk, queue, loads, answers, connection, shown, written>>
      /\ silent \subseteq silent'
      /\ \A p \in Path : served.files[p] = disk[p] => served'.files[p] = disk[p]
  BY PushLeaves
<1>2. CASE t # "api"
  <2>1. pusher'["api"] = pusher["api"]
    BY <1>2, OthersPush
  <2>2. \A p \in Path : /\ Announces("api", p) => Announces("api", p)'
                        /\ Delivers("api", p) => Delivers("api", p)'
    BY <1>1, <2>1 DEF Announces, Delivers, WillParse, Carries, At
  <2>3. QED
    BY <1>1, <2>2, HandlerKeeps
<1>3. CASE t = "api"
  <2> DEFINE mine == pusher["api"]
             next == pusher'["api"]
  <2>1. "api" \in DOMAIN pusher /\ mine \in PushState /\ mine.path \in Path
        /\ mine.files \in Files
    BY PushType DEF TypeOK, Pusher
  <2>2. \/ mine.at = "fired" /\ next = [mine EXCEPT !.at = "parsed", !.files = disk]
        \/ /\ mine.at = "fired" /\ next = [mine EXCEPT !.at = "serving"]
           /\ silent' = silent \cup {mine.path}
        \/ mine.at = "parsed" /\ next = [mine EXCEPT !.at = "stored"]
        \/ mine.at = "stored" /\ next = [mine EXCEPT !.at = "got", !.files = parsed]
        \/ mine.at = "got" /\ next = [mine EXCEPT !.at = "stamped", !.rev = revision + 1]
        \/ /\ mine.at = "stamped" /\ next = [mine EXCEPT !.at = "serving"]
           /\ served'.files = mine.files
        \/ /\ mine.at = "serving" /\ served' = served
           /\ next = [at |-> "loaded", path |-> mine.path, rev |-> served.rev,
                      files |-> served.files]
    <3>1. Parse("api") =>
            mine.at = "fired" /\ next = [mine EXCEPT !.at = "parsed", !.files = disk]
      BY <2>1 DEF Parse
    <3>2. ParseFails("api") =>
            /\ mine.at = "fired" /\ next = [mine EXCEPT !.at = "serving"]
            /\ silent' = silent \cup {mine.path}
      BY <2>1 DEF ParseFails, Advance
    <3>3. Store("api") => mine.at = "parsed" /\ next = [mine EXCEPT !.at = "stored"]
      BY <2>1 DEF Store, Advance
    <3>4. GetState("api") =>
            mine.at = "stored" /\ next = [mine EXCEPT !.at = "got", !.files = parsed]
      BY <2>1 DEF GetState
    <3>5. Stamp("api") =>
            mine.at = "got" /\ next = [mine EXCEPT !.at = "stamped", !.rev = revision + 1]
      BY <2>1 DEF Stamp
    <3>6. Serve("api") =>
            /\ mine.at = "stamped" /\ next = [mine EXCEPT !.at = "serving"]
            /\ served'.files = mine.files
      BY <2>1 DEF Serve, Advance
    <3>7. CurrentState("api") =>
            /\ mine.at = "serving" /\ served' = served
            /\ next = [at |-> "loaded", path |-> mine.path, rev |-> served.rev,
                       files |-> served.files]
      BY <2>1 DEF CurrentState
    <3>8. ~Publish("api")
      BY DEF Publish
    <3> HIDE DEF mine, next
    <3>9. QED
      BY <1>3, <3>1, <3>2, <3>3, <3>4, <3>5, <3>6, <3>7, <3>8 DEF Push
  <2>3. ASSUME mine.at = "stored", NEW p \in Path, mine.files[p] = disk[p]
        PROVE  parsed[p] = disk[p]
    <3>1. Below(mine.files, parsed) /\ Below(parsed, disk)
      BY <1>1, <2>3 DEF StoredIsServed, DiskIsLatest, At, Pusher
    <3>2. QED
      BY <2>1, <2>3, <3>1, ServerTypes, BelowAt
  <2>4. ASSUME NEW p \in Path, Announces("api", p)
        PROVE  \/ p \in silent' \/ Announces("api", p)'
               \/ Delivers("api", p)' /\ served'.files[p] = disk[p]
    <3>1. /\ mine.path = p
          /\ \/ mine.at \in {"written", "fired"}
             \/ mine.at \in {"parsed", "stored", "got", "stamped"} /\ mine.files[p] = disk[p]
      BY <2>4 DEF Announces, WillParse, Carries, At
    <3> HIDE DEF mine
    <3>2. CASE mine.at = "fired" /\ next = [mine EXCEPT !.at = "parsed", !.files = disk]
      <4>1. next.at = "parsed" /\ next.files = disk /\ next.path = p
        BY <2>1, <3>1, <3>2 DEF PushState
      <4>2. QED
        BY <1>1, <4>1 DEF Announces, Carries, At
    <3>3. CASE silent' = silent \cup {mine.path}
      BY <3>1, <3>3
    <3>4. CASE mine.at = "parsed" /\ next = [mine EXCEPT !.at = "stored"]
      <4>1. next.at = "stored" /\ next.files = mine.files /\ next.path = p
        BY <2>1, <3>1, <3>4 DEF PushState
      <4>2. QED
        BY <1>1, <3>1, <3>4, <4>1 DEF Announces, Carries, At
    <3>5. CASE mine.at = "stored" /\ next = [mine EXCEPT !.at = "got", !.files = parsed]
      <4>1. next.at = "got" /\ next.files = parsed /\ next.path = p
        BY <2>1, <3>1, <3>5 DEF PushState
      <4>2. parsed[p] = disk[p]
        BY <2>3, <3>1, <3>5
      <4>3. QED
        BY <1>1, <4>1, <4>2 DEF Announces, Carries, At
    <3>6. CASE mine.at = "got" /\ next = [mine EXCEPT !.at = "stamped", !.rev = revision + 1]
      <4>1. next.at = "stamped" /\ next.files = mine.files /\ next.path = p
        BY <2>1, <3>1, <3>6 DEF PushState
      <4>2. QED
        BY <1>1, <3>1, <3>6, <4>1 DEF Announces, Carries, At
    <3>7. CASE /\ mine.at = "stamped" /\ next = [mine EXCEPT !.at = "serving"]
               /\ served'.files = mine.files
      <4>1. next.at = "serving" /\ next.path = p /\ mine.files[p] = disk[p]
        BY <2>1, <3>1, <3>7 DEF PushState
      <4>2. QED
        BY <1>1, <3>7, <4>1 DEF Delivers, At
    <3>8. mine.at # "serving"
      BY <3>1
    <3>9. QED
      BY <2>2, <3>2, <3>3, <3>4, <3>5, <3>6, <3>7, <3>8 DEF mine
  <2>5. ASSUME NEW p \in Path, Delivers("api", p) PROVE Delivers("api", p)'
    <3>1. mine.path = p /\ mine.at \in {"serving", "loaded"}
      BY <2>5 DEF Delivers, At
    <3>2. mine.at = "serving" => served.files[p] = disk[p]
      BY <2>5 DEF Delivers, At
    <3>3. /\ mine.at = "serving" /\ served' = served
          /\ next = [at |-> "loaded", path |-> mine.path, rev |-> served.rev,
                     files |-> served.files]
      BY <2>2, <3>1
    <3>4. next.at = "loaded" /\ next.path = p /\ next.files[p] = disk[p]
      BY <3>1, <3>2, <3>3
    <3>5. QED
      BY <1>1, <3>4 DEF Delivers, At
  <2>6. QED
    BY <1>1, <2>4, <2>5, HandlerKeeps
<1>4. QED
  BY <1>2, <1>3

(* The watchers, the timer and the handler that has written.               *)
LEMMA WatcherContents ==
  ASSUME IInv, ~overtaken',
         \/ SuppressWatcherFor \/ Poll \/ TakePending \/ UNCHANGED vars
         \/ \E p \in Path : Notice(p)
  PROVE  WrittenAreAnnounced' /\ ContentsAreTold'
<1>1. /\ UNCHANGED <<link, closed, disk, queue, loads, answers, connection, shown, written,
                     served, overtaken>>
      /\ silent \subseteq silent'
  BY DEF SuppressWatcherFor, Poll, TakePending, Notice, Fire, Dropped, vars, server, hub, stream,
     client, history
<1>2. /\ "api" \in DOMAIN pusher /\ pusher["api"] \in PushState
      /\ pusher["fsnotify"] \in PushState
  BY PushType DEF IInv, Core, TypeOK, Pusher
<1>3. \/ pusher'["api"] = pusher["api"]
      \/ /\ pusher["api"].at = "written"
         /\ pusher'["api"] = [pusher["api"] EXCEPT !.at = "fired"]
  BY <1>2 DEF SuppressWatcherFor, Poll, TakePending, Notice, Fire, Dropped, vars, server
<1>4. ASSUME NEW p \in Path
      PROVE  /\ Announces("api", p) => Announces("api", p)'
             /\ Delivers("api", p) => Delivers("api", p)'
  <2>1. CASE pusher'["api"] = pusher["api"]
    BY <1>1, <2>1 DEF Announces, Delivers, WillParse, Carries, At
  <2>2. CASE /\ pusher["api"].at = "written"
             /\ pusher'["api"] = [pusher["api"] EXCEPT !.at = "fired"]
    <3>1. pusher'["api"].at = "fired" /\ pusher'["api"].path = pusher["api"].path
      BY <1>2, <2>2 DEF PushState
    <3>2. QED
      BY <2>2, <3>1 DEF Announces, Delivers, WillParse, At
  <2>3. QED
    BY <1>3, <2>1, <2>2
<1>5. QED
  BY <1>1, <1>4, HandlerKeeps

(* A file changes: the push of the handler that has written it is to come, *)
(* and another's change is not the handler's.                              *)
LEMMA ChangeContents ==
  ASSUME IInv, ~overtaken', NEW p \in Path, Edit(p) \/ WriteFile(p)
  PROVE  WrittenAreAnnounced' /\ ContentsAreTold'
<1> USE DEF IInv
<1>1. /\ UNCHANGED <<link, closed, queue, loads, answers, connection, shown, served, silent,
                     overtaken>>
      /\ disk' = [disk EXCEPT ![p] = @ + 1]
  BY DEF Edit, WriteFile, Change, server, stream, client, hub
<1>2. disk \in Files /\ "api" \in DOMAIN pusher /\ written \subseteq Path
  BY ServerTypes DEF Core, TypeOK, Pusher
<1>3. ASSUME NEW q \in written' PROVE q = p \/ (q \in written /\ disk'[q] = disk[q])
  BY <1>1, <1>2, <1>3 DEF Edit, WriteFile, Files
<1>4. ASSUME p \in written' PROVE Announces("api", p)'
  <2>1. WriteFile(p)
    BY <1>4 DEF Edit
  <2>2. pusher'["api"] = [Idle EXCEPT !.at = "written", !.path = p]
    BY <1>2, <2>1 DEF WriteFile
  <2>3. pusher'["api"].at = "written" /\ pusher'["api"].path = p
    BY <2>2 DEF Idle
  <2>4. QED
    BY <2>3 DEF Announces, WillParse
<1>5. pusher'["api"] = pusher["api"] \/ pusher["api"].at = "idle"
  BY DEF Edit, WriteFile, server
<1>6. ASSUME NEW q \in written, disk'[q] = disk[q]
      PROVE  /\ Announces("api", q) => Announces("api", q)'
             /\ Delivers("api", q) => Delivers("api", q)'
  BY <1>1, <1>5, <1>6 DEF Announces, Delivers, WillParse, Carries, At
<1>7. WrittenAreAnnounced'
  BY <1>1, <1>3, <1>4, <1>6 DEF WrittenAreAnnounced
<1>8. ASSUME NEW q \in written, disk'[q] = disk[q], ContentTold(q) PROVE ContentTold(q)'
  <2>1. (\E i \in DOMAIN queue : CarriesContents(queue[i], q))
          => (\E i \in DOMAIN queue : CarriesContents(queue[i], q))'
    BY <1>1, <1>8 DEF CarriesContents, Names
  <2>2. LoadOnItsWay(q) => LoadOnItsWay(q)'
    BY <1>1, <1>8 DEF LoadOnItsWay
  <2>3. ContentRight(q) => ContentRight(q)'
    BY <1>1, <1>8 DEF ContentRight, ShowsCurrent
  <2>4. QED
    BY <1>1, <1>6, <1>8, <2>1, <2>2, <2>3 DEF ContentTold
<1>9. ContentsAreTold'
  <2> SUFFICES ASSUME Listening, NEW q \in written' PROVE ContentTold(q)'
    BY <1>1 DEF ContentsAreTold, Listening
  <2>1. CASE q = p
    BY <1>4, <2>1 DEF ContentTold
  <2>2. CASE q # p
    <3>1. q \in written /\ disk'[q] = disk[q]
      BY <1>3, <2>2
    <3>2. ContentTold(q)
      BY <1>1, <3>1 DEF ContentsAreTold
    <3>3. QED
      BY <1>8, <3>1, <3>2
  <2>3. QED
    BY <2>1, <2>2
<1>10. QED
  BY <1>7, <1>9

(* An event reaches the queue of a page that still listens.                *)
LEMMA BroadcastContents ==
  ASSUME IInv, ~overtaken, NEW e \in Event, Broadcast(e),
         UNCHANGED <<disk, served, connection, loads, answers, shown, silent, written>>,
         \A p \in Path : Announces("api", p) => Announces("api", p)',
         \A p \in Path : Delivers("api", p) => Delivers("api", p)' \/ CarriesContents(e, p)
  PROVE  WrittenAreAnnounced' /\ ContentsAreTold'
<1> USE DEF IInv, Core
<1>1. written \subseteq Path
  BY DEF TypeOK
<1>2. WrittenAreAnnounced'
  BY <1>1 DEF WrittenAreAnnounced
<1>3. /\ \A i \in DOMAIN queue : i \in DOMAIN queue' /\ queue'[i] = queue[i]
      /\ link' = link
      /\ link # "down" /\ ~closed' => ~closed /\ \E i \in DOMAIN queue' : queue'[i] = e
  BY BroadcastFacts
<1>4. ASSUME Listening', NEW p \in written PROVE ContentTold(p)'
  <2>1. Listening /\ \E i \in DOMAIN queue' : queue'[i] = e
    BY <1>3, <1>4 DEF Listening
  <2>2. ContentTold(p) /\ p \in Path
    BY <1>1, <2>1 DEF ContentsAreTold
  <2>3. CarriesContents(e, p) => (\E i \in DOMAIN queue : CarriesContents(queue[i], p))'
    BY <2>1 DEF CarriesContents, Names
  <2>4. (\E i \in DOMAIN queue : CarriesContents(queue[i], p))
          => (\E i \in DOMAIN queue : CarriesContents(queue[i], p))'
    BY <1>3 DEF CarriesContents, Names
  <2>5. (LoadOnItsWay(p) => LoadOnItsWay(p)') /\ (ContentRight(p) => ContentRight(p)')
    BY DEF LoadOnItsWay, ContentRight, ShowsCurrent
  <2>6. QED
    BY <2>2, <2>3, <2>4, <2>5 DEF ContentTold
<1>5. QED
  BY <1>2, <1>4 DEF ContentsAreTold

LEMMA HubContents ==
  ASSUME IInv, ~overtaken', PublishImmediate \/ Flush
  PROVE  WrittenAreAnnounced' /\ ContentsAreTold'
<1> USE DEF IInv, Core
<1>1. CASE PublishImmediate
  <2>1. PICK e \in Event : e = EventOf("api")
    BY EventOfType DEF Pusher
  <2>2. /\ pusher["api"].at = "loaded" /\ Broadcast(e)
        /\ pusher' = [pusher EXCEPT !["api"] = Idle]
        /\ UNCHANGED <<disk, served, connection, loads, answers, shown, silent, written,
                       overtaken>>
    BY <1>1, <2>1 DEF PublishImmediate, client, history
  <2>3. /\ e.files = pusher["api"].files /\ e.changed = {pusher["api"].path}
        /\ e.contents = {pusher["api"].path}
    BY <2>1 DEF EventOf
  <2>4. \A p \in Path : ~Announces("api", p)
    BY <2>2 DEF Announces, WillParse, Carries, At
  <2>5. \A p \in Path : Delivers("api", p) => CarriesContents(e, p)
    BY <2>2, <2>3 DEF Delivers, CarriesContents, Names, At
  <2>6. QED
    BY <2>2, <2>4, <2>5, BroadcastContents
<1>2. CASE Flush
  <2>1. PICK e \in Event : e = flushing
    BY <1>2 DEF Flush, TypeOK
  <2>2. /\ Broadcast(e)
        /\ UNCHANGED <<disk, pusher, served, connection, loads, answers, shown, silent, written,
                       overtaken>>
    BY <1>2, <2>1 DEF Flush, server, client, history
  <2>3. \A p \in Path : /\ Announces("api", p) => Announces("api", p)'
                        /\ Delivers("api", p) => Delivers("api", p)'
    BY <2>2 DEF Announces, Delivers, WillParse, Carries, At
  <2>4. QED
    BY <2>2, <2>3, BroadcastContents
<1>3. QED
  BY <1>1, <1>2

(* Nobody listens after these steps.                                       *)
LEMMA StreamContents ==
  ASSUME IInv, ~overtaken',
         Subscribe \/ Greet \/ EndOfStream \/ Disconnect \/ LoadPage \/ Restart
  PROVE  WrittenAreAnnounced' /\ ContentsAreTold'
<1> USE DEF IInv
<1>1. ~Listening'
  BY DEF Subscribe, Greet, EndOfStream, Disconnect, LoadPage, Restart, Listening
<1>2. CASE Restart
  <2>1. served'.files = disk'
    BY <1>2 DEF Restart
  <2>2. QED
    BY <1>1, <2>1 DEF WrittenAreAnnounced, ContentsAreTold
<1>3. CASE Subscribe \/ Greet \/ EndOfStream \/ Disconnect \/ LoadPage
  <2>1. UNCHANGED <<disk, pusher, served, silent, written, overtaken>>
    BY <1>3 DEF Subscribe, Greet, EndOfStream, Disconnect, LoadPage, server, history
  <2>2. WrittenAreAnnounced'
    BY <2>1 DEF WrittenAreAnnounced, Announces, WillParse, Carries, At
  <2>3. QED
    BY <1>1, <2>2 DEF ContentsAreTold
<1>4. QED
  BY <1>2, <1>3

(* The page begins to listen: the full load will have what is served, and  *)
(* what is not served yet is still to be announced.                        *)
LEMMA OpenContents ==
  ASSUME IInv, ~overtaken', Open
  PROVE  WrittenAreAnnounced' /\ ContentsAreTold'
<1> USE DEF IInv
<1>1. /\ UNCHANGED <<disk, pusher, served, silent, written, overtaken>>
      /\ \E l \in loads' : l.conn = connection'
  <2>1. UNCHANGED <<disk, pusher, served, silent, written, overtaken>>
    BY DEF Open, server, history
  <2>2. /\ connection' = connection + 1
        /\ [conn |-> connection + 1, why |-> "open"] \in loads'
    BY DEF Open
  <2>3. [conn |-> connection + 1, why |-> "open"].conn = connection'
    BY <2>2
  <2>4. QED
    BY <2>1, <2>2, <2>3
<1>2. WrittenAreAnnounced'
  BY <1>1 DEF WrittenAreAnnounced, Announces, WillParse, Carries, At
<1>3. ASSUME NEW p \in written' PROVE ContentTold(p)'
  <2>1. (p \in silent \/ Announces("api", p) \/ served.files[p] = disk[p])'
    BY <1>2 DEF WrittenAreAnnounced
  <2>2. (served.files[p] = disk[p])' => LoadOnItsWay(p)'
    BY <1>1 DEF LoadOnItsWay
  <2>3. QED
    BY <2>1, <2>2 DEF ContentTold
<1>4. QED
  BY <1>2, <1>3 DEF ContentsAreTold

(* What a step of the browser leaves of the other places.                  *)
LEMMA BrowserContents ==
  ASSUME IInv, ~overtaken,
         UNCHANGED <<disk, pusher, served, written, link, closed, connection>>,
         silent \subseteq silent',
         \A p \in written :
           (\E i \in DOMAIN queue : CarriesContents(queue[i], p)) \/ LoadOnItsWay(p)
             \/ ContentRight(p) => ContentTold(p)'
  PROVE  WrittenAreAnnounced' /\ ContentsAreTold'
<1> USE DEF IInv
<1>1. \A p \in Path : /\ Announces("api", p) => Announces("api", p)'
                      /\ Delivers("api", p) => Delivers("api", p)'
  BY DEF Announces, Delivers, WillParse, Carries, At
<1>2. written \subseteq Path
  BY DEF Core, TypeOK
<1>3. WrittenAreAnnounced'
  BY <1>1, <1>2 DEF WrittenAreAnnounced
<1>4. ASSUME Listening, NEW p \in written PROVE ContentTold(p)'
  <2>1. ContentTold(p) /\ p \in Path
    BY <1>2, <1>4 DEF ContentsAreTold
  <2>2. p \in silent \/ Announces("api", p) \/ Delivers("api", p) => ContentTold(p)'
    BY <1>1, <2>1 DEF ContentTold
  <2>3. QED
    BY <2>1, <2>2 DEF ContentTold
<1>5. QED
  BY <1>3, <1>4 DEF ContentsAreTold, Listening

LEMMA LoadContents ==
  ASSUME IInv, ~overtaken', NEW l \in loads, Answer(l) \/ LoadFails(l)
  PROVE  WrittenAreAnnounced' /\ ContentsAreTold'
<1> USE DEF IInv
<1>1. UNCHANGED <<disk, pusher, served, written, link, closed, connection, queue, shown,
                  overtaken>>
  BY DEF Answer, LoadFails, server, stream, history
<1>2. silent \subseteq silent' /\ written \subseteq Path
  BY DEF Answer, LoadFails, history, Core, TypeOK
<1>3. ASSUME NEW p \in written, \E i \in DOMAIN queue : CarriesContents(queue[i], p)
      PROVE  (\E i \in DOMAIN queue : CarriesContents(queue[i], p))'
  BY <1>1, <1>3 DEF CarriesContents, Names
<1>4. ASSUME NEW p \in written, ContentRight(p) PROVE ContentRight(p)'
  BY <1>1, <1>4 DEF ContentRight, ShowsCurrent
<1>5. ASSUME NEW p \in written, LoadOnItsWay(p) PROVE p \in silent' \/ LoadOnItsWay(p)'
  <2>1. CASE Answer(l)
    <3> DEFINE a == [conn |-> l.conn, rev |-> served.rev, files |-> served.files]
    <3>1. a.conn = l.conn /\ a.files = served.files
      OBVIOUS
    <3>2. loads' = loads \ {l} /\ answers' = answers \cup {a}
      BY <2>1 DEF Answer
    <3> HIDE DEF a
    <3>3. QED
      BY <1>1, <1>5, <3>1, <3>2 DEF LoadOnItsWay
  <2>2. CASE LoadFails(l)
    BY <1>1, <1>2, <1>5, <2>2 DEF LoadOnItsWay, LoadFails
  <2>3. QED
    BY <2>1, <2>2
<1>6. QED
  BY <1>1, <1>2, <1>3, <1>4, <1>5, BrowserContents DEF ContentTold

(* The contents of an event that names its asset are shown, those of an    *)
(* event without them are kept; an event that is not admitted is no newer  *)
(* than the full load that is shown.                                       *)
LEMMA ReceiveContents ==
  ASSUME IInv, ~overtaken', Receive
  PROVE  WrittenAreAnnounced' /\ ContentsAreTold'
<1> USE DEF IInv, Core
<1>1. /\ UNCHANGED <<disk, pusher, served, written, link, closed, connection, answers, overtaken>>
      /\ link = "up" /\ queue # <<>> /\ queue' = Tail(queue)
  BY DEF Receive, server
<1>2. PICK e \in Event : e = Head(queue)
  BY <1>1, NextEvent
<1>3. /\ 1 \in DOMAIN queue /\ queue[1] = e
      /\ \A j \in DOMAIN queue : queue[j] = e \/ \E i \in DOMAIN queue' : queue'[i] = queue[j]
  BY <1>1, <1>2, NextEvent
<1>4. /\ e.rev \in Nat /\ e.files \in Files /\ disk \in Files /\ Below(e.files, disk)
      /\ written \subseteq Path
      /\ shown # Nothing => /\ shown \in View /\ shown.files \in Files /\ shown.rev \in Nat
                            /\ Below(shown.files, disk)
  BY <1>3, EventTypes, ServerTypes, BrowserTypes DEF DiskIsLatest, TypeOK
<1> DEFINE ok == Admits(connection, e.rev, "event")
<1>5. /\ shown' = IF ok THEN Merged(e) ELSE shown
      /\ silent' = IF ~ok /\ shown.how = "event" THEN silent \cup e.changed ELSE silent
      /\ loads \subseteq loads'
  BY <1>2 DEF Receive
<1>6. /\ Merged(e) # Nothing /\ Merged(e).conn = connection /\ Merged(e).files = e.files
      /\ Merged(e).content = Contents(e)
  BY MergedType
<1>7. ok /\ ShowsCurrent => Below(shown.files, e.files)
  BY <1>1, <1>2, ReceiveKeepsUp
<1>8. ~ok => ShowsCurrent /\ e.rev <= shown.rev
  <2>1. ~ok => ShowsCurrent /\ ~(e.rev > shown.rev)
    BY DEF Admits, ShowsCurrent
  <2>2. QED
    BY <1>4, <2>1 DEF ShowsCurrent
<1> HIDE DEF ok
<1>9. ASSUME NEW p \in written, ok, e.files[p] = disk[p],
             Stated(disk[p]) # Nothing => Contents(e)[p] = Stated(disk[p])
      PROVE  ContentRight(p)'
  BY <1>1, <1>5, <1>6, <1>9 DEF ContentRight, ShowsCurrent
<1>10. ASSUME NEW p \in written, CarriesContents(e, p) PROVE ContentTold(p)'
  <2>1. e.files[p] = disk[p] /\ p \in e.changed /\ p \in e.contents /\ p \in Path
    BY <1>4, <1>10 DEF CarriesContents, Names
  <2>2. CASE ok
    <3>1. Stated(disk[p]) # Nothing => Contents(e)[p] = Stated(disk[p])
      BY <2>1 DEF Contents
    <3>2. QED
      BY <1>9, <2>1, <2>2, <3>1 DEF ContentTold
  <2>3. CASE ~ok /\ shown.how = "event"
    BY <1>5, <2>1, <2>3 DEF ContentTold
  <2>4. CASE ~ok /\ shown.how # "event"
    <3>1. /\ ShowsCurrent /\ shown.how = "load" /\ shown.files \in Files
          /\ shown.content = StatedBy(shown.files) /\ Below(shown.files, disk)
      BY <1>4, <1>8, <2>4 DEF View, FieldsAreStated, ShowsCurrent
    <3>2. CopyOf(shown) \in ClientCopies /\ CopyOf(e) \in ServerCopies
      BY <1>3, <3>1 DEF ClientCopies, ServerCopies, ShowsCurrent
    <3>3. InOrder(ServerCopies \cup ClientCopies)
      BY <1>1 DEF CopiesAreOrdered, Attached
    <3>4. Below(CopyOf(e).files, CopyOf(shown).files)
      BY <1>8, <2>4, <3>2, <3>3 DEF InOrder, CopyOf
    <3>5. shown.files[p] = disk[p]
      BY <1>4, <2>1, <3>1, <3>4, BelowAt DEF CopyOf
    <3>6. shown.content[p] = Stated(disk[p])
      BY <2>1, <3>1, <3>5 DEF StatedBy
    <3>7. ContentRight(p)'
      BY <1>1, <1>5, <2>4, <3>1, <3>5, <3>6 DEF ContentRight, ShowsCurrent
    <3>8. QED
      BY <3>7 DEF ContentTold
  <2>5. QED
    BY <2>2, <2>3, <2>4
<1>11. ASSUME NEW p \in written, NEW j \in DOMAIN queue, CarriesContents(queue[j], p)
       PROVE  ContentTold(p)'
  <2>1. CASE queue[j] = e
    BY <1>10, <1>11, <2>1
  <2>2. CASE queue[j] # e
    <3>1. PICK i \in DOMAIN queue' : queue'[i] = queue[j]
      BY <1>3, <2>2
    <3>2. (\E k \in DOMAIN queue : CarriesContents(queue[k], p))'
      BY <1>1, <1>11, <3>1 DEF CarriesContents, Names
    <3>3. QED
      BY <3>2 DEF ContentTold
  <2>3. QED
    BY <2>1, <2>2
<1>12. ASSUME NEW p \in written, LoadOnItsWay(p) PROVE ContentTold(p)'
  <2>1. LoadOnItsWay(p)'
    BY <1>1, <1>5, <1>12 DEF LoadOnItsWay
  <2>2. QED
    BY <2>1 DEF ContentTold
<1>13. ASSUME NEW p \in written, ContentRight(p) PROVE ContentTold(p)'
  <2>1. /\ ShowsCurrent /\ shown.files[p] = disk[p] /\ shown # Nothing /\ p \in Path
        /\ Stated(disk[p]) # Nothing => shown.content[p] = Stated(disk[p])
    BY <1>4, <1>13 DEF ContentRight, ShowsCurrent
  <2>2. CASE ok
    <3>1. e.files[p] = disk[p]
      BY <1>4, <1>7, <2>1, <2>2, BelowAt
    <3>2. Stated(disk[p]) # Nothing => Contents(e)[p] = Stated(disk[p])
      BY <2>1, <3>1 DEF Contents
    <3>3. QED
      BY <1>9, <2>2, <3>1, <3>2 DEF ContentTold
  <2>3. CASE ~ok
    <3>1. ContentRight(p)'
      BY <1>1, <1>5, <1>13, <2>3 DEF ContentRight, ShowsCurrent
    <3>2. QED
      BY <3>1 DEF ContentTold
  <2>4. QED
    BY <2>2, <2>3
<1>14. silent \subseteq silent'
  BY <1>5
<1>15. QED
  BY <1>1, <1>11, <1>12, <1>13, <1>14, BrowserContents

(* A full load shows the contents as they are, unless it is known to be    *)
(* lost.                                                                   *)
LEMMA ArriveContents ==
  ASSUME IInv, ~overtaken', NEW a \in answers, Arrive(a)
  PROVE  WrittenAreAnnounced' /\ ContentsAreTold'
<1> USE DEF IInv, Core
<1>1. /\ UNCHANGED <<disk, pusher, served, written, link, closed, connection, queue, loads,
                     overtaken>>
      /\ answers' = answers \ {a}
  BY DEF Arrive, server, stream
<1>2. /\ a.conn \in Nat /\ a.rev \in Nat /\ a.files \in Files /\ disk \in Files
      /\ Below(a.files, disk) /\ written \subseteq Path
      /\ shown # Nothing => shown.files \in Files
  BY ServerTypes, BrowserTypes DEF DiskIsLatest, TypeOK
<1> DEFINE ok == Admits(a.conn, a.rev, "load")
           view == Loaded(a.conn, a.rev, a.files)
<1>3. /\ shown' = IF ok THEN view ELSE shown
      /\ silent' = IF ok /\ a.files = disk THEN {}
                   ELSE IF ~ok /\ a.conn = connection THEN Path ELSE silent
  BY DEF Arrive
<1>4. /\ view # Nothing /\ view.conn = a.conn /\ view.files = a.files
      /\ view.content = StatedBy(a.files)
  BY <1>2, LoadedType
<1>5. ok => a.conn = connection
  BY DEF Admits
<1>6. ok /\ shown # Nothing => Below(shown.files, a.files)
  BY <1>1, ArriveKeepsUp
<1> HIDE DEF ok, view
<1>7. ASSUME NEW p \in written, ok, a.files[p] = disk[p] PROVE ContentRight(p)'
  <2>1. shown' = view /\ p \in Path
    BY <1>2, <1>3, <1>7
  <2>2. view.content[p] = Stated(disk[p])
    BY <1>4, <1>7, <2>1 DEF StatedBy
  <2>3. QED
    BY <1>1, <1>4, <1>5, <1>7, <2>1, <2>2 DEF ContentRight, ShowsCurrent
<1>8. CASE ok /\ a.files = disk
  <2>1. served.files = disk
    <3>1. Below(disk, served.files) /\ Below(served.files, disk)
      BY <1>1, <1>8 DEF ShownIsServed, DiskIsLatest
    <3>2. QED
      BY <3>1, ServerTypes, BelowBoth
  <2>2. WrittenAreAnnounced'
    BY <1>1, <2>1 DEF WrittenAreAnnounced
  <2>3. \A p \in written : ContentTold(p)'
    BY <1>7, <1>8 DEF ContentTold
  <2>4. QED
    BY <1>1, <2>2, <2>3 DEF ContentsAreTold
<1>9. CASE ~(ok /\ a.files = disk)
  <2>1. silent \subseteq silent'
    BY <1>3, <1>9 DEF TypeOK
  <2>2. ASSUME NEW p \in written, \E i \in DOMAIN queue : CarriesContents(queue[i], p)
        PROVE  ContentTold(p)'
    <3>1. (\E i \in DOMAIN queue : CarriesContents(queue[i], p))'
      BY <1>1, <2>2 DEF CarriesContents, Names
    <3>2. QED
      BY <3>1 DEF ContentTold
  <2>3. ASSUME NEW p \in written, LoadOnItsWay(p) PROVE ContentTold(p)'
    <3>1. LoadOnItsWay(p)' \/ (a.conn = connection /\ a.files[p] = disk[p])
      BY <1>1, <2>3 DEF LoadOnItsWay
    <3>2. CASE ~ok /\ a.conn = connection
      BY <1>2, <1>3, <3>2 DEF ContentTold
    <3>3. QED
      BY <1>7, <3>1, <3>2 DEF ContentTold
  <2>4. ASSUME NEW p \in written, ContentRight(p) PROVE ContentTold(p)'
    <3>1. CASE ok
      <4>1. /\ shown # Nothing /\ shown.files[p] = disk[p] /\ p \in Path
            /\ Below(shown.files, a.files)
        BY <1>2, <1>6, <2>4, <3>1 DEF ContentRight, ShowsCurrent
      <4>2. a.files[p] = disk[p]
        BY <1>2, <4>1, BelowAt
      <4>3. QED
        BY <1>7, <3>1, <4>2 DEF ContentTold
    <3>2. CASE ~ok
      <4>1. ContentRight(p)'
        BY <1>1, <1>3, <2>4, <3>2 DEF ContentRight, ShowsCurrent
      <4>2. QED
        BY <4>1 DEF ContentTold
    <3>3. QED
      BY <3>1, <3>2
  <2>5. QED
    BY <1>1, <2>1, <2>2, <2>3, <2>4, BrowserContents
<1>10. QED
  BY <1>8, <1>9

LEMMA NextContents ==
  ASSUME IInv, [Next]_vars, ~overtaken'
  PROVE  WrittenAreAnnounced' /\ ContentsAreTold'
<1>1. CASE Write
  BY <1>1, WatcherContents, ChangeContents DEF Write
<1>2. CASE Poll \/ TakePending \/ UNCHANGED vars \/ \E p \in Path : Notice(p)
  BY <1>2, WatcherContents
<1>3. CASE \E t \in Pusher : Push(t)
  BY <1>3, PushContents
<1>4. CASE PublishImmediate \/ Flush
  BY <1>4, HubContents
<1>5. CASE Subscribe \/ Greet \/ EndOfStream \/ Disconnect \/ LoadPage \/ Restart
  BY <1>5, StreamContents
<1>6. CASE Open
  BY <1>6, OpenContents
<1>7. CASE Browse
  BY <1>7, ReceiveContents, LoadContents, ArriveContents DEF Browse
<1>8. QED
  BY <1>1, <1>2, <1>3, <1>4, <1>5, <1>6, <1>7 DEF Next

-----------------------------------------------------------------------------
(* The invariant of the specification *)

LEMMA InitInvariant ==
  ASSUME Init PROVE IInv
<1>1. Core
  BY InitCore
<1>2. shown = Loaded(1, 1, Unset) /\ written = {} /\ Unset \in Files
  BY BelowUnset DEF Init
<1>3. FieldsAreStated
  <2> DEFINE view == Loaded(1, 1, Unset)
  <2>1. /\ view.files = Unset /\ view.owner = StatedBy(Unset)
        /\ view.description = StatedBy(Unset) /\ view.content = StatedBy(Unset)
    BY <1>2, LoadedType
  <2> HIDE DEF view
  <2>2. QED
    BY <1>2, <2>1 DEF FieldsAreStated, StatedBy, view
<1>4. WrittenAreAnnounced /\ ContentsAreTold
  BY <1>2 DEF WrittenAreAnnounced, ContentsAreTold
<1>5. QED
  BY <1>1, <1>3, <1>4 DEF IInv

LEMMA NextInvariant ==
  ASSUME IInv, [Next]_vars PROVE IInv'
BY NextCore, NextFields, NextContents DEF IInv

-----------------------------------------------------------------------------
(* The inductive invariant: where every change, every announcement, the    *)
(* contents a handler has written and the latest revision are while they   *)
(* are under way, that copies of served states are ordered as their        *)
(* revisions are, and that a new connection may begin with something older *)
(* than what is shown but then has a full load to come, for any number of  *)
(* files and any buffer.                                                   *)
THEOREM Invariant == Spec => []IInv
<1>1. Init => IInv
  BY InitInvariant
<1>2. IInv /\ [Next]_vars => IInv'
  BY NextInvariant
<1>3. QED
  BY <1>1, <1>2, PTL DEF Spec

(* Every variable has its type, and the channel of the subscriber holds at *)
(* most its capacity and the greeting (useWorkspaceSync, Hub.Subscribe).   *)
THEOREM TypeCorrect == Spec => []TypeOK
<1>1. IInv => TypeOK
  BY DEF IInv, Core
<1>2. QED
  BY <1>1, Invariant, PTL

-----------------------------------------------------------------------------
(* The properties *)

LEMMA ServedFollows == IInv => ServedFollowsDisk
<1> SUFFICES ASSUME IInv, Settled, ~overtaken, NEW p \in Path
             PROVE  served.files[p] = disk[p] \/ p \in missed
  BY DEF ServedFollowsDisk
<1>1. noticed = {} /\ \A t \in Pusher : pusher[t].at = "idle"
  BY DEF Settled
<1>2. served.files[p] = parsed[p]
  BY <1>1 DEF IInv, Core, StoredIsServed, At
<1>3. p \in missed \/ parsed[p] = disk[p]
  BY <1>1 DEF IInv, Core, ChangesAreParsed, WillParse, At
<1>4. QED
  BY <1>2, <1>3

(* Once the watchers are at rest the server serves the files as they are   *)
(* on disk, but for changes that are known to be missed (Watcher.fire,     *)
(* WorkspaceCoordinator.Refresh).                                          *)
THEOREM ServedCorrect == Spec => []ServedFollowsDisk
<1>1. QED
  BY Invariant, ServedFollows, PTL

LEMMA FieldsAreShown == IInv => FieldsFollow
<1> SUFFICES ASSUME IInv, AllDelivered, ~overtaken
             PROVE  /\ shown # Nothing /\ shown.conn = connection
                    /\ shown.rev = served.rev /\ shown.files = served.files
                    /\ \A p \in Path : Stated(served.files[p]) # Nothing =>
                         /\ shown.owner[p] = Stated(served.files[p])
                         /\ shown.description[p] = Stated(served.files[p])
                    /\ \A p \in Path \ silent : shown.owner[p] = Stated(served.files[p])
  BY DEF FieldsFollow
<1>1. /\ noticed = {} /\ \A t \in Pusher : pusher[t].at = "idle"
      /\ pending = Nothing /\ flushing = Nothing /\ DOMAIN queue = {}
      /\ \A r \in loads \cup answers : r.conn # connection
      /\ Listening /\ link = "up"
  BY DEF AllDelivered, Settled, Listening
<1>2. ShowsCurrent /\ shown.rev = served.rev
  BY <1>1 DEF IInv, Core, LatestIsDelivered, LatestIsOnItsWay, At
<1>3. shown.files = served.files
  <2>1. CopyOf(shown) \in ClientCopies /\ served \in ServerCopies
    BY <1>2 DEF ClientCopies, ServerCopies, ShowsCurrent
  <2>2. InOrder(ServerCopies \cup ClientCopies)
    BY <1>1 DEF IInv, Core, CopiesAreOrdered, Attached
  <2>3. /\ CopyOf(shown).rev <= served.rev /\ served.rev <= CopyOf(shown).rev
        /\ CopyOf(shown).files = shown.files
    BY <1>2, ServerTypes DEF CopyOf, IInv, Core
  <2>4. Below(shown.files, served.files) /\ Below(served.files, shown.files)
    BY <2>1, <2>2, <2>3 DEF InOrder
  <2>5. QED
    BY <1>2, <2>4, ServerTypes, BrowserTypes, BelowBoth DEF IInv, Core, ShowsCurrent
<1>4. ASSUME NEW p \in Path \ silent PROVE shown.owner[p] = Stated(served.files[p])
  <2>1. Told(p)
    BY <1>1 DEF IInv, Core, BrowserIsTold
  <2>2. ~Announced(p)
    BY <1>1 DEF Announced, Unannounced, Announces, WillParse, Carries, At
  <2>3. ~EventOnItsWay(p) /\ ~LoadOnItsWay(p)
    BY <1>1 DEF EventOnItsWay, Delivers, At, LoadOnItsWay
  <2>4. ShownRight(p)
    BY <2>1, <2>2, <2>3 DEF Told
  <2>5. QED
    BY <1>3, <2>4 DEF ShownRight
<1>5. \A p \in Path : Stated(served.files[p]) # Nothing =>
        /\ shown.owner[p] = Stated(served.files[p])
        /\ shown.description[p] = Stated(served.files[p])
  BY <1>2, <1>3 DEF IInv, FieldsAreStated, ShowsCurrent
<1>6. QED
  BY <1>2, <1>3, <1>4, <1>5 DEF ShowsCurrent

LEMMA ContentsAreShown == IInv => ContentsFollow
<1> SUFFICES ASSUME IInv, AllDelivered, ~overtaken, NEW p \in written \ silent,
                    Stated(served.files[p]) # Nothing
             PROVE  shown.content[p] = Stated(served.files[p])
  BY DEF ContentsFollow
<1>1. /\ pusher["api"].at = "idle" /\ DOMAIN queue = {} /\ Listening
      /\ \A r \in loads \cup answers : r.conn # connection
  BY DEF AllDelivered, Settled, Listening, Pusher
<1>2. ~Announces("api", p) /\ ~Delivers("api", p)
  BY <1>1 DEF Announces, Delivers, WillParse, Carries, At
<1>3. served.files[p] = disk[p]
  BY <1>2 DEF IInv, WrittenAreAnnounced
<1>4. ContentTold(p)
  BY <1>1 DEF IInv, ContentsAreTold
<1>5. ContentRight(p)
  BY <1>1, <1>2, <1>4 DEF ContentTold, LoadOnItsWay
<1>6. QED
  BY <1>3, <1>5 DEF ContentRight

(* Once everything is delivered the browser shows the revision that is     *)
(* served with every owner and description that it states, and no owner    *)
(* that was removed but of assets whose announcement is known to be lost,  *)
(* and the contents that handlers have written                             *)
(* (Hub.Publish, HandleEvents, receiveWorkspaceUpdate,                     *)
(* mergeWorkspaceWithPreservedContent).                                    *)
THEOREM BrowserCorrect == Spec => []BrowserFollows
<1>1. QED
  BY Invariant, FieldsAreShown, ContentsAreShown, PTL DEF BrowserFollows

(* Once everything is delivered the browser shows the contents that a      *)
(* handler has written, although the watchers announce the same file       *)
(* without them (PublishImmediate, StripAssetContentKeepingIDs,            *)
(* mergeWorkspaceWithPreservedContent).                                    *)
THEOREM ContentsCorrect == Spec => []ContentsFollow
<1>1. QED
  BY Invariant, ContentsAreShown, PTL

(* A browser that shows an earlier connection has a full load under way.   *)
LEMMA EarlierIsRepaired ==
  ASSUME IInv, ~overtaken, link = "up", shown # Nothing, shown.conn # connection
  PROVE  LoadIsUnderWay
<1> USE DEF IInv, Core
<1>1. CASE \E l \in loads : l.conn = connection
  BY <1>1 DEF LoadIsUnderWay
<1>2. CASE \E a \in answers : a.conn = connection
  <2>1. PICK a \in answers : a.conn = connection
    BY <1>2
  <2>2. Below(shown.files, a.files) /\ shown.files \in Files /\ a.files \in Files
    BY <2>1, BrowserTypes DEF ShownIsServed
  <2>3. ~Older(a.files, shown.files)
    BY <2>2 DEF Below, Older, Files
  <2>4. QED
    BY <2>1, <2>3 DEF LoadIsUnderWay
<1>3. CASE silent = Path
  BY <1>3 DEF LoadIsUnderWay
<1>4. QED
  BY <1>1, <1>2, <1>3 DEF ShownIsServed

LEMMA ShownKeepsUp ==
  ASSUME IInv, [Next]_vars, shown # Nothing, shown' # Nothing, ~overtaken,
         Older(shown'.files, shown.files)
  PROVE  shown.conn # connection /\ shown'.how = "event" /\ LoadIsUnderWay
<1> USE DEF IInv, Core
<1>1. shown.files \in Files
  BY BrowserTypes
<1>2. \A f \in Files : Below(shown.files, f) => ~Older(f, shown.files)
  BY <1>1 DEF Below, Older, Files
<1>3. shown' # shown
  BY <1>1, <1>2, BelowSelf
<1>4. CASE Receive
  <2>1. PICK e \in Event : e = Head(queue)
    BY <1>4, NextEvent DEF Receive
  <2>2. Admits(connection, e.rev, "event") /\ shown' = Merged(e) /\ link = "up"
    BY <1>3, <1>4, <2>1 DEF Receive
  <2>3. shown'.files = e.files /\ shown'.how = "event" /\ e.files \in Files
    BY <2>2, MergedType, EventTypes
  <2>4. shown.conn # connection
    <3>1. ASSUME ShowsCurrent PROVE FALSE
      BY <1>2, <1>4, <2>1, <2>2, <2>3, <3>1, ReceiveKeepsUp
    <3>2. QED
      BY <3>1 DEF ShowsCurrent
  <2>5. QED
    BY <2>2, <2>3, <2>4, EarlierIsRepaired
<1>5. ASSUME NEW a \in answers, Arrive(a) PROVE FALSE
  <2>1. Admits(a.conn, a.rev, "load") /\ shown' = Loaded(a.conn, a.rev, a.files)
    BY <1>3, <1>5 DEF Arrive
  <2>2. a.files \in Files /\ shown'.files = a.files
    BY <2>1, BrowserTypes, LoadedType
  <2>3. QED
    BY <1>2, <1>5, <2>1, <2>2, ArriveKeepsUp
<1>6. QED
  BY <1>3, <1>4, <1>5, ShownChanges

(* What the browser shows of an asset goes back to an older version only   *)
(* by the greeting of a new connection, while the full load that repairs   *)
(* it is under way, however responses and events race and across           *)
(* reconnections and restarts (receiveWorkspaceUpdate, useWorkspaceSync,   *)
(* HandleEvents).                                                          *)
THEOREM KeepsUpCorrect == Spec => BrowserKeepsUp
<1>1. IInv /\ [Next]_vars =>
        [shown # Nothing /\ shown' # Nothing /\ ~overtaken /\ Older(shown'.files, shown.files) =>
           shown.conn # connection /\ shown'.how = "event" /\ LoadIsUnderWay]_vars
  BY ShownKeepsUp
<1>2. QED
  BY <1>1, Invariant, PTL DEF Spec, BrowserKeepsUp
=============================================================================
