----------------------------- MODULE PageProofs -----------------------------
(***************************************************************************)
(* Proofs about what the pages of package server say, for any requests and *)
(* devices: an alias or a device on a page was there, and one that is left *)
(* out was not, at some moment of the request that asked for the page, or  *)
(* comes after a device that was lost while the page was collected.        *)
(***************************************************************************)
EXTENDS ServerProofs

(***************************************************************************)
(* While a request that reads devices runs, its history holds the devices  *)
(* as they are; so the answer to a call is in the history as soon as the   *)
(* call has been served, and stays there.                                  *)
(***************************************************************************)
Sees == Readers \cup {"power"}

Seen(c, a, d) == <<a, d>> \in was[c] \/ (a = Empty /\ d = Nil)

\* The list S was right, entry by entry.
NamesSeen(c, S) ==
  \A a \in Aliases :
    IF a \in S THEN \E d \in Devices : <<a, d>> \in was[c] ELSE <<a, Nil>> \in was[c]

\* What was collected misses no device that was always there, but those of S.
Covered(c, S, pg) ==
  \A a \in Aliases : <<a, Nil>> \in was[c] \/ a \in S \/ \E d \in Devices : <<a, d>> \in pg

\* Only what was registered is looked up: an entry without a device is of one
\* that was lost.
Known(c, a) == \E d \in Devices : <<a, d>> \in was[c]
Collected(c, S, pg) ==
  /\ pg \subseteq was[c]
  /\ \A a \in S : Known(c, a)
  /\ \A e \in pg : Known(c, e[1])
  /\ Covered(c, S, pg)

NowOK(c) ==
  pc[c] \notin {"idle", "answered"} /\ req[c].route \in Sees =>
    \A a \in Aliases : <<a, devices[a]>> \in was[c]

GetOK(c) ==
  At(c, "get") =>
    /\ req[c].route # "devices" => call[c].q.name = req[c].alias
    /\ req[c].route = "device" => req[c].alias \in Aliases
    /\ call[c].at # "sending" => (ResultFor(c).ok <=> ResultFor(c).dev # Nil)
    /\ call[c].at # "sending" /\ req[c].route \in Sees => Seen(c, call[c].q.name, ResultFor(c).dev)

ListOK(c) ==
  At(c, "aliases") /\ call[c].at # "sending" => NamesSeen(c, ResultFor(c).names)

PageOK(c) ==
  /\ page[c] \subseteq was[c]
  /\ At(c, "idle") => page[c] = {}
  /\ At(c, "get") /\ req[c].route = "devices" =>
       Collected(c, todo[c] \cup {call[c].q.name}, page[c])

\* The page as it was sent.
Shown(c) ==
  \A a \in Aliases : <<a, Nil>> \notin was[c] =>
    \/ \E d \in Devices : <<a, d>> \in page[c]
    \/ \E b \in Aliases : CameAndWent(c, b) /\ Position[b] < Position[a]

DoneOK(c) ==
  At(c, "answered") =>
    /\ req[c].route = "devices" /\ reply[c] = "OK" => Shown(c)
    /\ req[c].route = "root" /\ reply[c] = "OK" => NamesSeen(c, call[c].got.names)
    /\ req[c].route = "device" /\ reply[c] \in {"OK", "NotFound"} =>
         <<req[c].alias, call[c].got.dev>> \in was[c]

Viewed(c) == NowOK(c) /\ GetOK(c) /\ ListOK(c) /\ PageOK(c) /\ DoneOK(c)

-----------------------------------------------------------------------------
(* The steps of the others, and the two kinds of steps of a handler. *)

\* What Track makes of the history of a request.
LEMMA Watched ==
  ASSUME NEW c \in Clients, Track
  PROVE  /\ pc'[c] # "idle" => was[c] \subseteq was'[c]
         /\ pc'[c] # "idle" /\ pc[c] # "answered" /\ req'[c].route \in Sees =>
              \A a \in Aliases : <<a, devices'[a]>> \in was'[c]
<1> DEFINE Now == { <<a, devices'[a]>> : a \in Aliases }
<1>1. was'[c] = IF Running(c) /\ req'[c].route \in Sees THEN was[c] \cup Now
                ELSE IF pc'[c] = "idle" THEN {} ELSE was[c]
  BY DEF Track, Sees
<1>2. \A a \in Aliases : <<a, devices'[a]>> \in Now
  OBVIOUS
<1> HIDE DEF Now
<1> QED
  BY <1>1, <1>2 DEF Running

LEMMA IdleViewed ==
  ASSUME NEW c \in Clients, pc'[c] = "idle", page'[c] = {}
  PROVE  Viewed(c)'
  BY DEF Viewed, NowOK, GetOK, ListOK, PageOK, DoneOK, At

LEMMA StandsViewed ==
  ASSUME NEW c \in Clients, Viewed(c), Track,
         pc'[c] = pc[c], req'[c] = req[c], reply'[c] = reply[c],
         todo'[c] = todo[c], page'[c] = page[c],
         call'[c].q = call[c].q, (call'[c].at = "sending") <=> (call[c].at = "sending"),
         ResultFor(c)' = ResultFor(c), At(c, "answered") => call'[c].got = call[c].got
  PROVE  Viewed(c)'
<1>1. CASE pc[c] = "idle"
  BY <1>1, IdleViewed DEF Viewed, PageOK, At
<1>2. CASE pc[c] # "idle"
  <2>1. /\ was[c] \subseteq was'[c]
        /\ pc[c] # "answered" /\ req[c].route \in Sees =>
             \A a \in Aliases : <<a, devices'[a]>> \in was'[c]
    BY <1>2, Watched
  <2>2. /\ \A a, d : Seen(c, a, d) => Seen(c, a, d)'
        /\ \A S : NamesSeen(c, S) => NamesSeen(c, S)'
        /\ \A S, pg : Collected(c, S, pg) => Collected(c, S, pg)'
    BY <2>1 DEF Seen, NamesSeen, Covered, Known, Collected
  <2>3. NowOK(c)'
    BY <2>1 DEF NowOK
  <2>4. GetOK(c)' /\ ListOK(c)'
    BY <2>2 DEF Viewed, GetOK, ListOK, At
  <2>5. PageOK(c)'
    BY <2>1, <2>2 DEF Viewed, PageOK, At
  <2>6. DoneOK(c)'
    <3>1. Shown(c) /\ At(c, "answered") => Shown(c)'
      <4>1. \A b : CameAndWent(c, b) => CameAndWent(c, b)'
        BY <2>1 DEF CameAndWent
      <4>2. At(c, "answered") => \A a \in Aliases : <<a, Nil>> \notin was'[c] => <<a, Nil>> \notin was[c]
        BY <2>1
      <4> QED
        BY <4>1, <4>2 DEF Shown
    <3> QED
      BY <2>1, <2>2, <3>1 DEF Viewed, DoneOK, At
  <2> QED
    BY <2>3, <2>4, <2>5, <2>6 DEF Viewed
<1> QED
  BY <1>1, <1>2

\* A handler answers.
LEMMA AnswerViewed ==
  ASSUME RequestsOK, NEW c \in Clients, NEW s, Answer(c, s),
         page'[c] \subseteq was'[c], DoneOK(c)'
  PROVE  Viewed(c)'
<1>1. pc'[c] = "answered"
  BY DEF Answer, RequestsOK
<1> QED
  BY <1>1 DEF Viewed, NowOK, GetOK, ListOK, PageOK, At

\* A handler goes on to a point at which it reads no device.
LEMMA MoveViewed ==
  ASSUME NEW c \in Clients, Viewed(c), Track, pc[c] # "answered",
         pc'[c] \notin {"idle", "answered", "get", "aliases"}, page'[c] = page[c]
  PROVE  Viewed(c)'
<1>1. /\ was[c] \subseteq was'[c]
      /\ req'[c].route \in Sees => \A a \in Aliases : <<a, devices'[a]>> \in was'[c]
  BY Watched
<1> QED
  BY <1>1 DEF Viewed, NowOK, GetOK, ListOK, PageOK, DoneOK, At

\* A handler asks for the aliases, or for a device.
LEMMA SendViewed ==
  ASSUME RequestsOK, NEW c \in Clients, NEW q, NEW l \in {"get", "aliases"},
         Send(c, q), GoTo(c, l), Track, pc[c] # "answered",
         page'[c] \subseteq was'[c],
         l = "get" => /\ req'[c].route # "devices" => q.name = req'[c].alias
                      /\ req'[c].route = "device" => req'[c].alias \in Aliases
                      /\ req'[c].route = "devices" => Collected(c, todo[c] \cup {q.name}, page[c])'
  PROVE  Viewed(c)'
<1>1. pc'[c] = l /\ call'[c].at = "sending" /\ call'[c].q = q
  BY Sent DEF GoTo, RequestsOK, RecordsTypeOK
<1>2. req'[c].route \in Sees => \A a \in Aliases : <<a, devices'[a]>> \in was'[c]
  BY <1>1, Watched
<1>3. NowOK(c)' /\ GetOK(c)' /\ ListOK(c)' /\ DoneOK(c)'
  BY <1>1, <1>2 DEF NowOK, GetOK, ListOK, DoneOK, At
<1>4. PageOK(c)'
  <2>1. CASE l = "get" /\ req'[c].route = "devices"
    <3>1. Collected(c, todo[c] \cup {q.name}, page[c])'
      BY <2>1
    <3>2. Collected(c, todo[c] \cup {call[c].q.name}, page[c])'
      BY <1>1, <3>1
    <3> QED
      BY <1>1, <2>1, <3>2 DEF PageOK, At
  <2>2. CASE ~(l = "get" /\ req'[c].route = "devices")
    BY <1>1, <2>2 DEF PageOK, At
  <2> QED
    BY <2>1, <2>2
<1> QED
  BY <1>3, <1>4 DEF Viewed

-----------------------------------------------------------------------------
(* The steps of the device routes. *)

LEMMA BeginsViewed ==
  ASSUME RequestsOK, NEW c \in Clients, Viewed(c), Track, ServerBegins(c)
  PROVE  Viewed(c)'
<1>0. /\ pc[c] = "idle" /\ page[c] = {} /\ page' = page
  BY BeginsSends DEF ServerBegins, WriteBegins, WriteRejected, Redirected, HandleRootGet,
     HandleDevicesGet, HandleDeviceGet, Begin, At, Viewed, PageOK, lists
<1>1. CASE WriteBegins(c)
  <2>1. pc'[c] = "check"
    BY <1>1 DEF WriteBegins, CheckPassword, GoTo, RequestsOK
  <2> QED
    BY <1>0, <2>1, MoveViewed
<1>2. CASE WriteRejected(c) \/ Redirected(c)
  <2>1. PICK s \in {"Unprocessable", "Redirect"} : Answer(c, s)
    BY <1>2 DEF WriteRejected, Redirected
  <2>2. reply'[c] = s
    BY <2>1 DEF Answer, RequestsOK, RecordsTypeOK
  <2>3. DoneOK(c)'
    BY <2>2 DEF DoneOK
  <2> QED
    BY <1>0, <2>1, <2>3, AnswerViewed
<1>3. CASE HandleRootGet(c) \/ HandleDevicesGet(c)
  <2>1. Send(c, [op |-> "aliases"]) /\ GoTo(c, "aliases")
    BY <1>3 DEF HandleRootGet, HandleDevicesGet, GetAllAliases
  <2> QED
    BY <1>0, <2>1, SendViewed
<1>4. CASE HandleDeviceGet(c)
  <2>1. PICK a \in Aliases :
          Begin(c, [NoForm EXCEPT !.route = "device", !.alias = a]) /\ GetDevice(c, a)
    BY <1>4 DEF HandleDeviceGet
  <2> DEFINE f == [NoForm EXCEPT !.route = "device", !.alias = a]
  <2>2. f.route = "device" /\ f.alias = a
    BY DEF NoForm
  <2>3. req'[c] = f
    BY <2>1 DEF Begin, RequestsOK, RecordsTypeOK
  <2>4. Send(c, [op |-> "get", name |-> a]) /\ GoTo(c, "get")
    BY <2>1 DEF GetDevice
  <2> HIDE DEF f
  <2> QED
    BY <1>0, <2>2, <2>3, <2>4, SendViewed
<1> QED
  BY <1>1, <1>2, <1>3, <1>4 DEF ServerBegins

\* The page is cut at the first device that was lost, if any was.
LEMMA CutAfterLost ==
  ASSUME NEW pg \in SUBSET Entry, NEW e \in pg, e \notin Rendered(pg)
  PROVE  \E b \in Aliases : <<b, Nil>> \in pg /\ Position[b] < Position[e[1]]
<1>1. PICK f \in pg : f[2] = Nil /\ ~(Position[e[1]] <= Position[f[1]])
  BY DEF Rendered
<1>2. f[1] \in Aliases /\ f = <<f[1], Nil>> /\ e[1] \in Aliases
  BY <1>1 DEF Entry
<1>3. Position[f[1]] < Position[e[1]]
  BY <1>1, <1>2, ServerAssumption
<1> QED
  BY <1>2, <1>3

\* The next device is looked up, or the page is complete.
LEMMA NextViewed ==
  ASSUME RequestsOK, ListsOK, NEW c \in Clients, NEW S \in SUBSET Aliases,
         NEW pg \in SUBSET Entry, Viewed(c), Track,
         GetNext(c, S, pg), UNCHANGED req, req[c].route = "devices", pc[c] # "answered",
         Collected(c, S, pg)'
  PROVE  Viewed(c)'
<1>1. CASE S = {} /\ Answer(c, "OK") /\ page' = [page EXCEPT ![c] = Rendered(pg)]
  <2>1. page'[c] = Rendered(pg)
    BY <1>1 DEF ListsOK
  <2>2. page'[c] \subseteq was'[c]
    BY <2>1 DEF Rendered, Collected
  <2>3. Collected(c, {}, pg)'
    BY <1>1
  <2>4. Shown(c)'
    <3> SUFFICES ASSUME NEW a \in Aliases, <<a, Nil>> \notin was'[c],
                        ~ \E d \in Devices : <<a, d>> \in Rendered(pg)
                 PROVE  \E b \in Aliases : CameAndWent(c, b)' /\ Position[b] < Position[a]
      BY <2>1 DEF Shown
    <3>1. PICK d \in Devices : <<a, d>> \in pg
      BY <2>3 DEF Collected, Covered
    <3>2. PICK b \in Aliases : <<b, Nil>> \in pg /\ Position[b] < Position[a]
      BY <3>1, CutAfterLost
    <3>3. CameAndWent(c, b)'
      BY <2>3, <3>2 DEF Collected, Known, CameAndWent
    <3> QED
      BY <3>2, <3>3
  <2>5. DoneOK(c)'
    BY <2>4 DEF DoneOK
  <2> QED
    BY <1>1, <2>2, <2>5, AnswerViewed
<1>2. ASSUME NEW a \in S, GetDevice(c, a), todo' = [todo EXCEPT ![c] = S \ {a}],
             page' = [page EXCEPT ![c] = pg]
      PROVE  Viewed(c)'
  <2>1. Send(c, [op |-> "get", name |-> a]) /\ GoTo(c, "get")
    BY <1>2 DEF GetDevice
  <2>2. todo'[c] = S \ {a} /\ page'[c] = pg
    BY <1>2 DEF ListsOK
  <2>4. (S \ {a}) \cup {a} = S
    OBVIOUS
  <2>5. Collected(c, todo[c] \cup {a}, page[c])'
    BY <2>2, <2>4
  <2>6. page'[c] \subseteq was'[c]
    BY <2>2 DEF Collected
  <2> QED
    BY <2>1, <2>5, <2>6, SendViewed
<1> QED
  BY <1>1, <1>2 DEF GetNext

LEMMA StepViewed ==
  ASSUME RequestsOK, ListsOK, NEW c \in Clients, Accounted(c), Viewed(c), Track, ServerStep(c)
  PROVE  Viewed(c)'
<1>0. /\ call[c].at = "idle" /\ req' = req /\ pc[c] \in Awaiting \ {"update"}
      /\ page[c] \subseteq was[c]
  BY DEF ServerStep, PasswordRefused, DeleteFirst, RegisterAtOnce, DeleteDone, RenameGoesOn,
         RegisterDone, RootListed, DevicesListed, DeviceFetched, DeviceGetDone, Granted,
         Answered, At, Awaiting, Viewed, PageOK
<1>1. ResultFor(c) = call[c].got
  BY <1>0 DEF ResultFor
<1>2. pc'[c] # "idle"
  BY StepSends, <1>0 DEF ServerStep, PasswordRefused, DeleteFirst, DelDevice, RegisterAtOnce,
     DeleteDone, RenameGoesOn, RegisterDone, RootListed, DevicesListed, DeviceFetched,
     DeviceGetDone, RegisterOrUpdateDevice, GetNext, GetDevice, GoTo, Answer, RequestsOK
<1>3. was[c] \subseteq was'[c]
  BY <1>2, Watched
<1>4. ASSUME NEW s, Answer(c, s), UNCHANGED lists,
             req[c].route \in Readers => s \notin {"OK", "NotFound"}
      PROVE  Viewed(c)'
  <2>1. page'[c] \subseteq was'[c]
    BY <1>0, <1>3, <1>4 DEF lists
  <2>2. DoneOK(c)'
    BY <1>0, <1>4 DEF DoneOK, Answer, RequestsOK, RecordsTypeOK, Readers
  <2> QED
    BY <1>4, <2>1, <2>2, AnswerViewed
<1>5. CASE PasswordRefused(c) \/ DeleteDone(c) \/ RegisterDone(c)
  <2>1. /\ UNCHANGED lists
        /\ \/ Answer(c, "Unauthorized")
           \/ /\ req[c].route \notin Readers
              /\ \E s \in Status : Answer(c, s)
    BY <1>5 DEF PasswordRefused, DeleteDone, RegisterDone, Answered, At, Accounted, RouteOK,
       Readers, Status
  <2> QED
    BY <1>4, <2>1
<1>6. CASE DeleteFirst(c) \/ RegisterAtOnce(c) \/ RenameGoesOn(c)
  <2>1. UNCHANGED lists
    BY <1>6 DEF DeleteFirst, RegisterAtOnce, RenameGoesOn
  <2>2. \/ \E s \in {"aborted", "BadRequest"} : Answer(c, s)
        \/ \E l \in {"delete", "register"} : GoTo(c, l)
    BY <1>6 DEF DeleteFirst, DelDevice, RegisterAtOnce, RenameGoesOn, RegisterOrUpdateDevice
  <2>3. ASSUME NEW l \in {"delete", "register"}, GoTo(c, l)
        PROVE  Viewed(c)'
    <3>1. pc'[c] = l /\ page'[c] = page[c]
      BY <2>1, <2>3 DEF GoTo, RequestsOK, lists
    <3> QED
      BY <1>0, <3>1, MoveViewed DEF Awaiting
  <2> QED
    BY <1>4, <2>1, <2>2, <2>3
<1>7. CASE RootListed(c)
  <2>1. /\ Answer(c, "OK") /\ req[c].route = "root" /\ call' = call /\ page' = page
        /\ NamesSeen(c, call[c].got.names)
    BY <1>0, <1>1, <1>7 DEF RootListed, Answered, At, storageVars, lists, Viewed, ListOK
  <2>2. NamesSeen(c, call[c].got.names)'
    BY <1>3, <2>1 DEF NamesSeen
  <2>3. DoneOK(c)'
    BY <1>0, <2>1, <2>2 DEF DoneOK
  <2> QED
    BY <1>0, <1>3, <2>1, <2>3, AnswerViewed
<1>8. CASE DeviceGetDone(c)
  <2>1. /\ \E s \in {"OK", "NotFound"} : Answer(c, s)
        /\ req[c].route = "device" /\ call' = call /\ page' = page
        /\ Seen(c, req[c].alias, call[c].got.dev) /\ req[c].alias \in Aliases
    BY <1>0, <1>1, <1>8 DEF DeviceGetDone, Answered, At, storageVars, lists, Viewed, GetOK, Sees,
       Readers
  <2>2. <<req[c].alias, call[c].got.dev>> \in was'[c]
    BY <1>3, <2>1, MessagesAssumption DEF Seen
  <2>3. DoneOK(c)'
    BY <1>0, <2>1, <2>2 DEF DoneOK
  <2> QED
    BY <1>0, <1>3, <2>1, <2>3, AnswerViewed
<1>9. CASE DevicesListed(c)
  <2>1. /\ req[c].route = "devices" /\ GetNext(c, call[c].got.names, {})
        /\ NamesSeen(c, call[c].got.names) /\ call[c].got.names \in SUBSET Aliases
    BY <1>0, <1>1, <1>9 DEF DevicesListed, Answered, At, Viewed, ListOK, RequestsOK,
       RecordsTypeOK, StorageTypeOK, Call, Reply
  <2>2. \A a \in Aliases : IF a \in call[c].got.names THEN \E d \in Devices : <<a, d>> \in was'[c]
                                                      ELSE <<a, Nil>> \in was'[c]
    BY <1>3, <2>1 DEF NamesSeen
  <2>3. PICK S \in SUBSET Aliases, pg \in SUBSET Entry : S = call[c].got.names /\ pg = {}
    BY <2>1
  <2>4. Collected(c, S, pg)'
    BY <2>2, <2>3 DEF Covered, Known, Collected
  <2> QED
    BY <1>0, <2>1, <2>3, <2>4, NextViewed DEF Awaiting
<1>10. CASE DeviceFetched(c)
  <2> DEFINE a == call[c].q.name
             e == call[c].got.dev
  <2>1. /\ req[c].route = "devices" /\ GetNext(c, todo[c], page[c] \cup {<<a, e>>})
        /\ At(c, "get")
    BY <1>10 DEF DeviceFetched, Answered
  <2>2. a \in Aliases /\ e \in MaybeDevice
    BY <1>10, <2>1 DEF Accounted, CallOK, RequestsOK, RecordsTypeOK, StorageTypeOK, Call, Reply
  <2>3. <<a, e>> \in was[c] /\ Collected(c, todo[c] \cup {a}, page[c])
    BY <1>0, <1>1, <2>1, <2>2, MessagesAssumption DEF Viewed, GetOK, PageOK, Sees, Readers, Seen
  <2>a. todo[c] \in SUBSET Aliases /\ page[c] \cup {<<a, e>>} \in SUBSET Entry
    BY <2>2 DEF ListsOK, Entry
  <2>4. PICK S \in SUBSET Aliases, pg \in SUBSET Entry : S = todo[c] /\ pg = page[c] \cup {<<a, e>>}
    BY <2>a
  <2>5. pg \subseteq was'[c]
    BY <1>0, <1>3, <2>3, <2>4
  <2>6. \A b \in S : Known(c, b)'
    BY <1>3, <2>3, <2>4 DEF Collected, Known
  <2>7. \A f \in pg : Known(c, f[1])'
    <3>1. Known(c, a) /\ \A f \in page[c] : Known(c, f[1])
      BY <2>3 DEF Collected
    <3>2. \A b : Known(c, b) => Known(c, b)'
      BY <1>3 DEF Known
    <3> QED
      BY <2>4, <3>1, <3>2
  <2>8. Covered(c, S, pg)'
    BY <1>3, <2>2, <2>3, <2>4 DEF Collected, Covered, MaybeDevice
  <2>9. Collected(c, S, pg)'
    BY <2>5, <2>6, <2>7, <2>8 DEF Collected
  <2> QED
    BY <1>0, <2>1, <2>4, <2>9, NextViewed DEF Awaiting
<1> QED
  BY <1>5, <1>6, <1>7, <1>8, <1>9, <1>10 DEF ServerStep

-----------------------------------------------------------------------------
(* The steps of a configuration, of the storage goroutine, of the others.  *)

LEMMA ConfigViewed ==
  ASSUME RequestsOK, NEW c \in Clients, Accounted(c), Viewed(c), Track,
         ConfigBegins(c) \/ ConfigStep(c), UNCHANGED lists
  PROVE  Viewed(c)'
<1>0. pc[c] # "answered" /\ page'[c] = page[c] /\ page[c] \subseteq was[c]
  BY DEF ConfigBegins, RejectConfig, HandleConfigInit, HandleConfigUpdate, Begin, ConfigStep,
         GetDB, OpenDB, OpenFails, InitBuckets, InitPassword, InitPanics, Launch, SetFlag,
         UpdateDone, Answered, At, lists, Viewed, PageOK
<1>1. CASE RejectConfig(c)
  <2>1. Answer(c, "Unprocessable")
    BY <1>1 DEF RejectConfig
  <2>2. reply'[c] = "Unprocessable" /\ pc'[c] = "answered"
    BY <2>1 DEF Answer, RequestsOK, RecordsTypeOK
  <2>3. DoneOK(c)' /\ page'[c] \subseteq was'[c]
    BY <1>0, <2>2, Watched DEF DoneOK
  <2> QED
    BY <2>1, <2>3, AnswerViewed
<1>2. CASE OpenFails(c) \/ InitPanics(c) \/ SetFlag(c) \/ UpdateDone(c)
  <2>1. PICK s \in Status : Answer(c, s)
    BY <1>2 DEF OpenFails, InitPanics, SetFlag, UpdateDone, Status
  <2>2. req' = req /\ req[c].route = "config" /\ pc'[c] = "answered"
    BY <1>2, <2>1 DEF OpenFails, InitPanics, SetFlag, UpdateDone, Answered, At, Accounted, RouteOK,
       Configuring, Answer, RequestsOK
  <2>3. DoneOK(c)' /\ page'[c] \subseteq was'[c]
    BY <1>0, <2>2, Watched DEF DoneOK
  <2> QED
    BY <2>1, <2>3, AnswerViewed
<1>3. CASE \/ HandleConfigInit(c) \/ HandleConfigUpdate(c) \/ GetDB(c) \/ OpenDB(c)
           \/ InitBuckets(c) \/ InitPassword(c) \/ Launch(c)
  <2>1. pc'[c] \in Configuring \cup {"update"}
    BY <1>3 DEF HandleConfigInit, HandleConfigUpdate, GetDB, OpenDB, InitBuckets, InitPassword,
       Launch, GoTo, Configuring, RequestsOK
  <2> QED
    BY <1>0, <2>1, MoveViewed DEF Configuring
<1> QED
  BY <1>1, <1>2, <1>3 DEF ConfigBegins, ConfigStep

\* The request of c is received: what the handler reads is what there is.
LEMMA ServeViewed ==
  ASSUME RequestsOK, OneInService, NEW c \in Clients, Accounted(c), Viewed(c), Track, Serve(c),
         UNCHANGED lists
  PROVE  Viewed(c)'
<1>0. /\ StorageTypeOK /\ Handle(c) /\ pc' = pc /\ req' = req /\ reply' = reply
      /\ todo' = todo /\ page' = page
  BY DEF Serve, requests, RequestsOK, RecordsTypeOK, lists
<1>1. /\ call[c].at = "sending" /\ call[c].got = Failure /\ pc[c] \in Awaiting
      /\ call[c].q.op = Awaits[pc[c]]
  BY <1>0, HandleAnswers DEF OneInService, Accounted, CallOK
<1>2. /\ call'[c].at = "waiting" /\ call'[c].q = call[c].q /\ call'[c].got = Failure
  BY <1>0, <1>1, HandleAnswers DEF StorageTypeOK, Call
<1>3. /\ was[c] \subseteq was'[c]
      /\ req[c].route \in Sees => \A a \in Aliases : <<a, devices'[a]>> \in was'[c]
  BY <1>0, <1>1, Watched DEF Awaiting
<1>4. \A S, pg : Collected(c, S, pg) => Collected(c, S, pg)'
  BY <1>3 DEF Covered, Known, Collected
<1>5. NowOK(c)' /\ DoneOK(c)'
  BY <1>0, <1>1, <1>3 DEF NowOK, DoneOK, At, Awaiting
<1>6. PageOK(c)'
  BY <1>0, <1>2, <1>3, <1>4 DEF Viewed, PageOK, At
<1>7. GetOK(c)'
  <2> SUFFICES ASSUME At(c, "get")
               PROVE  GetOK(c)'
    BY <1>0 DEF GetOK, At
  <2>1. call[c].q.op = "get"
    BY <1>1 DEF Awaits, At
  <2>2. devices' = devices /\ out' = Found(Stored(call[c].q.name))
    BY <1>0, <2>1 DEF Handle, HandlePass, HandleNewDevice, HandleGetDev, HandleDeviceDel,
       HandleUpdatePass, HandleAliasRequest, Receives, Answers
  <2>3. ResultFor(c)'.dev = Stored(call[c].q.name)
        /\ (ResultFor(c)'.ok <=> Stored(call[c].q.name) # Nil)
    BY <1>2, <2>2 DEF ResultFor, Found
  <2>4. call[c].q.name \in Names
    BY <1>0, <1>1, <2>1, RequestKinds DEF StorageTypeOK, GetDev
  <2>5. req[c].route \in Sees =>
          <<call[c].q.name, Stored(call[c].q.name)>> \in was'[c]
          \/ (call[c].q.name = Empty /\ Stored(call[c].q.name) = Nil)
    BY <1>3, <2>2, <2>4, MessagesAssumption DEF Stored, Names
  <2>6. req[c].route \in Sees => Seen(c, call[c].q.name, ResultFor(c).dev)'
    BY <1>2, <2>3, <2>5 DEF Seen
  <2> QED
    BY <1>0, <1>2, <2>3, <2>6 DEF Viewed, GetOK, At
<1>8. ListOK(c)'
  <2> SUFFICES ASSUME At(c, "aliases")
               PROVE  ListOK(c)'
    BY <1>0 DEF ListOK, At
  <2>1. call[c].q.op = "aliases" /\ req[c].route \in Sees
    BY <1>1 DEF Awaits, At, Accounted, RouteOK, Sees
  <2>2. devices' = devices /\ out' = Listed(Registered)
    BY <1>0, <2>1 DEF Handle, HandlePass, HandleNewDevice, HandleGetDev, HandleDeviceDel,
       HandleUpdatePass, HandleAliasRequest, Receives, Answers
  <2>3. ResultFor(c)'.names = Registered
    BY <1>2, <2>2 DEF ResultFor, Listed, Failure
  <2>4. \A a \in Aliases :
          IF a \in Registered THEN \E d \in Devices : <<a, d>> \in was'[c] ELSE <<a, Nil>> \in was'[c]
    BY <1>0, <1>3, <2>1, <2>2 DEF Registered, StorageTypeOK, MaybeDevice
  <2>5. NamesSeen(c, ResultFor(c).names)'
    BY <2>3, <2>4 DEF NamesSeen
  <2> QED
    BY <2>5 DEF ListOK
<1> QED
  BY <1>5, <1>6, <1>7, <1>8 DEF Viewed

LEMMA OtherViewed ==
  ASSUME NEW d \in Clients, Viewed(d), Track, UNCHANGED <<cur, out>>,
         pc'[d] = pc[d], req'[d] = req[d], reply'[d] = reply[d], call'[d] = call[d],
         todo'[d] = todo[d], page'[d] = page[d]
  PROVE  Viewed(d)'
<1>1. ResultFor(d)' = ResultFor(d)
  BY DEF ResultFor
<1> QED
  BY <1>1, StandsViewed

LEMMA ReturnViewed ==
  ASSUME RequestsOK, ListsOK, NEW c \in Clients, Return(c)
  PROVE  Viewed(c)'
<1>1. pc'[c] = "idle" /\ page'[c] = {}
  BY DEF Return, Finish, RequestsOK, ListsOK
<1> QED
  BY <1>1, IdleViewed

LEMMA StorageViewed ==
  ASSUME RequestsOK, OneInService, NEW d \in Clients, Accounted(d), Viewed(d), Track,
         Deliver \/ \E c \in Clients : Serve(c), UNCHANGED lists
  PROVE  Viewed(d)'
<1>0. /\ pc' = pc /\ req' = req /\ reply' = reply /\ todo' = todo /\ page' = page
      /\ call \in [Clients -> Call] /\ out \in Reply /\ StorageTypeOK
      /\ At(d, "answered") => call[d].at = "idle"
  BY DEF Deliver, Serve, requests, lists, RequestsOK, RecordsTypeOK, StorageTypeOK, Accounted,
         CallOK, At, Awaiting
<1>1. ASSUME NEW c \in Clients, Serve(c)
      PROVE  Viewed(d)'
  <2>1. CASE d = c
    BY <1>1, <2>1, ServeViewed
  <2>2. CASE d # c
    <3>1. loop = "select" /\ call' = [call EXCEPT ![c].at = "waiting"]
      BY <1>0, <1>1, HandleAnswers DEF Serve
    <3>2. call'[d] = call[d] /\ call[d].at # "waiting"
      BY <1>0, <2>2, <3>1, MessagesAssumption DEF OneInService, StorageTypeOK
    <3>3. ResultFor(d)' = ResultFor(d)
      BY <3>2 DEF ResultFor
    <3> QED
      BY <1>0, <3>2, <3>3, StandsViewed
  <2> QED
    BY <2>1, <2>2
<1>2. CASE SendAlias
  <2>1. CASE d = cur
    <3>1. call[d].at = "waiting"
      BY <2>1 DEF OneInService
    <3>2. /\ call'[d].at = "waiting" /\ call'[d].q = call[d].q
          /\ ResultFor(d)' = ResultFor(d)
      <4>1. PICK a \in out.names :
              /\ out' = [out EXCEPT !.names = @ \ {a}]
              /\ call' = [call EXCEPT ![d].got.names = @ \cup {a}]
        BY <1>2, <2>1 DEF SendAlias
      <4>2. /\ call'[d].at = "waiting" /\ call'[d].q = call[d].q
            /\ call'[d].got.names = call[d].got.names \cup {a}
            /\ out'.names = out.names \ {a}
        BY <1>0, <3>1, <4>1 DEF Call, Reply
      <4>3. out'.names \cup call'[d].got.names = out.names \cup call[d].got.names
        BY <4>2
      <4>4. [out' EXCEPT !.names = out.names \cup call[d].got.names]
              = [out EXCEPT !.names = out.names \cup call[d].got.names]
        BY <1>0, <4>1 DEF Reply
      <4> QED
        BY <3>1, <4>2, <4>3, <4>4 DEF ResultFor
    <3> QED
      BY <1>0, <3>1, <3>2, StandsViewed
  <2>2. CASE d # cur
    <3>1. call'[d] = call[d] /\ call[d].at # "waiting"
      BY <1>0, <1>2, <2>2 DEF SendAlias, OneInService
    <3>2. ResultFor(d)' = ResultFor(d)
      BY <3>1 DEF ResultFor
    <3> QED
      BY <1>0, <3>1, <3>2, StandsViewed
  <2> QED
    BY <2>1, <2>2
<1>3. CASE SendReply
  <2>1. CASE d = cur
    <3>1. /\ call[d].at = "waiting" /\ call'[d].at = "idle" /\ call'[d].q = call[d].q
          /\ call'[d].got = [out EXCEPT !.names = call[d].got.names] /\ out.names = {}
      BY <1>0, <1>3, <2>1 DEF SendReply, Call, OneInService
    <3>2. [out EXCEPT !.names = out.names \cup call[d].got.names] = call'[d].got
      BY <3>1
    <3>3. ResultFor(d)' = ResultFor(d)
      BY <3>1, <3>2 DEF ResultFor
    <3> QED
      BY <1>0, <3>1, <3>3, StandsViewed
  <2>2. CASE d # cur
    <3>1. call'[d] = call[d] /\ call[d].at # "waiting"
      BY <1>0, <1>3, <2>2 DEF SendReply, OneInService
    <3>2. ResultFor(d)' = ResultFor(d)
      BY <3>1 DEF ResultFor
    <3> QED
      BY <1>0, <3>1, <3>2, StandsViewed
  <2> QED
    BY <2>1, <2>2
<1> QED
  BY <1>1, <1>2, <1>3 DEF Deliver

\* A handler panics: its client may be told that no device is registered, and
\* without the buckets none is.
LEMMA PanicViewed ==
  ASSUME RequestsOK, OneInService, EmptyWithoutBuckets, NEW d \in Clients, Accounted(d), Viewed(d),
         Track, NEW c \in Clients, StoragePanics(c), UNCHANGED lists
  PROVE  Viewed(d)'
<1>0. /\ pc' = pc /\ req' = req /\ reply' = reply /\ todo' = todo /\ page' = page
      /\ call \in [Clients -> Call] /\ call[c].at = "sending" /\ ~buckets
      /\ UNCHANGED <<devices, cur, out>>
  BY DEF StoragePanics, NilBucket, requests, lists, disk, RequestsOK, RecordsTypeOK, StorageTypeOK
<1>1. CASE call'[d] = call[d]
  BY <1>0, <1>1, OtherViewed
<1>2. CASE call'[d] # call[d]
  <2>1. /\ d = c /\ call[c].q.op \notin {"add", "get"}
        /\ call'[c].at = "idle" /\ call'[c].got = Success
    <3>1. /\ call' = [call EXCEPT ![c].at = "idle", ![c].got = Success]
          /\ call[c].q.op \notin {"add", "get"}
      BY <1>2 DEF StoragePanics, NilBucket
    <3> QED
      BY <1>0, <1>2, <3>1 DEF Call
  <2>2. pc[c] \in Awaiting \ {"register", "get"}
    BY <1>0, <2>1 DEF Accounted, CallOK, Awaiting, Awaits
  <2>3. was[c] \subseteq was'[c]
        /\ (req[c].route \in Sees => \A a \in Aliases : <<a, devices'[a]>> \in was'[c])
    BY <1>0, <2>2, Watched DEF Awaiting
  <2>4. NowOK(c)' /\ GetOK(c)' /\ PageOK(c)' /\ DoneOK(c)'
    BY <1>0, <2>1, <2>2, <2>3 DEF NowOK, GetOK, Viewed, PageOK, DoneOK, At, Awaiting
  <2>5. ListOK(c)'
    <3> SUFFICES ASSUME At(c, "aliases")
                 PROVE  ListOK(c)'
      BY <1>0 DEF ListOK, At
    <3>1. req[c].route \in Sees
      BY <2>1 DEF Accounted, RouteOK, Sees
    <3>2. \A a \in Aliases : devices'[a] = Nil
      BY <1>0 DEF EmptyWithoutBuckets, Registered
    <3>3. \A a \in Aliases : <<a, Nil>> \in was'[c]
      BY <2>3, <3>1, <3>2
    <3>4. ResultFor(c)'.names = {}
      BY <2>1 DEF ResultFor, Success
    <3>5. NamesSeen(c, ResultFor(c).names)'
      BY <3>3, <3>4 DEF NamesSeen
    <3> QED
      BY <3>5 DEF ListOK
  <2> QED
    BY <2>1, <2>4, <2>5 DEF Viewed
<1> QED
  BY <1>1, <1>2

LEMMA ViewedStep ==
  ASSUME ServerInv, EmptyWithoutBuckets, \A c \in Clients : Viewed(c), [ServerNext]_serverVars
  PROVE  \A c \in Clients : Viewed(c)'
<1> TAKE d \in Clients
<1>0. RequestsOK /\ ListsOK /\ OneInService /\ Accounted(d)
  BY DEF ServerInv, ServerRecordsOK
<1>1. ASSUME NEW c \in Clients, Track,
             ServerBegins(c) \/ RequestStep(c) \/ (ConfigBegins(c) /\ UNCHANGED lists)
      PROVE  Viewed(d)'
  <2>1. CASE d = c
    BY <1>0, <1>1, <2>1, BeginsViewed, StepViewed, ConfigViewed, ReturnViewed DEF RequestStep
  <2>2. CASE d # c
    <3>1. todo'[d] = todo[d] /\ page'[d] = page[d]
      BY <1>0, <1>1, <2>2, ListsUntouched DEF lists
    <3> QED
      BY <1>0, <1>1, <2>2, <3>1, OthersUntouched, OtherViewed
  <2> QED
    BY <2>1, <2>2
<1>2. ASSUME Start, Forget
      PROVE  Viewed(d)'
  <2>1. pc'[d] = "idle" /\ page'[d] = {}
    BY <1>2 DEF Start, Forget
  <2> QED
    BY <2>1, IdleViewed
<1>3. CASE UNCHANGED serverVars
  BY <1>3 DEF serverVars, setupVars, storageVars, disk, requests, history, lists, Viewed, NowOK,
     GetOK, ListOK, PageOK, DoneOK, Seen, NamesSeen, Covered, Known, Collected, CameAndWent, Shown,
     ResultFor, At
<1> QED
  BY <1>0, <1>1, <1>2, <1>3, StorageViewed, PanicViewed
  DEF ServerNext, Steps, Restart

-----------------------------------------------------------------------------
LEMMA PageInvariant == ServerSpec => [](ServerInv /\ \A c \in Clients : Viewed(c))
<1>1. ServerInit => \A c \in Clients : Viewed(c)
  BY DEF ServerInit, SetupInit, Viewed, NowOK, GetOK, ListOK, PageOK, DoneOK, At
<1> DEFINE AllViewed == \A c \in Clients : Viewed(c)
<1>2. ServerInv /\ EmptyWithoutBuckets /\ AllViewed /\ [ServerNext]_serverVars => AllViewed'
  BY ViewedStep
<1>3. ServerInit => AllViewed
  BY <1>1
<1> HIDE DEF AllViewed
<1>4. ServerSpec => []EmptyWithoutBuckets
  BY ServerUsesStorage, EmptyCorrect, PTL
<1>5. ServerSpec => [](ServerInv /\ AllViewed)
  BY <1>2, <1>3, <1>4, ServerInvariant, PTL DEF ServerSpec
<1> QED
  BY <1>5 DEF AllViewed

\* What the views of the requests say of the pages.
LEMMA ViewedPages ==
  (\A c \in Clients : Viewed(c)) => DevicesPageTruthful /\ SinglePagesTruthful
<1>1. (\A c \in Clients : Viewed(c)) => DevicesPageTruthful
  BY DEF Viewed, PageOK, DoneOK, Shown, DevicesPageTruthful, Replied, At
<1>2. (\A c \in Clients : Viewed(c)) => SinglePagesTruthful
  BY DEF Viewed, DoneOK, NamesSeen, SinglePagesTruthful, Replied, At
<1> QED
  BY <1>1, <1>2

(***************************************************************************)
(* GET /devices: every row of the page was true at some moment of the      *)
(* request, and a device that was there during all of it is on the page,   *)
(* however many requests change the devices while the page is collected,   *)
(* unless the template stopped at a device that comes before it, which was *)
(* registered and was gone while the request ran.                          *)
(***************************************************************************)
THEOREM DevicesPageTruthfulHolds == ServerSpec => []DevicesPageTruthful
  BY ViewedPages, PageInvariant, PTL

(***************************************************************************)
(* GET / and GET /devices/:alias show, or leave out, what was registered,  *)
(* or was not, at some moment of the request.                              *)
(***************************************************************************)
THEOREM SinglePagesTruthfulHolds == ServerSpec => []SinglePagesTruthful
  BY ViewedPages, PageInvariant, PTL

=============================================================================
