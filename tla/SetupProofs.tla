---------------------------- MODULE SetupProofs ----------------------------
(***************************************************************************)
(* Proofs about the setup of the service, for any number of requests and   *)
(* passwords: the setup uses package storage only in ways StorageSpec      *)
(* allows, so everything proved of it there holds here, and however many   *)
(* configurations race there is only one password and one goroutine.       *)
(***************************************************************************)
EXTENDS Setup, StorageProofs

-----------------------------------------------------------------------------
(* The types, and the steps of the setup as steps of the storage. *)

LEMMA FormTypes ==
  /\ NoForm \in Form
  /\ \A p \in Phrases : ConfigForm(p) \in Form
<1>1. NoForm \in Form
  BY DEF NoForm, Form, Route, Names, Phrases, MaybeDevice
<1>2. ASSUME NEW p \in Phrases
      PROVE  ConfigForm(p) \in Form
  BY <1>1, <1>2 DEF ConfigForm, Form, Route
<1> QED
  BY <1>1, <1>2

\* The points at which a request may stand, and the ways it gets there.
LEMMA RequestTypes ==
  ASSUME SetupTypeOK, NEW c \in Clients
  PROVE  /\ \A l \in SetupPoints : GoTo(c, l) =>
              pc' \in [Clients -> SetupPoints] /\ reply' \in [Clients -> Status]
         /\ \A s \in Status : Answer(c, s) =>
              pc' \in [Clients -> SetupPoints] /\ reply' \in [Clients -> Status]
         /\ \A f \in Form : Begin(c, f) => req' \in [Clients -> Form]
  BY DEF SetupTypeOK, RecordsTypeOK, GoTo, Answer, Begin, SetupPoints

\* The handlers behind POST /config as clients of the storage.
LEMMA ConfigStorageStep ==
  ASSUME RecordsTypeOK, NEW c \in Clients, ConfigBegins(c) \/ ConfigStep(c)
  PROVE  StorageNext \/ UNCHANGED storageVars
<1>1. CASE HandleConfigUpdate(c)
  <2>1. PICK o \in Passwords, n \in Passwords : Send(c, [op |-> "update", old |-> o, new |-> n])
    BY <1>1 DEF HandleConfigUpdate
  <2>2. [op |-> "update", old |-> o, new |-> n] \in Request
    BY DEF Request, PasswordUpdate, Phrases
  <2> QED
    BY <2>1, <2>2 DEF StorageNext
<1>2. CASE InitPassword(c)
  <2>1. req[c].pass \in Phrases
    BY DEF RecordsTypeOK, Form
  <2> QED
    BY <1>2, <2>1 DEF InitPassword, StorageNext
<1>3. CASE InitBuckets(c) \/ Launch(c)
  BY <1>3 DEF InitBuckets, Launch, StorageNext
<1>4. CASE \/ RejectConfig(c) \/ HandleConfigInit(c)
           \/ GetDB(c) \/ OpenDB(c) \/ OpenFails(c) \/ InitPanics(c)
           \/ SetFlag(c) \/ UpdateDone(c)
  BY <1>4 DEF RejectConfig, HandleConfigInit, GetDB, OpenDB, OpenFails, InitPanics, SetFlag,
              UpdateDone
<1> QED
  BY <1>1, <1>2, <1>3, <1>4 DEF ConfigBegins, ConfigStep

LEMMA SetupStorageStep ==
  ASSUME SetupTypeOK, [SetupNext]_setupVars
  PROVE  [StorageNext]_storageVars
<1>1. ASSUME NEW c \in Clients, ConfigBegins(c) \/ ConfigStep(c)
      PROVE  StorageNext \/ UNCHANGED storageVars
  BY <1>1, ConfigStorageStep DEF SetupTypeOK
<1>2. ASSUME NEW c \in Clients, Finish(c) \/ Serve(c) \/ StoragePanics(c)
      PROVE  StorageNext
  BY <1>2 DEF Finish, Serve, StoragePanics, StorageNext
<1>3. ASSUME Deliver \/ Restart
      PROVE  StorageNext
  BY <1>3 DEF Deliver, Restart, StorageNext
<1>4. ASSUME UNCHANGED setupVars
      PROVE  UNCHANGED storageVars
  BY <1>4 DEF setupVars
<1> QED
  BY <1>1, <1>2, <1>3, <1>4 DEF SetupNext

\* No step makes way for the empty password.
LEMMA NoEmptyPasswordStep ==
  ASSUME SetupTypeOK, [SetupNext]_setupVars
  PROVE  /\ password' # Empty
         /\ \A c \in Clients :
              /\ pc'[c] \in Configuring => req'[c].pass \in Passwords
              /\ call'[c].at # "idle" => call'[c].q.op = "update" /\ call'[c].q.new \in Passwords
<1> DEFINE Set == password # Empty
           Forms == \A c \in Clients : pc[c] \in Configuring => req[c].pass \in Passwords
           Calls == \A c \in Clients : call[c].at # "idle" =>
                      call[c].q.op = "update" /\ call[c].q.new \in Passwords
<1> USE DEF At, Configuring
<1>0. /\ pc \in [Clients -> SetupPoints] /\ req \in [Clients -> Form]
      /\ call \in [Clients -> Call] /\ StorageTypeOK /\ Set /\ Forms /\ Calls
      /\ Empty \notin Passwords
  BY MessagesAssumption DEF SetupTypeOK, RecordsTypeOK, StorageTypeOK
<1> SUFFICES Set' /\ Forms' /\ Calls'
  OBVIOUS
<1>1. ASSUME NEW c \in Clients, RejectConfig(c) \/ HandleConfigInit(c)
      PROVE  Set' /\ Forms' /\ Calls'
  <2>1. \A p : ConfigForm(p).pass = p
    BY DEF ConfigForm, NoForm
  <2> QED
    BY <1>0, <1>1, <2>1 DEF RejectConfig, HandleConfigInit, Begin, GoTo, Answer, storageVars, disk
<1>2. ASSUME NEW c \in Clients, HandleConfigUpdate(c)
      PROVE  Set' /\ Forms' /\ Calls'
  BY <1>0, <1>2 DEF HandleConfigUpdate, Begin, Send, GoTo, disk
<1>3. ASSUME NEW c \in Clients,
             \/ GetDB(c) \/ OpenDB(c) \/ OpenFails(c) \/ InitPanics(c)
             \/ SetFlag(c) \/ UpdateDone(c)
      PROVE  Set' /\ Forms' /\ Calls'
  BY <1>0, <1>3 DEF GetDB, OpenDB, OpenFails, InitPanics, SetFlag, UpdateDone, Answered,
                    GoTo, Answer, storageVars, disk
<1>4. ASSUME NEW c \in Clients, InitBuckets(c) \/ InitPassword(c) \/ Launch(c)
      PROVE  Set' /\ Forms' /\ Calls'
  BY <1>0, <1>4 DEF InitBuckets, InitPassword, Launch, CreateBuckets, InsertPassword,
                    StartHandling, GoTo, disk
<1>5. ASSUME NEW c \in Clients, Finish(c)
      PROVE  Set' /\ Forms' /\ Calls'
  BY <1>0, <1>5 DEF Finish, Release, NoCall, disk
<1>6. ASSUME NEW c \in Clients, Serve(c)
      PROVE  Set' /\ Forms' /\ Calls'
  <2>1. /\ call' = [call EXCEPT ![c].at = "waiting"] /\ call[c].at = "sending"
        /\ UNCHANGED <<boot, requests>>
    BY <1>0, <1>6, HandleAnswers DEF Serve
  <2>2. call'[c].q = call[c].q /\ \A d \in Clients \ {c} : call'[d] = call[d]
    BY <1>0, <2>1 DEF Call
  <2>3. password' = password \/ password' = call[c].q.new
    BY <1>6 DEF Serve, Handle, HandleNewDevice, HandleGetDev, HandleDeviceDel, HandlePass,
                HandleUpdatePass, HandleAliasRequest
  <2> QED
    BY <1>0, <2>1, <2>2, <2>3 DEF requests
<1>7. CASE Deliver
  <2>1. \A c \in Clients : /\ call'[c].q = call[c].q
                           /\ call'[c].at # "idle" => call[c].at # "idle"
    <3>1. CASE SendAlias
      BY <1>0, <3>1 DEF SendAlias, Call
    <3>2. CASE SendReply
      BY <1>0, <3>2 DEF SendReply, Call
    <3> QED
      BY <1>7, <3>1, <3>2 DEF Deliver
  <2>2. password' = password /\ UNCHANGED requests
    BY <1>7 DEF Deliver, SendAlias, SendReply, disk
  <2> QED
    BY <1>0, <2>1, <2>2 DEF requests
<1>8. CASE Restart
  BY <1>0, <1>8 DEF Restart, Die, Start, NoCall, disk
<1>9. ASSUME NEW c \in Clients, StoragePanics(c)
      PROVE  Set' /\ Forms' /\ Calls'
  <2>1. \A d \in Clients : call'[d] = call[d] \/ call'[d].at = "idle"
    <3>1. CASE call' = call
      BY <3>1
    <3>2. CASE call' = [call EXCEPT ![c].at = "idle", ![c].got = Success]
      BY <1>0, <3>2 DEF Call
    <3> QED
      BY <1>9, <3>1, <3>2 DEF StoragePanics, NilBucket
  <2> QED
    BY <1>0, <1>9, <2>1 DEF StoragePanics, NilBucket, disk, requests
<1>10. CASE UNCHANGED setupVars
  BY <1>0, <1>10 DEF setupVars, storageVars, disk, requests
<1> QED
  BY <1>1, <1>2, <1>3, <1>4, <1>5, <1>6, <1>7, <1>8, <1>9, <1>10
  DEF SetupNext, ConfigBegins, ConfigStep

LEMMA SetupTypeStep ==
  ASSUME SetupTypeOK, [SetupNext]_setupVars
  PROVE  SetupTypeOK'
<1>0. StorageTypeOK'
  BY SetupStorageStep, StorageTypeStep DEF SetupTypeOK, RecordsTypeOK
<1> DEFINE Rest == /\ <<file, db, already, initialized>> \in BOOLEAN \X BOOLEAN \X BOOLEAN \X BOOLEAN
                   /\ req \in [Clients -> Form]
                   /\ reply \in [Clients -> Status]
                   /\ pc \in [Clients -> SetupPoints]
<1> SUFFICES Rest'
  BY <1>0, NoEmptyPasswordStep DEF SetupTypeOK, RecordsTypeOK
<1>a. Rest
  BY DEF SetupTypeOK, RecordsTypeOK
<1>1. ASSUME NEW c \in Clients, ConfigBegins(c)
      PROVE  Rest'
  BY <1>1, <1>a, RequestTypes, FormTypes
  DEF ConfigBegins, RejectConfig, HandleConfigInit, HandleConfigUpdate, boot, Phrases,
      SetupPoints, Configuring, Status
<1>2. ASSUME NEW c \in Clients, ConfigStep(c)
      PROVE  Rest'
  BY <1>2, <1>a, RequestTypes
  DEF ConfigStep, GetDB, OpenDB, OpenFails, InitBuckets, InitPassword, InitPanics, Launch,
      SetFlag, UpdateDone, boot, SetupPoints, Configuring, Status
<1>3. ASSUME NEW c \in Clients, Finish(c)
      PROVE  Rest'
  BY <1>3, <1>a, FormTypes DEF Finish, boot, SetupPoints, Status
<1>4. ASSUME Start
      PROVE  Rest'
  BY <1>4, <1>a, FormTypes DEF Start, SetupPoints, Status
<1>5. ASSUME UNCHANGED <<boot, requests>>
      PROVE  Rest'
  BY <1>5, <1>a DEF boot, requests
<1> QED
  BY <1>1, <1>2, <1>3, <1>4, <1>5 DEF SetupNext, Serve, StoragePanics, Deliver, Restart, setupVars

(***************************************************************************)
(* Every variable of the setup keeps its type, and the empty password is   *)
(* never put in force, neither by the handlers of POST /config nor by the  *)
(* storage goroutine on their behalf.                                      *)
(***************************************************************************)
THEOREM SetupTypeCorrect == SetupSpec => []SetupTypeOK
<1>1. SetupInit => SetupTypeOK
  <2> SUFFICES ASSUME SetupInit PROVE SetupTypeOK
    OBVIOUS
  <2>1. RecordsTypeOK /\ pc \in [Clients -> SetupPoints]
    BY StorageTypeInit, FormTypes DEF SetupInit, RecordsTypeOK, SetupPoints, Status
  <2>2. password # Empty /\ \A c \in Clients : pc[c] = "idle" /\ call[c].at = "idle"
    BY MessagesAssumption DEF SetupInit, StorageInit, NoCall
  <2> QED
    BY <2>1, <2>2 DEF SetupTypeOK, Configuring
<1>2. SetupTypeOK /\ [SetupNext]_setupVars => SetupTypeOK'
  BY SetupTypeStep
<1> QED
  BY <1>1, <1>2, PTL DEF SetupSpec

\* The handlers of the first configuration send to the storage goroutine, and
\* receive from it, only as Storage allows a client to.
THEOREM SetupUsesStorage == SetupSpec => StorageSpec
<1>1. SetupInit => StorageInit
  BY DEF SetupInit
<1>2. SetupTypeOK /\ [SetupNext]_setupVars => [StorageNext]_storageVars
  BY SetupStorageStep
<1> QED
  BY <1>1, <1>2, SetupTypeCorrect, PTL DEF SetupSpec, StorageSpec

\* So with the setup as its client the storage (handleDevices over the bbolt
\* file) does what DeviceStore promises.
THEOREM SetupImplements == SetupSpec => ImplementsDeviceStore
  BY SetupUsesStorage, StorageImplements, PTL

-----------------------------------------------------------------------------
(* The invariants. *)

LEMMA NilIsNoPhrase == Nil \notin Phrases
  BY MessagesAssumption DEF Phrases

\* A step of the storage goroutine neither loses the password nor invents one.
LEMMA ServeEffect ==
  ASSUME StorageTypeOK, NEW c \in Clients, Serve(c)
  PROVE  /\ loop = "select" /\ loop' = "send"
         /\ UNCHANGED <<buckets, boot, requests>>
         /\ password = Nil <=> password' = Nil
<1>1. StorageTypeOK /\ Handle(c) /\ UNCHANGED <<boot, requests>>
  BY DEF Serve
<1>2. loop = "select" /\ loop' = "send" /\ call[c].q \in Request
  BY <1>1, HandleAnswers DEF StorageTypeOK
<1>3. buckets' = buckets
  BY <1>1 DEF Handle, HandleNewDevice, HandleGetDev, HandleDeviceDel, HandlePass,
              HandleUpdatePass, HandleAliasRequest, Answers
<1>4. CASE HandleUpdatePass(c)
  <2>1. call[c].q \in PasswordUpdate
    BY <1>2, <1>4, RequestKinds DEF HandleUpdatePass, Receives
  <2>2. call[c].q.old # Nil /\ call[c].q.new # Nil
    BY <2>1, NilIsNoPhrase DEF PasswordUpdate
  <2> QED
    BY <1>1, <1>2, <1>3, <1>4, <2>2 DEF HandleUpdatePass
<1>5. CASE ~HandleUpdatePass(c)
  <2>1. password' = password
    BY <1>1, <1>5 DEF Handle, HandleNewDevice, HandleGetDev, HandleDeviceDel, HandlePass,
                      HandleAliasRequest
  <2> QED
    BY <1>1, <1>2, <1>3, <2>1
<1> QED
  BY <1>4, <1>5

\* The steps that the setup is made of; P are the points at which a client may
\* stand, those of other handlers included.
LEMMA SetupInvStep ==
  ASSUME RecordsTypeOK, NEW P, pc \in [Clients -> P], SetupInv,
         \/ \E c \in Clients : ConfigBegins(c) \/ ConfigStep(c) \/ Finish(c) \/ Serve(c)
         \/ Deliver
         \/ \E c \in Clients : StoragePanics(c)
         \/ Start /\ UNCHANGED disk
  PROVE  SetupInv'
<1> USE DEF SetupInv, OneConfigurer, ReadyWhenInitialized, ConfigurationProgress, At, Configuring
<1>0. pc \in [Clients -> P]
  OBVIOUS
<1>1. ASSUME NEW c \in Clients, RejectConfig(c) \/ HandleConfigInit(c) \/ HandleConfigUpdate(c)
      PROVE  SetupInv'
  BY <1>0, <1>1 DEF RejectConfig, HandleConfigInit, HandleConfigUpdate, Begin, GoTo, Answer,
                    Send, storageVars, disk, boot
<1>2. ASSUME NEW c \in Clients, GetDB(c) \/ InitPanics(c) \/ UpdateDone(c)
      PROVE  SetupInv'
  BY <1>0, <1>2 DEF GetDB, InitPanics, UpdateDone, Answered, GoTo, Answer, storageVars, disk, boot
<1>3. ASSUME NEW c \in Clients, OpenDB(c)
      PROVE  SetupInv'
  BY <1>0, <1>3 DEF OpenDB, GoTo, storageVars, disk
<1>4. ASSUME NEW c \in Clients, OpenFails(c)
      PROVE  SetupInv'
  <2>1. ~file' => ~file
    BY <1>4 DEF OpenFails
  <2> QED
    BY <1>0, <1>4, <2>1 DEF OpenFails, Answer, storageVars, disk
<1>5. ASSUME NEW c \in Clients, InitBuckets(c)
      PROVE  SetupInv'
  BY <1>0, <1>5 DEF InitBuckets, CreateBuckets, GoTo, boot
<1>6. ASSUME NEW c \in Clients, InitPassword(c)
      PROVE  SetupInv'
  <2>1. req[c].pass # Nil
    BY NilIsNoPhrase DEF RecordsTypeOK, Form
  <2> QED
    BY <1>0, <1>6, <2>1 DEF InitPassword, InsertPassword, GoTo, boot
<1>7. ASSUME NEW c \in Clients, Launch(c)
      PROVE  SetupInv'
  BY <1>0, <1>7 DEF Launch, StartHandling, GoTo, disk, boot
<1>8. ASSUME NEW c \in Clients, SetFlag(c)
      PROVE  SetupInv'
  BY <1>0, <1>8 DEF SetFlag, Answer, storageVars, disk
<1>9. ASSUME NEW c \in Clients, Finish(c)
      PROVE  SetupInv'
  BY <1>0, <1>9 DEF Finish, Release, disk, boot
<1>10. ASSUME NEW c \in Clients, Serve(c)
       PROVE  SetupInv'
  BY <1>10, ServeEffect DEF boot, requests, RecordsTypeOK
<1>11. CASE Deliver
  BY <1>11 DEF Deliver, SendAlias, SendReply, disk, boot, requests
<1>12. ASSUME Start, UNCHANGED disk
       PROVE  SetupInv'
  BY <1>12 DEF Start, disk
<1>13. ASSUME NEW c \in Clients, StoragePanics(c)
       PROVE  SetupInv'
  BY <1>13 DEF StoragePanics, NilBucket, disk, boot, requests
<1> QED
  BY <1>1, <1>2, <1>3, <1>4, <1>5, <1>6, <1>7, <1>8, <1>9, <1>10, <1>11, <1>12, <1>13
  DEF ConfigBegins, ConfigStep

\* The steps that are none of the setup's business.
LEMMA SetupInvStands ==
  ASSUME SetupInv, UNCHANGED <<buckets, password, loop, boot>>,
         \A c \in Clients : pc'[c] \in Configuring => pc'[c] = pc[c]
  PROVE  SetupInv'
  BY DEF SetupInv, OneConfigurer, ReadyWhenInitialized, ConfigurationProgress, At, Configuring, boot

LEMMA SetupInvariant == SetupSpec => []SetupInv
<1>1. SetupInit => SetupInv
  BY DEF SetupInit, StorageInit, SetupInv, OneConfigurer, ReadyWhenInitialized,
         ConfigurationProgress, At, Configuring
<1>2. SetupTypeOK /\ SetupInv /\ [SetupNext]_setupVars => SetupInv'
  <2> SUFFICES ASSUME SetupTypeOK, SetupInv, [SetupNext]_setupVars
               PROVE  SetupInv'
    OBVIOUS
  <2>1. CASE UNCHANGED setupVars
    BY <2>1, SetupInvStands DEF setupVars, storageVars, disk, requests
  <2>2. CASE SetupNext
    <3>1. \/ \E c \in Clients : ConfigBegins(c) \/ ConfigStep(c) \/ Finish(c) \/ Serve(c)
          \/ Deliver
          \/ \E c \in Clients : StoragePanics(c)
          \/ Start /\ UNCHANGED disk
      BY <2>2 DEF SetupNext, Restart, Die
    <3> QED
      BY <3>1, SetupInvStep DEF SetupTypeOK
  <2> QED
    BY <2>1, <2>2
<1> QED
  BY <1>1, <1>2, SetupTypeCorrect, PTL DEF SetupSpec

(***************************************************************************)
(* Racing first configurations: at most one gets beyond its password, and  *)
(* it is the one that starts the storage goroutine and sets the flag.      *)
(***************************************************************************)
THEOREM OneConfigurerHolds == SetupSpec => []OneConfigurer
  BY SetupInvariant, PTL DEF SetupInv

(***************************************************************************)
(* A process that was configured by a request is ready for the others when *)
(* it says that it is.                                                     *)
(***************************************************************************)
THEOREM ReadyWhenInitializedHolds == SetupSpec => []ReadyWhenInitialized
  BY SetupInvariant, PTL DEF SetupInv

(***************************************************************************)
(* Every step of a first configuration finds what the steps before it are  *)
(* there for, whatever other configurations and restarts came in between.  *)
(***************************************************************************)
THEOREM ConfigurationProgressHolds == SetupSpec => []ConfigurationProgress
  BY SetupInvariant, PTL DEF SetupInv

-----------------------------------------------------------------------------
(* The password. *)

\* A call to the storage goroutine that is under way is a change of the
\* password, made by a request that still waits for it.
CallsAccounted ==
  \A c \in Clients : call[c].at # "idle" =>
    /\ At(c, "update")
    /\ call[c].q.op = "update"
    /\ call[c].q.old = req[c].pass

LEMMA CallsAccountedStep ==
  ASSUME SetupTypeOK, CallsAccounted, [SetupNext]_setupVars
  PROVE  CallsAccounted'
<1> USE DEF CallsAccounted, At
<1>0. /\ pc \in [Clients -> SetupPoints] /\ req \in [Clients -> Form]
      /\ call \in [Clients -> Call] /\ StorageTypeOK
  BY DEF SetupTypeOK, RecordsTypeOK, StorageTypeOK
<1>1. ASSUME NEW c \in Clients, RejectConfig(c) \/ HandleConfigInit(c)
      PROVE  CallsAccounted'
  BY <1>0, <1>1 DEF RejectConfig, HandleConfigInit, Begin, GoTo, Answer, storageVars
<1>2. ASSUME NEW c \in Clients, HandleConfigUpdate(c)
      PROVE  CallsAccounted'
  <2>1. PICK o \in Passwords, n \in Passwords :
          /\ Begin(c, ConfigForm(o))
          /\ Send(c, [op |-> "update", old |-> o, new |-> n])
    BY <1>2 DEF HandleConfigUpdate
  <2>2. ConfigForm(o).pass = o
    BY DEF ConfigForm, NoForm
  <2> QED
    BY <1>0, <1>2, <2>1, <2>2 DEF HandleConfigUpdate, Begin, Send, GoTo
<1>3. ASSUME NEW c \in Clients,
             \/ GetDB(c) \/ OpenDB(c) \/ OpenFails(c) \/ InitPanics(c)
             \/ SetFlag(c) \/ UpdateDone(c)
      PROVE  CallsAccounted'
  BY <1>0, <1>3 DEF GetDB, OpenDB, OpenFails, InitPanics, SetFlag, UpdateDone, Answered,
                    GoTo, Answer, storageVars
<1>4. ASSUME NEW c \in Clients, InitBuckets(c) \/ InitPassword(c) \/ Launch(c)
      PROVE  CallsAccounted'
  BY <1>0, <1>4 DEF InitBuckets, InitPassword, Launch, CreateBuckets, InsertPassword,
                    StartHandling, GoTo
<1>5. ASSUME NEW c \in Clients, Finish(c)
      PROVE  CallsAccounted'
  BY <1>0, <1>5 DEF Finish, Release, NoCall
<1>6. ASSUME NEW c \in Clients, Serve(c)
      PROVE  CallsAccounted'
  <2>1. /\ call' = [call EXCEPT ![c].at = "waiting"] /\ call[c].at = "sending"
        /\ UNCHANGED <<boot, requests>>
    BY <1>0, <1>6, HandleAnswers DEF Serve
  <2>2. call'[c].q = call[c].q /\ \A d \in Clients \ {c} : call'[d] = call[d]
    BY <1>0, <2>1 DEF Call
  <2> QED
    BY <2>1, <2>2 DEF requests
<1>7. CASE Deliver
  <2>1. \A c \in Clients : /\ call'[c].q = call[c].q
                           /\ call'[c].at # "idle" => call[c].at # "idle"
    <3>1. CASE SendAlias
      BY <1>0, <3>1 DEF SendAlias, Call
    <3>2. CASE SendReply
      BY <1>0, <3>2 DEF SendReply, Call
    <3> QED
      BY <1>7, <3>1, <3>2 DEF Deliver
  <2> QED
    BY <1>7, <2>1 DEF Deliver, requests
<1>8. CASE Die
  BY <1>8 DEF Die, NoCall
<1>9. CASE UNCHANGED setupVars
  BY <1>9 DEF setupVars, storageVars, requests
<1>10. ASSUME NEW c \in Clients, StoragePanics(c)
       PROVE  CallsAccounted'
  <2>1. \A d \in Clients : call'[d] = call[d] \/ call'[d].at = "idle"
    <3>1. CASE call' = call
      BY <3>1
    <3>2. CASE call' = [call EXCEPT ![c].at = "idle", ![c].got = Success]
      BY <1>0, <3>2 DEF Call
    <3> QED
      BY <1>10, <3>1, <3>2 DEF StoragePanics, NilBucket
  <2> QED
    BY <1>10, <2>1 DEF StoragePanics, requests
<1> QED
  BY <1>1, <1>2, <1>3, <1>4, <1>5, <1>6, <1>7, <1>8, <1>9, <1>10
  DEF SetupNext, ConfigBegins, ConfigStep, Restart

(***************************************************************************)
(* Once there is a password, only a request for /config that is in         *)
(* progress and presented it replaces it; no race and no crash does.       *)
(***************************************************************************)
THEOREM PasswordStandsHolds == SetupSpec => PasswordStands
<1> DEFINE Kept == password # Nil /\ password' # password =>
                     \E c \in Clients : At(c, "update") /\ req[c].pass = password
<1>1. SetupInit => CallsAccounted
  BY DEF SetupInit, StorageInit, NoCall, CallsAccounted
<1>2. SetupTypeOK /\ CallsAccounted /\ [SetupNext]_setupVars => CallsAccounted'
  BY CallsAccountedStep
<1>3. SetupTypeOK /\ CallsAccounted /\ [SetupNext]_setupVars => [Kept]_setupVars
  <2> SUFFICES ASSUME SetupTypeOK, CallsAccounted, SetupNext, password # Nil,
                      password' # password
               PROVE  \E c \in Clients : At(c, "update") /\ req[c].pass = password
    OBVIOUS
  <2>1. PICK c \in Clients : Serve(c)
    BY DEF SetupNext, ConfigBegins, ConfigStep, RejectConfig, HandleConfigInit,
           HandleConfigUpdate, Send, GetDB, OpenDB, OpenFails, InitBuckets, CreateBuckets,
           InitPassword, InsertPassword, InitPanics, Launch, StartHandling, SetFlag,
           UpdateDone, Finish, Release, StoragePanics, NilBucket, Deliver, SendAlias,
           SendReply, Restart, Die, storageVars, disk
  <2>2. HandleUpdatePass(c)
    BY <2>1 DEF Serve, Handle, HandleNewDevice, HandleGetDev, HandleDeviceDel, HandlePass,
                HandleAliasRequest
  <2>3. call[c].at = "sending" /\ password = call[c].q.old
    BY <2>2 DEF HandleUpdatePass, Receives
  <2> QED
    BY <2>3 DEF CallsAccounted
<1>4. SetupSpec => []CallsAccounted
  BY <1>1, <1>2, SetupTypeCorrect, PTL DEF SetupSpec
<1> QED
  BY <1>3, <1>4, SetupTypeCorrect, PTL DEF SetupSpec, PasswordStands
=============================================================================
