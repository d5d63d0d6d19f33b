--------------------------- MODULE StorageProofs ---------------------------
(***************************************************************************)
(* Proofs about package storage, for any number of clients, aliases,       *)
(* devices and passwords: the types, the discipline of the channels, and   *)
(* that the goroutine and its channels implement DeviceStore.              *)
(***************************************************************************)
EXTENDS Storage, TLAPS

-----------------------------------------------------------------------------
(* Lemmas about the messages. *)

\* A request of a given kind is one of the structures of package types.
LEMMA RequestKinds ==
  ASSUME NEW q \in Request
  PROVE  /\ q.op = "add" => q \in AliasResponse
         /\ q.op = "get" => q \in GetDev
         /\ q.op = "del" => q \in DelDev
         /\ q.op = "pass" => q \in PasswordHandling
         /\ q.op = "update" => q \in PasswordUpdate
         /\ q.op = "aliases" => q \in AliasRequest
  BY DEF Request, AliasResponse, GetDev, DelDev, PasswordHandling, PasswordUpdate, AliasRequest

\* What the handlers answer is a reply.
LEMMA ReplyTypes ==
  /\ Failure \in Reply
  /\ Success \in Reply
  /\ \A d \in MaybeDevice : Found(d) \in Reply
  /\ \A S \in SUBSET Aliases : Listed(S) \in Reply
  /\ \A b \in BOOLEAN : [Failure EXCEPT !.ok = b] \in Reply
  BY DEF Failure, Success, Found, Listed, Reply, MaybeDevice

-----------------------------------------------------------------------------
(* The types. *)

\* One answer to a client keeps the variables of the loop well typed.
LEMMA AnswersType ==
  ASSUME StorageTypeOK, NEW c \in Clients, NEW r \in Reply,
         call[c].at = "sending", Answers(c, r)
  PROVE  /\ buckets' \in BOOLEAN
         /\ loop' \in {"off", "select", "send", "dying"}
         /\ cur' \in Clients \cup {Nil}
         /\ out' \in Reply
         /\ call' \in [Clients -> Call]
         /\ \A x \in Clients : call'[x].at = "idle" \/ call'[x].q \in Request
  BY DEF StorageTypeOK, Answers, Call

LEMMA HandleType ==
  ASSUME StorageTypeOK, NEW c \in Clients, Handle(c)
  PROVE  StorageTypeOK'
<1> DEFINE q == call[c].q
<1>0. /\ call[c].at = "sending" /\ q \in Request
  BY DEF Handle, HandleNewDevice, HandleGetDev, HandleDeviceDel, HandlePass,
         HandleUpdatePass, HandleAliasRequest, Receives, StorageTypeOK
<1>1. CASE HandleNewDevice(c)
  <2>1. q \in AliasResponse
    BY <1>0, <1>1, RequestKinds DEF HandleNewDevice, Receives
  <2>2. devices' \in [Aliases -> MaybeDevice] /\ password' = password
    BY <1>1, <2>1 DEF HandleNewDevice, AliasResponse, StorageTypeOK, Names, MaybeDevice
  <2>3. Answers(c, Success) \/ Answers(c, Failure)
    BY <1>1 DEF HandleNewDevice
  <2> QED
    BY <1>0, <2>2, <2>3, AnswersType, ReplyTypes DEF StorageTypeOK
<1>2. CASE HandleGetDev(c)
  <2>1. Stored(q.name) \in MaybeDevice
    BY DEF Stored, StorageTypeOK, MaybeDevice
  <2> QED
    BY <1>0, <1>2, <2>1, AnswersType, ReplyTypes DEF HandleGetDev, StorageTypeOK
<1>3. CASE HandleDeviceDel(c)
  <2>1. devices' \in [Aliases -> MaybeDevice] /\ password' = password
    BY <1>3 DEF HandleDeviceDel, StorageTypeOK, MaybeDevice
  <2>2. Answers(c, Success) \/ Answers(c, Failure)
    BY <1>3 DEF HandleDeviceDel
  <2> QED
    BY <1>0, <2>1, <2>2, AnswersType, ReplyTypes DEF StorageTypeOK
<1>4. CASE HandlePass(c)
  BY <1>0, <1>4, AnswersType, ReplyTypes DEF HandlePass, StorageTypeOK
<1>5. CASE HandleUpdatePass(c)
  <2>1. q \in PasswordUpdate
    BY <1>0, <1>5, RequestKinds DEF HandleUpdatePass, Receives
  <2>2. password' \in Phrases \cup {Nil} /\ devices' = devices
    BY <1>5, <2>1 DEF HandleUpdatePass, PasswordUpdate, StorageTypeOK
  <2>3. Answers(c, Success) \/ Answers(c, Failure)
    BY <1>5 DEF HandleUpdatePass
  <2> QED
    BY <1>0, <2>2, <2>3, AnswersType, ReplyTypes DEF StorageTypeOK
<1>6. CASE HandleAliasRequest(c)
  <2>1. Registered \in SUBSET Aliases
    BY DEF Registered
  <2> QED
    BY <1>0, <1>6, <2>1, AnswersType, ReplyTypes DEF HandleAliasRequest, StorageTypeOK
<1> QED
  BY <1>1, <1>2, <1>3, <1>4, <1>5, <1>6 DEF Handle

LEMMA ClientsType ==
  ASSUME StorageTypeOK,
         \/ \E c \in Clients, q \in Request : Send(c, q)
         \/ \E c \in Clients : Release(c)
         \/ SendAlias
         \/ SendReply
         \/ Die
  PROVE  StorageTypeOK'
<1>1. ASSUME NEW c \in Clients, NEW q \in Request, Send(c, q)
      PROVE  StorageTypeOK'
  BY <1>1, ReplyTypes DEF Send, StorageTypeOK, Call, disk
<1>2. CASE SendAlias
  <2>1. PICK a \in out.names :
          /\ out' = [out EXCEPT !.names = @ \ {a}]
          /\ call' = [call EXCEPT ![cur].got.names = @ \cup {a}]
    BY <1>2 DEF SendAlias
  <2>2. out \in Reply /\ a \in Aliases
    BY <2>1 DEF StorageTypeOK, Reply
  <2>3. out' \in Reply
    BY <2>1, <2>2 DEF Reply
  <2>4. /\ call' \in [Clients -> Call]
        /\ \A c \in Clients : call'[c].at = "idle" \/ call'[c].q \in Request
    <3> DEFINE got == [call[cur].got EXCEPT !.names = @ \cup {a}]
               new == [call[cur] EXCEPT !.got = got]
    <3>1. call' = [call EXCEPT ![cur] = new]
      BY <2>1
    <3>2. ASSUME cur \in Clients
          PROVE  new \in Call /\ new.at = call[cur].at /\ new.q = call[cur].q
      <4>1. call[cur] \in Call
        BY <3>2 DEF StorageTypeOK
      <4>2. got \in Reply
        BY <2>2, <4>1 DEF Call, Reply
      <4> QED
        BY <4>1, <4>2 DEF Call
    <3> HIDE DEF new
    <3> QED
      BY <3>1, <3>2 DEF StorageTypeOK
  <2> QED
    BY <1>2, <2>3, <2>4 DEF SendAlias, StorageTypeOK, disk
<1>3. CASE SendReply
  <2> DEFINE got == [out EXCEPT !.names = call[cur].got.names]
             new == [call[cur] EXCEPT !.at = "idle", !.got = got]
  <2>1. call' = [call EXCEPT ![cur] = new]
    BY <1>3 DEF SendReply
  <2>2. ASSUME cur \in Clients
        PROVE  new \in Call /\ new.at = "idle"
    <3>1. call[cur] \in Call /\ out \in Reply
      BY <2>2 DEF StorageTypeOK
    <3>2. got \in Reply
      BY <3>1 DEF Call, Reply
    <3> QED
      BY <3>1, <3>2 DEF Call
  <2>3. /\ call' \in [Clients -> Call]
        /\ \A c \in Clients : call'[c].at = "idle" \/ call'[c].q \in Request
    <3> HIDE DEF new
    <3> QED
      BY <2>1, <2>2 DEF StorageTypeOK
  <2> QED
    BY <1>3, <2>3, ReplyTypes DEF SendReply, StorageTypeOK, disk
<1>4. CASE Die
  BY <1>4, ReplyTypes DEF Die, StorageTypeOK, Call, NoCall, disk
<1>5. ASSUME NEW c \in Clients, Release(c)
      PROVE  StorageTypeOK'
  BY <1>5, ReplyTypes DEF Release, StorageTypeOK, Call, NoCall, disk
<1> QED
  BY <1>1, <1>2, <1>3, <1>4, <1>5

LEMMA StorageTypeStep ==
  StorageTypeOK /\ [StorageNext]_storageVars => StorageTypeOK'
<1> SUFFICES ASSUME StorageTypeOK, [StorageNext]_storageVars
             PROVE  StorageTypeOK'
  OBVIOUS
<1>1. CASE \E c \in Clients : Handle(c)
  BY <1>1, HandleType
<1>2. CASE \/ \E c \in Clients, q \in Request : Send(c, q)
           \/ \E c \in Clients : Release(c)
           \/ SendAlias
           \/ SendReply
           \/ Die
  BY <1>2, ClientsType
<1>3. CASE CreateBuckets
  BY <1>3 DEF CreateBuckets, StorageTypeOK
<1>4. CASE \E p \in Phrases : InsertPassword(p)
  BY <1>4 DEF InsertPassword, StorageTypeOK
<1>5. CASE StartHandling
  BY <1>5 DEF StartHandling, StorageTypeOK, disk
<1>6. ASSUME NEW c \in Clients, NilBucket(c)
      PROVE  StorageTypeOK'
  <2>1. CASE call' = call
    BY <1>6, <2>1 DEF NilBucket, StorageTypeOK, disk
  <2>2. CASE call' = [call EXCEPT ![c].at = "idle", ![c].got = Success]
    <3> DEFINE new == [call[c] EXCEPT !.at = "idle", !.got = Success]
    <3>1. new \in Call /\ new.at = "idle"
      BY ReplyTypes DEF StorageTypeOK, Call
    <3>2. call' = [call EXCEPT ![c] = new]
      BY <2>2 DEF StorageTypeOK
    <3> HIDE DEF new
    <3> QED
      BY <1>6, <3>1, <3>2 DEF NilBucket, StorageTypeOK, disk
  <2> QED
    BY <1>6, <2>1, <2>2 DEF NilBucket
<1>7. CASE UNCHANGED storageVars
  BY <1>7 DEF storageVars, disk, StorageTypeOK
<1> QED
  BY <1>1, <1>2, <1>3, <1>4, <1>5, <1>6, <1>7 DEF StorageNext

LEMMA StorageTypeInit == StorageInit => StorageTypeOK
<1>1. NoCall \in Call /\ NoCall.at = "idle"
  BY ReplyTypes DEF NoCall, Call
<1> QED
  BY <1>1, ReplyTypes DEF StorageInit, StorageTypeOK, MaybeDevice

(***************************************************************************)
(* Every variable of package storage keeps its type, whatever the clients  *)
(* send, also when the process dies in the middle of an operation.         *)
(***************************************************************************)
THEOREM StorageTypeCorrect == StorageSpec => []StorageTypeOK
  BY StorageTypeInit, StorageTypeStep, PTL DEF StorageSpec

-----------------------------------------------------------------------------
(* The discipline of the channels. *)

\* A handler takes the goroutine from its select to serving one client.
LEMMA HandleAnswers ==
  ASSUME StorageTypeOK, NEW c \in Clients, Handle(c)
  PROVE  /\ loop = "select" /\ call[c].at = "sending"
         /\ loop' = "send" /\ cur' = c
         /\ call' = [call EXCEPT ![c].at = "waiting"]
         /\ out'.names # {} => call[c].q.op = "aliases" /\ out'.ok
  BY DEF Handle, HandleNewDevice, HandleGetDev, HandleDeviceDel, HandlePass, HandleUpdatePass,
         HandleAliasRequest, Receives, Answers, Failure, Success, Found, Listed

LEMMA ServiceStep ==
  StorageTypeOK /\ OneInService /\ [StorageNext]_storageVars => OneInService'
<1> SUFFICES ASSUME StorageTypeOK, OneInService, [StorageNext]_storageVars
             PROVE  OneInService'
  OBVIOUS
<1> USE MessagesAssumption
<1>1. ASSUME NEW c \in Clients, Handle(c)
      PROVE  OneInService'
  <2>1. cur = Nil /\ c # Nil /\ call[c].got = Failure
    BY <1>1, HandleAnswers DEF OneInService
  <2>2. /\ call'[c].at = "waiting" /\ call'[c].got = Failure /\ call'[c].q = call[c].q
        /\ \A d \in Clients \ {c} : call'[d] = call[d]
    BY <1>1, <2>1, HandleAnswers DEF StorageTypeOK, Call
  <2>3. Failure.names = {}
    BY DEF Failure
  <2> HIDE DEF Failure
  <2> QED
    BY <1>1, <2>1, <2>2, <2>3, HandleAnswers DEF OneInService
<1>2. ASSUME NEW c \in Clients, NEW q \in Request, Send(c, q)
      PROVE  OneInService'
  BY <1>2 DEF Send, OneInService, StorageTypeOK, Call
<1>3. CASE SendAlias
  BY <1>3 DEF SendAlias, OneInService, StorageTypeOK, Call, Reply, disk
<1>4. CASE SendReply
  BY <1>4 DEF SendReply, OneInService, StorageTypeOK, Call, Reply, disk
<1>5. CASE Die
  BY <1>5 DEF Die, OneInService, NoCall
<1>6. CASE CreateBuckets
  BY <1>6 DEF CreateBuckets, OneInService
<1>7. CASE \E p \in Phrases : InsertPassword(p)
  BY <1>7 DEF InsertPassword, OneInService
<1>8. CASE StartHandling
  BY <1>8 DEF StartHandling, OneInService
<1>9. CASE UNCHANGED storageVars
  BY <1>9 DEF storageVars, OneInService
<1>10. ASSUME NEW c \in Clients, Release(c)
       PROVE  OneInService'
  BY <1>10 DEF Release, NoCall, OneInService, StorageTypeOK, Call
<1>11. ASSUME NEW c \in Clients, NilBucket(c)
       PROVE  OneInService'
  <2>1. /\ cur = Nil /\ cur' = Nil /\ loop' = "dying" /\ call[c].at = "sending"
        /\ call \in [Clients -> Call]
    BY <1>11 DEF NilBucket, OneInService, StorageTypeOK
  <2>2. /\ \A d \in Clients \ {c} : call'[d] = call[d]
        /\ call'[c] = call[c] \/ call'[c].at = "idle"
    <3>1. CASE call' = call
      BY <3>1
    <3>2. CASE call' = [call EXCEPT ![c].at = "idle", ![c].got = Success]
      BY <2>1, <3>2 DEF Call
    <3> QED
      BY <1>11, <3>1, <3>2 DEF NilBucket
  <2> QED
    BY <2>1, <2>2 DEF OneInService
<1> QED
  BY <1>1, <1>2, <1>3, <1>4, <1>5, <1>6, <1>7, <1>8, <1>9, <1>10, <1>11 DEF StorageNext

(***************************************************************************)
(* The goroutine serves one client at a time: the one whose response       *)
(* channel it is sending on is the only one that waits for an answer.      *)
(***************************************************************************)
THEOREM ServiceCorrect == StorageSpec => []OneInService
<1>1. StorageInit => OneInService
  BY MessagesAssumption DEF StorageInit, OneInService, NoCall
<1> QED
  BY <1>1, ServiceStep, StorageTypeCorrect, PTL DEF StorageSpec

-----------------------------------------------------------------------------
(* A file without its buckets. *)

\* Everything that is stored is stored in a bucket.
EmptyWithoutBuckets == ~buckets => password = Nil /\ Registered = {}

LEMMA EmptyStep ==
  EmptyWithoutBuckets /\ [StorageNext]_storageVars => EmptyWithoutBuckets'
<1> SUFFICES ASSUME EmptyWithoutBuckets, [StorageNext]_storageVars
             PROVE  EmptyWithoutBuckets'
  OBVIOUS
<1>1. CASE \E c \in Clients : Handle(c)
  BY <1>1 DEF Handle, HandleNewDevice, HandleGetDev, HandleDeviceDel, HandlePass,
              HandleUpdatePass, HandleAliasRequest, Answers, EmptyWithoutBuckets
<1>2. CASE CreateBuckets
  BY <1>2 DEF CreateBuckets, EmptyWithoutBuckets
<1>3. CASE \E p \in Phrases : InsertPassword(p)
  BY <1>3 DEF InsertPassword, EmptyWithoutBuckets
<1>4. CASE UNCHANGED disk
  BY <1>4 DEF disk, EmptyWithoutBuckets, Registered
<1> QED
  BY <1>1, <1>2, <1>3, <1>4
  DEF StorageNext, Send, Release, SendAlias, SendReply, StartHandling, NilBucket, Die,
      storageVars, disk

\* Without the buckets no device is registered and no password defined.
THEOREM EmptyCorrect == StorageSpec => []EmptyWithoutBuckets
<1>1. StorageInit => EmptyWithoutBuckets
  BY DEF StorageInit, EmptyWithoutBuckets, Registered
<1> QED
  BY <1>1, EmptyStep, PTL DEF StorageSpec

-----------------------------------------------------------------------------
(* The refinement. *)

\* The messages of the abstract specification are the same ones.
LEMMA AbstractMessages ==
  /\ Abstract!Request = Request /\ Abstract!AliasResponse = AliasResponse
  /\ Abstract!GetDev = GetDev /\ Abstract!DelDev = DelDev
  /\ Abstract!PasswordHandling = PasswordHandling
  /\ Abstract!PasswordUpdate = PasswordUpdate /\ Abstract!AliasRequest = AliasRequest
  /\ Abstract!Phrases = Phrases /\ Abstract!Success = Success /\ Abstract!Failure = Failure
  /\ \A d : Abstract!Found(d) = Found(d)
  /\ \A S : Abstract!Listed(S) = Listed(S)
<1>1. /\ Abstract!Phrases = Phrases /\ Abstract!Names = Names
      /\ Abstract!AliasRequest = AliasRequest
  BY DEF Abstract!Phrases, Phrases, Abstract!Names, Names, Abstract!AliasRequest, AliasRequest
<1>2. /\ Abstract!AliasResponse = AliasResponse
      /\ Abstract!GetDev = GetDev /\ Abstract!DelDev = DelDev
  BY <1>1 DEF Abstract!AliasResponse, AliasResponse, Abstract!GetDev, GetDev, Abstract!DelDev, DelDev
<1>3. /\ Abstract!PasswordHandling = PasswordHandling
      /\ Abstract!PasswordUpdate = PasswordUpdate
  BY <1>1 DEF Abstract!PasswordHandling, PasswordHandling, Abstract!PasswordUpdate, PasswordUpdate
<1>4. Abstract!Request = Request
  BY <1>1, <1>2, <1>3 DEF Abstract!Request, Request
<1>5. /\ Abstract!Success = Success /\ Abstract!Failure = Failure
      /\ \A d : Abstract!Found(d) = Found(d)
      /\ \A S : Abstract!Listed(S) = Listed(S)
  BY DEF Abstract!Success, Success, Abstract!Failure, Failure, Abstract!Found, Found,
         Abstract!Listed, Listed
<1> QED
  BY <1>1, <1>2, <1>3, <1>4, <1>5

\* A client that nobody touches, and that is not being served, stands still.
LEMMA OthersStand ==
  ASSUME NEW d \in Clients, call'[d] = call[d], call[d].at # "waiting"
  PROVE  OpOf(d)' = OpOf(d)
  BY DEF Phase, OpOf, ResultFor

\* When the handler of c has run its transaction, the operation of c has
\* taken effect, with the answer that is now to be sent.
LEMMA HandlerTakes ==
  ASSUME StorageTypeOK, OneInService, NEW c \in Clients, Handle(c), out' \in Reply
  PROVE  Abstract!Takes(c, call[c].q, out')
<1>1. /\ cur = Nil /\ call[c].at = "sending" /\ call[c].got = Failure
      /\ call' = [call EXCEPT ![c].at = "waiting"]
  BY HandleAnswers DEF OneInService
<1>2. /\ call'[c].at = "waiting" /\ call'[c].got = Failure /\ call'[c].q = call[c].q
      /\ \A d \in Clients \ {c} : call'[d] = call[d]
  BY <1>1 DEF StorageTypeOK, Call
<1>3. \A d \in Clients \ {c} : OpOf(d)' = OpOf(d)
  <2>1. \A d \in Clients : call[d].at # "waiting"
    BY <1>1, MessagesAssumption DEF OneInService
  <2> QED
    BY <1>2, <2>1, OthersStand
<1>4. OpOf(c) = [at |-> "asked", q |-> call[c].q, res |-> Failure]
  BY <1>1 DEF Phase, OpOf, ResultFor
<1>5. OpOf(c)' = [at |-> "done", q |-> call[c].q, res |-> out']
  <2>1. ResultFor(c)' = out'
    BY <1>2 DEF ResultFor, Failure, Reply
  <2> QED
    BY <1>2, <2>1 DEF Phase, OpOf
<1> DEFINE q == call[c].q
           r == out'
<1>6. /\ OpOf(c).at = "asked" /\ OpOf(c).q = q
      /\ OpOf(c)' = [at |-> "done", q |-> q, res |-> r]
  BY <1>4, <1>5
<1> HIDE DEF q, r
<1>7. loop # "dying" /\ loop' # "dying"
  BY HandleAnswers
<1>8. Abstract!Takes(c, q, r)
  BY <1>3, <1>6, <1>7 DEF Abstract!Takes
<1> QED
  BY <1>8 DEF q, r

LEMMA HandlerRefines ==
  ASSUME StorageTypeOK, OneInService, NEW c \in Clients, Handle(c)
  PROVE  Abstract!Next
<1> USE AbstractMessages
<1> DEFINE q == call[c].q
<1>0. q \in Request /\ StorageTypeOK'
  BY HandleAnswers, HandleType DEF StorageTypeOK
<1>1. Abstract!Takes(c, q, out')
  BY <1>0, HandlerTakes DEF StorageTypeOK
<1>2. CASE HandleNewDevice(c)
  <2>1. q \in AliasResponse
    BY <1>0, <1>2, RequestKinds DEF HandleNewDevice, Receives
  <2>2. Abstract!Add(c, q) \/ Abstract!Refuse(c, q)
    BY <1>1, <1>2 DEF HandleNewDevice, Answers, Abstract!Add, Abstract!Refuse
  <2> QED
    BY <2>1, <2>2 DEF Abstract!Next
<1>3. CASE HandleGetDev(c)
  <2>1. q \in GetDev
    BY <1>0, <1>3, RequestKinds DEF HandleGetDev, Receives
  <2>2. Stored(q.name) = IF q.name = Empty THEN Nil ELSE devices[q.name]
    BY <2>1, MessagesAssumption DEF GetDev, Names, Stored
  <2>3. Abstract!Get(c, q)
    BY <1>1, <1>3, <2>2 DEF HandleGetDev, Answers, Abstract!Get
  <2> QED
    BY <2>1, <2>3 DEF Abstract!Next
<1>4. CASE HandleDeviceDel(c)
  <2>1. q \in DelDev
    BY <1>0, <1>4, RequestKinds DEF HandleDeviceDel, Receives
  <2>2. Abstract!Delete(c, q) \/ Abstract!Refuse(c, q)
    BY <1>1, <1>4 DEF HandleDeviceDel, Answers, Abstract!Delete, Abstract!Refuse
  <2> QED
    BY <2>1, <2>2 DEF Abstract!Next
<1>5. CASE HandlePass(c)
  <2>1. q \in PasswordHandling
    BY <1>0, <1>5, RequestKinds DEF HandlePass, Receives
  <2>2. Abstract!Check(c, q)
    BY <1>1, <1>5 DEF HandlePass, Answers, Abstract!Check
  <2> QED
    BY <2>1, <2>2 DEF Abstract!Next
<1>6. CASE HandleUpdatePass(c)
  <2>1. q \in PasswordUpdate
    BY <1>0, <1>6, RequestKinds DEF HandleUpdatePass, Receives
  <2>2. Abstract!Change(c, q) \/ Abstract!Refuse(c, q)
    BY <1>1, <1>6 DEF HandleUpdatePass, Answers, Abstract!Change, Abstract!Refuse
  <2> QED
    BY <2>1, <2>2 DEF Abstract!Next
<1>7. CASE HandleAliasRequest(c)
  <2>1. q \in AliasRequest
    BY <1>0, <1>7, RequestKinds DEF HandleAliasRequest, Receives
  <2>2. Abstract!List(c, q)
    BY <1>1, <1>7 DEF HandleAliasRequest, Answers, Registered, Abstract!List, Abstract!Registered
  <2> QED
    BY <2>1, <2>2 DEF Abstract!Next
<1> QED
  BY <1>2, <1>3, <1>4, <1>5, <1>6, <1>7 DEF Handle

LEMMA SendRefines ==
  ASSUME StorageTypeOK, NEW c \in Clients, NEW q \in Request, Send(c, q)
  PROVE  Abstract!Next
<1> USE AbstractMessages
<1>1. /\ call[c].at = "idle"
      /\ call'[c] = [at |-> "sending", q |-> q, got |-> Failure]
      /\ \A d \in Clients \ {c} : call'[d] = call[d]
      /\ UNCHANGED <<out, devices, password, loop>>
  BY DEF Send, StorageTypeOK, disk
<1>2. \A d \in Clients \ {c} : OpOf(d)' = OpOf(d)
  BY <1>1 DEF Phase, OpOf, ResultFor
<1>3. OpOf(c).at = "idle"
  BY <1>1 DEF Phase, OpOf
<1>4. OpOf(c)' = [at |-> "asked", q |-> q, res |-> Failure]
  BY <1>1 DEF Phase, OpOf, ResultFor
<1>5. Abstract!Ask(c, q)
  BY <1>1, <1>2, <1>3, <1>4 DEF Abstract!Ask
<1> QED
  BY <1>5 DEF Abstract!Next

LEMMA ReleaseRefines ==
  ASSUME StorageTypeOK, NEW c \in Clients, Release(c)
  PROVE  Abstract!Next
<1>1. /\ call[c].at = "idle"
      /\ call'[c] = NoCall
      /\ \A d \in Clients \ {c} : call'[d] = call[d]
      /\ UNCHANGED <<out, devices, password, loop>>
  BY DEF Release, StorageTypeOK, disk
<1>2. \A d \in Clients \ {c} : OpOf(d)' = OpOf(d)
  BY <1>1 DEF Phase, OpOf, ResultFor
<1>3. OpOf(c).at = "idle" /\ OpOf(c)' = Abstract!Idle
  BY <1>1, AbstractMessages DEF Phase, OpOf, ResultFor, NoCall, Abstract!Idle
<1>4. Abstract!Release(c)
  BY <1>1, <1>2, <1>3 DEF Abstract!Release
<1> QED
  BY <1>4 DEF Abstract!Next

\* An alias that is sent only moves from what is left to what was sent.
LEMMA SendAliasStutters ==
  ASSUME StorageTypeOK, OneInService, SendAlias
  PROVE  UNCHANGED Abstract!vars
<1>1. PICK a \in out.names :
        /\ out' = [out EXCEPT !.names = @ \ {a}]
        /\ call' = [call EXCEPT ![cur].got.names = @ \cup {a}]
  BY DEF SendAlias
<1>2. cur \in Clients /\ call[cur].at = "waiting" /\ call[cur] \in Call /\ out \in Reply
  BY DEF SendAlias, OneInService, StorageTypeOK
<1>3. /\ call'[cur] = [call[cur] EXCEPT !.got = [call[cur].got EXCEPT !.names = @ \cup {a}]]
      /\ \A d \in Clients \ {cur} : call'[d] = call[d]
  BY <1>1, <1>2 DEF StorageTypeOK
<1>4. \A d \in Clients \ {cur} : OpOf(d)' = OpOf(d)
  BY <1>3, OthersStand DEF OneInService
<1>5. /\ call'[cur].at = "waiting" /\ call'[cur].q = call[cur].q
      /\ call'[cur].got.names = call[cur].got.names \cup {a}
  BY <1>2, <1>3 DEF Call, Reply
<1>6. OpOf(cur)' = OpOf(cur)
  <2>1. cur' = cur /\ (out.names \ {a}) \cup (call[cur].got.names \cup {a})
                        = out.names \cup call[cur].got.names
    BY DEF SendAlias
  <2>2. ResultFor(cur)' = ResultFor(cur)
    BY <1>1, <1>2, <1>5, <2>1 DEF ResultFor, Reply
  <2> QED
    BY <1>2, <1>5, <2>1, <2>2 DEF Phase, OpOf
<1> QED
  BY <1>4, <1>6 DEF Abstract!vars, SendAlias, disk

LEMMA SendReplyRefines ==
  ASSUME StorageTypeOK, OneInService, SendReply
  PROVE  Abstract!Next
<1> USE AbstractMessages
<1>1. cur \in Clients /\ call[cur].at = "waiting" /\ call[cur] \in Call /\ out \in Reply
  BY DEF SendReply, OneInService, StorageTypeOK
<1> DEFINE got == [out EXCEPT !.names = call[cur].got.names]
<1>2. /\ call'[cur] = [call[cur] EXCEPT !.at = "idle", !.got = got]
      /\ \A d \in Clients \ {cur} : call'[d] = call[d]
  BY <1>1 DEF SendReply, StorageTypeOK
<1>3. \A d \in Clients \ {cur} : OpOf(d)' = OpOf(d)
  BY <1>2, OthersStand DEF OneInService
<1>4. OpOf(cur) = [at |-> "done", q |-> call[cur].q, res |-> got]
  <2>1. out.names \cup call[cur].got.names = call[cur].got.names
    BY DEF SendReply
  <2>2. ResultFor(cur) = got
    BY <1>1, <2>1 DEF ResultFor, Reply
  <2> QED
    BY <1>1, <2>2 DEF Phase, OpOf
<1>5. ASSUME NEW c \in Clients, c = cur
      PROVE  OpOf(c)' = [at |-> "idle", q |-> call[c].q, res |-> got]
  <2>1. call'[c].at = "idle" /\ call'[c].q = call[c].q /\ call'[c].got = got
    BY <1>1, <1>2, <1>5 DEF Call
  <2> QED
    BY <2>1 DEF Phase, OpOf, ResultFor
<1>6. PICK c \in Clients : c = cur
  BY <1>1
<1>7. /\ OpOf(c).at = "done"
      /\ OpOf(c)' = [OpOf(c) EXCEPT !.at = "idle"]
      /\ \A d \in Clients \ {c} : OpOf(d)' = OpOf(d)
  BY <1>3, <1>4, <1>5, <1>6
<1>8. UNCHANGED <<devices, password>> /\ loop # "dying" /\ loop' # "dying"
  BY DEF SendReply, disk
<1>9. Abstract!Return(c)
  BY <1>7, <1>8 DEF Abstract!Return
<1> QED
  BY <1>9 DEF Abstract!Next

LEMMA DieRefines ==
  ASSUME Die
  PROVE  Abstract!Next
<1> USE AbstractMessages
<1>1. \A c \in Clients : OpOf(c)' = [at |-> "idle", q |-> Nil, res |-> Failure]
  BY DEF Die, NoCall, Phase, OpOf, ResultFor
<1>2. Abstract!Crash
  BY <1>1 DEF Die, disk, Abstract!Crash, Abstract!Idle, Abstract!Failure, Failure
<1> QED
  BY <1>2 DEF Abstract!Next

\* The panic of a handler is the break down of a store nothing was written to.
LEMMA NilBucketRefines ==
  ASSUME StorageTypeOK, OneInService, EmptyWithoutBuckets, NEW c \in Clients, NilBucket(c)
  PROVE  Abstract!Next
<1> USE AbstractMessages
<1> DEFINE q == call[c].q
<1>1. /\ call[c].at = "sending" /\ q \in Request /\ call[c] \in Call /\ c # cur
      /\ out' = out /\ UNCHANGED <<devices, password>>
  BY MessagesAssumption DEF NilBucket, OneInService, StorageTypeOK, disk
<1>2. OpOf(c).at = "asked" /\ OpOf(c).q = q
  BY <1>1 DEF Phase, OpOf
<1>3. CASE q.op \in {"add", "get"}
  <2>1. UNCHANGED [d \in Clients |-> OpOf(d)]
    BY <1>1, <1>3 DEF NilBucket, Phase, OpOf, ResultFor
  <2>2. Abstract!BreakDown(c, q)
    BY <1>1, <1>2, <1>3, <2>1 DEF NilBucket, EmptyWithoutBuckets, Registered, Abstract!Registered,
       Abstract!BreakDown
  <2> QED
    BY <1>1, <2>2 DEF Abstract!Next
<1>4. CASE q.op \notin {"add", "get"}
  <2>1. /\ call'[c] = [at |-> "idle", q |-> q, got |-> Success]
        /\ \A d \in Clients \ {c} : call'[d] = call[d]
    BY <1>1, <1>4 DEF NilBucket, StorageTypeOK, Call
  <2>2. \A d \in Clients \ {c} : OpOf(d)' = OpOf(d)
    BY <1>1, <2>1 DEF Phase, OpOf, ResultFor
  <2>3. OpOf(c)' = [at |-> "idle", q |-> q, res |-> Success]
    BY <2>1 DEF Phase, OpOf, ResultFor
  <2>4. Abstract!BreakDown(c, q)
    BY <1>1, <1>2, <1>4, <2>2, <2>3 DEF NilBucket, EmptyWithoutBuckets, Registered,
       Abstract!Registered, Abstract!BreakDown
  <2> QED
    BY <1>1, <2>4 DEF Abstract!Next
<1> QED
  BY <1>3, <1>4

\* The steps that change neither the calls nor the answer being sent.
LEMMA CallsStand ==
  ASSUME UNCHANGED <<out, call>>
  PROVE  UNCHANGED [c \in Clients |-> OpOf(c)]
  BY DEF Phase, OpOf, ResultFor

(***************************************************************************)
(* The package implements its abstract specification: each operation takes *)
(* effect atomically, between the call and the return, on a map and a      *)
(* password that survive crashes.                                          *)
(***************************************************************************)
THEOREM StorageImplements == StorageSpec => ImplementsDeviceStore
<1>1. StorageInit => Abstract!Init
  <2> SUFFICES ASSUME StorageInit PROVE Abstract!Init
    OBVIOUS
  <2>1. \A c \in Clients : OpOf(c) = [at |-> "idle", q |-> Nil, res |-> Failure]
    BY DEF StorageInit, NoCall, Phase, OpOf, ResultFor
  <2> QED
    BY <2>1 DEF StorageInit, Abstract!Init, Abstract!Idle, Abstract!Failure, Failure
<1>2. StorageTypeOK /\ OneInService /\ EmptyWithoutBuckets /\ [StorageNext]_storageVars
        => [Abstract!Next]_(Abstract!vars)
  <2> SUFFICES ASSUME StorageTypeOK, OneInService, EmptyWithoutBuckets,
                      [StorageNext]_storageVars
               PROVE  Abstract!Next \/ UNCHANGED Abstract!vars
    OBVIOUS
  <2>1. CASE \E c \in Clients, q \in Request : Send(c, q)
    BY <2>1, SendRefines
  <2>2. CASE \E c \in Clients : Handle(c)
    BY <2>2, HandlerRefines
  <2>3. CASE SendAlias
    BY <2>3, SendAliasStutters
  <2>4. CASE SendReply
    BY <2>4, SendReplyRefines
  <2>5. CASE \E p \in Phrases : InsertPassword(p)
    <3>1. PICK p \in Phrases : InsertPassword(p)
      BY <2>5
    <3>2. Abstract!Define(p)
      BY <3>1, CallsStand DEF InsertPassword, Abstract!Define
    <3> QED
      BY <3>2, AbstractMessages DEF Abstract!Next
  <2>6. CASE CreateBuckets \/ StartHandling \/ UNCHANGED storageVars
    BY <2>6, CallsStand DEF CreateBuckets, StartHandling, storageVars, disk, Abstract!vars
  <2>7. CASE Die
    BY <2>7, DieRefines
  <2>8. CASE \E c \in Clients : Release(c)
    BY <2>8, ReleaseRefines
  <2>9. CASE \E c \in Clients : NilBucket(c)
    BY <2>9, NilBucketRefines
  <2> QED
    BY <2>1, <2>2, <2>3, <2>4, <2>5, <2>6, <2>7, <2>8, <2>9 DEF StorageNext
<1> QED
  BY <1>1, <1>2, StorageTypeCorrect, ServiceCorrect, EmptyCorrect, PTL
  DEF StorageSpec, ImplementsDeviceStore, Abstract!Spec
=============================================================================
