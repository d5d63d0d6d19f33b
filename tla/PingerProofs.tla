---------------------------- MODULE PingerProofs ----------------------------
(***************************************************************************)
(* Proofs about the pinger, for any calls, hosts and bound on the calls    *)
(* that overlap: it keeps what Ping promises to the web server and the bot,*)
(* until calls overlap "alive" means that the host itself has answered,    *)
(* and until one of the four races happens nothing is closed twice and a   *)
(* negative ping leaves nothing behind.                                    *)
(***************************************************************************)
EXTENDS Pinger, TLAPS

Record == [kind : Kinds, host : Hosts]

\* The steps of a loop and its receivers in which no callback is called.
LoopMoves(k) ==
  LoopStep(k) \/ StopSeen(k) \/ ReceiveFails(k) \/ FailureSeen(k) \/ DropPacket(k)

(***************************************************************************)
(* What a loop and a call rely on: the fields of the pinger that they read *)
(* have been set, by a call that has been asked for something.             *)
(***************************************************************************)
FieldsOK ==
  /\ onRecv # Nil => at[onRecv] # "new"
  /\ onIdle # Nil => at[onIdle] # "new"
  /\ \A c \in Calls :
       /\ at[c] = "half" => IF ping[c].kind = "health" THEN onRecv # Nil ELSE onIdle # Nil
       /\ at[c] \notin {"new", "added", "half"} => onRecv # Nil /\ onIdle # Nil
       /\ at[c] \notin {"new", "added", "half", "ready"} => ctx # Nil
       /\ loop[c] # "none" => ctx # Nil /\ onRecv # Nil /\ onIdle # Nil

(***************************************************************************)
(* What a yes is worth: it comes from a flag that only an answer sets, or  *)
(* else the silence of a host that is turned off; and an answer comes from *)
(* a host that some call in progress is about.                             *)
(***************************************************************************)
AnswersOK ==
  /\ \A h \in addrs : \E c \in InProgress : ping[c].host = h
  /\ \A c \in Calls :
       /\ at[c] = "new" => ping[c] = Nil /\ ~flag[c]
       /\ at[c] # "new" => ping[c] \in Asked
       /\ at[c] \in {"leave", "ended"} <=> outcome[c] # "none"
       /\ (flag[c] /\ at[c] # "ended") \/ outcome[c] = "yes" =>
            ping[c].kind = "off" \/ heard[c] # {}

PingerInv == PingerTypeOK /\ FieldsOK /\ AnswersOK

-----------------------------------------------------------------------------
(* The types. *)

\* A loop that runs, and a call past RunLoop, finds a context.
LEMMA ContextFound ==
  ASSUME PingerInv
  PROVE  /\ \A k \in Calls :
              loop[k] # "none" => ctx \in Calls /\ onRecv \in Calls /\ onIdle \in Calls
         /\ \A c \in Calls : at[c] \notin {"new", "added", "half", "ready"} => ctx \in Calls
  BY DEF PingerInv, PingerTypeOK, FieldsOK

LEMMA FreshOK ==
  ASSUME Fresh, up' \in BOOLEAN, races' \subseteq Races
  PROVE  PingerInv'
  BY DEF Fresh, PingerInv, PingerTypeOK, FieldsOK, AnswersOK, InProgress, CallPoints, LoopPoints,
         Outcomes

LEMMA CallType ==
  ASSUME PingerInv, NEW c \in Calls, AddIP(c) \/ CallStep(c) \/ Timeout(c), ~Fresh
  PROVE  PingerTypeOK'
<1> USE DEF PingerTypeOK
<1>0. PingerTypeOK
  BY DEF PingerInv
<1>1. CASE AddIP(c)
  <2>1. PICK p \in Asked :
          /\ ping' = [ping EXCEPT ![c] = p]
          /\ addrs' = addrs \cup ({p.host} \cap Addressable)
          /\ hasIP' = hasIP \cup {Family(h) : h \in {p.host} \cap Addressable}
    BY <1>1 DEF AddIP, MapClash, End, Die
  <2>2. p \in Record
    BY PingerAssumption DEF Record, Kinds
  <2>3. at' = [at EXCEPT ![c] = "added"]
        /\ races' \in {races, races \cup {"overlap"}}
        /\ UNCHANGED <<up, ctx, onRecv, onIdle, contexts, flag, wait, outcome, loops, heard>>
    BY <1>1 DEF AddIP, MapClash, End, Die, Goto
  <2>4. addrs' \subseteq Hosts
    BY <1>0, <2>1, <2>2 DEF Record
  <2>5. hasIP' \subseteq Families /\ races' \subseteq Races
    BY <1>0, <2>1, <2>3 DEF Family, Families, Races
  <2>6. ping' \in [Calls -> Record \cup {Nil}] /\ at' \in [Calls -> CallPoints]
    BY <1>0, <2>1, <2>2, <2>3 DEF Record, CallPoints
  <2> QED
    BY <1>0, <2>3, <2>4, <2>5, <2>6 DEF contexts, loops, Record
<1>2. CASE SetHandler(c) \/ RunLoop(c) \/ Watch(c)
  BY <1>0, <1>2 DEF SetHandler, RunLoop, Watch, Goto, fields, contexts, loops, history,
     CallPoints, LoopPoints
<1>3. CASE DoneSeen(c) \/ Check(c) \/ StopDone(c)
  BY <1>0, <1>3 DEF DoneSeen, Check, StopDone, Goto, Leave, fields, contexts, loops, history,
     CallPoints, Outcomes
<1>6. CASE Timeout(c)
  <2>1. races' \subseteq Races
    BY <1>0, <1>6 DEF Timeout, Races
  <2> QED
    BY <1>0, <1>6, <2>1 DEF Timeout, Goto, fields, contexts, loops, CallPoints
<1>4. CASE StopClose(c)
  <2>1. ctx \in Calls
    BY <1>4, ContextFound DEF StopClose
  <2> QED
    BY <1>0, <1>4, <2>1 DEF StopClose, End, Die, Goto, Leave, fields, contexts, loops, history,
       CallPoints, Outcomes
<1>5. CASE StopRead(c) \/ RemoveIP(c)
  BY <1>0, <1>5 DEF StopRead, RemoveIP, MapClash, End, Die, Goto, fields, contexts, loops, history,
     CallPoints
<1> QED
  BY <1>1, <1>2, <1>3, <1>4, <1>5, <1>6 DEF CallStep

LEMMA ReportType ==
  ASSUME PingerTypeOK, NEW c \in Calls, Report(c)
  PROVE  /\ flag' \in [Calls -> BOOLEAN] /\ races' \subseteq Races
         /\ UNCHANGED <<at, ping, wait, outcome>>
  BY DEF Report, PingerTypeOK, Races

LEMMA LoopType ==
  ASSUME PingerInv, NEW k \in Calls, ~Fresh,
         \/ LoopMoves(k) \/ Tick(k) \/ \E h \in Hosts : ProcRecv(k, h)
  PROVE  PingerTypeOK'
<1> USE DEF PingerTypeOK
<1>0. PingerTypeOK
  BY DEF PingerInv
<1>1. loop[k] # "none"
  BY DEF LoopStep, Listen, Sent, CallbackStops, CallbackWaits, CallbackReturns, Wind, Close,
         StopSeen, ReceiveFails, FailureSeen, DropPacket, LoopMoves, Tick,
         ProcRecv, End
<1>2. ctx \in Calls /\ onRecv \in Calls /\ onIdle \in Calls
  BY <1>1, ContextFound
<1>3. CASE Listen(k)
  <2>1. \A f \in {"v4", "v6"} :
          [sockets EXCEPT ![k] = @ \cup ({f} \cap hasIP)] \in [Calls -> SUBSET Families]
    BY <1>0 DEF Families
  <2>2. sockets' \in [Calls -> SUBSET Families] /\ broken' = broken
    BY <1>0, <1>3, <2>1 DEF Listen
  <2> QED
    BY <1>0, <1>2, <1>3, <2>2 DEF Listen, StartSending, Step, fields, calls, history, LoopPoints
<1>9. CASE StopSeen(k) \/ ReceiveFails(k) \/ FailureSeen(k)
  BY <1>0, <1>9 DEF StopSeen, ReceiveFails, End, FailureSeen, Step, fields, contexts, calls,
     history, LoopPoints
<1>4. CASE Sent(k)
  <2>1. PICK Q \in SUBSET (queue[k] \cup addrs) :
          queue' = [queue EXCEPT ![k] = {h \in Q : Family(h) \in sockets[k]}]
    BY <1>4 DEF Sent
  <2>2. Q \in SUBSET Hosts
    BY <1>0
  <2> QED
    BY <1>0, <1>4, <2>1, <2>2 DEF Sent, Select, Step, fields, contexts, calls, history, LoopPoints
<1>5. CASE CallbackStops(k) \/ Wind(k) \/ Close(k)
  BY <1>0, <1>2, <1>5 DEF CallbackStops, Wind, Close, End, Die, Step, fields, contexts, calls,
     history, LoopPoints
<1>6. CASE CallbackWaits(k) \/ CallbackReturns(k) \/ DropPacket(k)
  BY <1>0, <1>6 DEF CallbackWaits, CallbackReturns, DropPacket, Select, StartSending, Step,
     fields, contexts, calls, history, LoopPoints
<1>7. CASE Tick(k)
  <2>1. /\ flag' \in [Calls -> BOOLEAN] /\ races' \subseteq Races
        /\ UNCHANGED <<at, ping, wait, outcome>>
    BY <1>0, <1>2, <1>7, ReportType DEF Tick, calls
  <2>2. loop' \in [Calls -> LoopPoints] /\ queue' \in [Calls -> SUBSET Hosts]
    BY <1>0, <1>7 DEF Tick, StartSending, Step, LoopPoints
  <2> QED
    BY <1>0, <1>7, <2>1, <2>2 DEF Tick, fields, contexts
<1>8. ASSUME NEW h \in Hosts, ProcRecv(k, h)
      PROVE  PingerTypeOK'
  <2>1. heard' \in [Calls -> SUBSET Hosts]
    BY <1>0, <1>8 DEF ProcRecv
  <2>2. /\ flag' \in [Calls -> BOOLEAN] /\ races' \subseteq Races
        /\ UNCHANGED <<at, ping, wait, outcome>>
    BY <1>0, <1>2, <1>8, ReportType DEF ProcRecv, calls
  <2>3. loop' \in [Calls -> LoopPoints] /\ chan' \in [Calls -> Calls \cup {Nil}]
    BY <1>0, <1>2, <1>8 DEF ProcRecv, Select, Step, LoopPoints
  <2>4. queue' \in [Calls -> SUBSET Hosts]
    BY <1>0, <1>8 DEF ProcRecv
  <2> QED
    BY <1>0, <1>8, <2>1, <2>2, <2>3, <2>4 DEF ProcRecv, fields, contexts
<1> QED
  BY <1>3, <1>4, <1>5, <1>6, <1>7, <1>8, <1>9 DEF LoopMoves, LoopStep

-----------------------------------------------------------------------------
(* The fields of the pinger, and what the answers are worth. *)

LEMMA CallFields ==
  ASSUME PingerInv, NEW c \in Calls, AddIP(c) \/ CallStep(c) \/ Timeout(c), ~Fresh
  PROVE  FieldsOK'
<1> USE DEF FieldsOK
<1>0. /\ at \in [Calls -> CallPoints] /\ ping \in [Calls -> Record \cup {Nil}] /\ FieldsOK
      /\ {onRecv, onIdle} \subseteq Calls \cup {Nil}
  BY DEF PingerInv, PingerTypeOK, Record
<1>1. CASE AddIP(c)
  <2>1. /\ at[c] = "new" /\ at' = [at EXCEPT ![c] = "added"]
        /\ \A d \in Calls \ {c} : ping'[d] = ping[d]
        /\ UNCHANGED <<ctx, onRecv, onIdle, loop>>
    BY <1>0, <1>1 DEF AddIP, MapClash, End, Die, Goto, loops
  <2> QED
    BY <1>0, <2>1
<1>2. CASE SetHandler(c)
  <2>1. at[c] \in {"added", "half"} /\ UNCHANGED <<ctx, ping, loop>>
    BY <1>2 DEF SetHandler, loops
  <2>2. at' = [at EXCEPT ![c] = IF at[c] = "added" THEN "half" ELSE "ready"]
    BY <1>2 DEF SetHandler, Goto
  <2>3. \/ /\ (at[c] = "added") <=> (ping[c].kind = "health")
           /\ onRecv' = c /\ onIdle' = onIdle
        \/ /\ ~((at[c] = "added") <=> (ping[c].kind = "health"))
           /\ onIdle' = c /\ onRecv' = onRecv
    BY <1>2 DEF SetHandler
  <2>4. c # Nil
    BY PingerAssumption
  <2>5. /\ onRecv # Nil => onRecv' # Nil
        /\ onIdle # Nil => onIdle' # Nil
    BY <2>3, <2>4
  <2>6. at'[c] = "half" => IF ping[c].kind = "health" THEN onRecv' # Nil ELSE onIdle' # Nil
    BY <1>0, <2>1, <2>2, <2>3, <2>4
  <2>7. at'[c] = "ready" => onRecv' # Nil /\ onIdle' # Nil
    BY <1>0, <2>1, <2>2, <2>3, <2>4
  <2>8. /\ onRecv' # Nil => at'[onRecv'] # "new"
        /\ onIdle' # Nil => at'[onIdle'] # "new"
    BY <1>0, <2>1, <2>2, <2>3
  <2>9. at'[c] \in {"half", "ready"} /\ \A d \in Calls \ {c} : at'[d] = at[d]
    BY <1>0, <2>1, <2>2
  <2> QED
    BY <1>0, <2>1, <2>5, <2>6, <2>7, <2>8, <2>9
<1>3. CASE RunLoop(c)
  BY <1>0, <1>3, PingerAssumption DEF RunLoop, Goto, PingerInv, PingerTypeOK
<1>4. CASE Watch(c) \/ DoneSeen(c) \/ Check(c) \/ StopClose(c) \/ StopRead(c) \/ StopDone(c)
           \/ RemoveIP(c) \/ Timeout(c)
  <2>1. PICK l \in {"select", "leave", "check", "stop", "read", "blocked", "ended"} :
          at' = [at EXCEPT ![c] = l]
    BY <1>4 DEF Watch, DoneSeen, Check, StopClose, StopRead, StopDone, RemoveIP, Timeout,
       MapClash, End, Die, Goto, Leave
  <2>2. /\ at[c] \notin {"new", "added", "half", "ready"}
        /\ UNCHANGED <<ctx, onRecv, onIdle, ping, loop>>
    BY <1>4 DEF Watch, DoneSeen, Check, StopClose, StopRead, StopDone, RemoveIP, Timeout,
       MapClash, End, Die, fields, loops
  <2> QED
    BY <1>0, <2>1, <2>2
<1> QED
  BY <1>1, <1>2, <1>3, <1>4 DEF CallStep

LEMMA LoopFields ==
  ASSUME PingerInv, NEW k \in Calls, ~Fresh,
         \/ LoopMoves(k) \/ Tick(k) \/ \E h \in Hosts : ProcRecv(k, h)
  PROVE  FieldsOK' /\ UNCHANGED <<up, fields, at, ping, outcome>>
<1>1. loop[k] # "none" /\ UNCHANGED <<up, fields, at, ping, outcome>>
  BY DEF LoopStep, Listen, Sent, CallbackStops, CallbackWaits, CallbackReturns, Wind, Close,
         StopSeen, ReceiveFails, FailureSeen, DropPacket, LoopMoves, Tick, ProcRecv, Report,
         End, Die, calls
<1>2. loop' = loop \/ \E l \in LoopPoints : loop' = [loop EXCEPT ![k] = l]
  BY DEF LoopStep, Listen, Sent, CallbackStops, CallbackWaits, CallbackReturns, Wind, Close,
         StopSeen, ReceiveFails, FailureSeen, DropPacket, LoopMoves, Tick, ProcRecv, End, Die,
         StartSending, Select, Step, LoopPoints
<1>3. \A c \in Calls : loop'[c] # "none" => loop[c] # "none"
  BY <1>1, <1>2 DEF PingerInv, PingerTypeOK
<1> QED
  BY <1>1, <1>3 DEF PingerInv, FieldsOK, fields

\* Every call is asked for at most once, and what it hears is never forgotten.
LEMMA CallAnswers ==
  ASSUME PingerInv, NEW c \in Calls, AddIP(c) \/ CallStep(c) \/ Timeout(c), ~Fresh
  PROVE  AnswersOK'
<1> USE DEF AnswersOK
<1>0. /\ at \in [Calls -> CallPoints] /\ ping \in [Calls -> Record \cup {Nil}] /\ AnswersOK
      /\ outcome \in [Calls -> Outcomes]
  BY DEF PingerInv, PingerTypeOK, Record
<1>1. CASE AddIP(c)
  <2>1. PICK p \in Asked :
          /\ ping' = [ping EXCEPT ![c] = p]
          /\ addrs' = addrs \cup ({p.host} \cap Addressable)
    BY <1>1 DEF AddIP, MapClash, End, Die
  <2>2. /\ at[c] = "new" /\ at' = [at EXCEPT ![c] = "added"]
        /\ UNCHANGED <<flag, outcome, heard>>
    BY <1>1 DEF AddIP, MapClash, End, Die, Goto, history
  <2>3. ping'[c] = p /\ \A d \in Calls \ {c} : ping'[d] = ping[d] /\ at'[d] = at[d]
    BY <1>0, <2>1, <2>2
  <2>4. \A h \in addrs' : \E d \in InProgress' : ping'[d].host = h
    <3>1. c \in InProgress' /\ \A d \in InProgress : d \in InProgress' /\ d # c
      BY <1>0, <2>2, <2>3 DEF InProgress
    <3>2. ASSUME NEW h \in addrs
          PROVE  \E d \in InProgress' : ping'[d].host = h
      <4>1. PICK d \in InProgress : ping[d].host = h
        BY <1>0
      <4>2. d \in Calls \ {c} /\ d \in InProgress'
        BY <3>1, <4>1 DEF InProgress
      <4> QED
        BY <2>3, <4>1, <4>2
    <3> QED
      BY <2>1, <2>3, <3>1, <3>2
  <2>5. ~flag[c] \/ ping'[c].kind = "off" \/ heard[c] # {}
    BY <1>0, <2>2
  <2> QED
    BY <1>0, <2>1, <2>2, <2>3, <2>4, <2>5
<1>2. CASE SetHandler(c) \/ RunLoop(c) \/ Watch(c) \/ Timeout(c) \/ StopRead(c)
  <2>1. /\ at[c] \notin {"new", "leave", "ended"}
        /\ \E l \in CallPoints \ {"new", "leave", "ended"} : at' = [at EXCEPT ![c] = l]
        /\ UNCHANGED <<addrs, ping, flag, outcome, heard>>
    BY <1>2 DEF SetHandler, RunLoop, Watch, Timeout, StopRead, Goto, fields, history, CallPoints
  <2>2. InProgress' = InProgress
    BY <1>0, <2>1 DEF InProgress
  <2> QED
    BY <1>0, <2>1, <2>2
<1>3. CASE DoneSeen(c) \/ Check(c) \/ StopDone(c) \/ StopClose(c)
  <2>1. /\ at[c] \notin {"new", "leave", "ended"}
        /\ \/ /\ \E l \in CallPoints \ {"new", "leave", "ended"} : at' = [at EXCEPT ![c] = l]
              /\ outcome' = outcome
           \/ \E o \in Outcomes \ {"none"} : Leave(c, o) /\ (o = "yes" => flag[c])
        /\ UNCHANGED <<addrs, ping, flag, heard>>
    BY <1>3 DEF DoneSeen, Check, StopDone, StopClose, End, Die, Goto, Leave, fields, history,
       CallPoints, Outcomes
  <2>2. InProgress' = InProgress
    BY <1>0, <2>1 DEF InProgress, Leave, Goto
  <2> QED
    BY <1>0, <2>1, <2>2 DEF Leave, Goto
<1>4. CASE RemoveIP(c)
  <2>1. /\ at[c] = "leave" /\ at' = [at EXCEPT ![c] = "ended"]
        /\ addrs' = addrs \ {ping[c].host}
        /\ UNCHANGED <<ping, flag, outcome, heard>>
    BY <1>4 DEF RemoveIP, MapClash, End, Die, Goto, history
  <2>2. \A d \in InProgress : d = c \/ d \in InProgress'
    BY <1>0, <2>1 DEF InProgress
  <2> QED
    BY <1>0, <2>1, <2>2
<1> QED
  BY <1>1, <1>2, <1>3, <1>4 DEF CallStep

LEMMA LoopAnswers ==
  ASSUME PingerInv, NEW k \in Calls, ~Fresh,
         \/ LoopMoves(k) \/ Tick(k) \/ \E h \in Hosts : ProcRecv(k, h)
  PROVE  AnswersOK'
<1>0. /\ at \in [Calls -> CallPoints] /\ ping \in [Calls -> Record \cup {Nil}] /\ AnswersOK
      /\ flag \in [Calls -> BOOLEAN] /\ heard \in [Calls -> SUBSET Hosts]
  BY DEF PingerInv, PingerTypeOK, Record
<1>1. UNCHANGED <<up, fields, at, ping, outcome>> /\ InProgress' = InProgress
  BY LoopFields DEF InProgress
<1>2. loop[k] # "none"
  BY DEF LoopStep, Listen, Sent, CallbackStops, CallbackWaits, CallbackReturns, Wind, Close,
         StopSeen, ReceiveFails, FailureSeen, DropPacket, LoopMoves, Tick,
         ProcRecv, End
<1>3. onRecv \in Calls /\ onIdle \in Calls /\ at[onRecv] # "new" /\ at[onIdle] # "new"
  BY <1>2, ContextFound, PingerAssumption DEF PingerInv, FieldsOK
<1>4. ASSUME NEW c \in Calls, at[c] # "new", flag' = [flag EXCEPT ![c] = TRUE],
             \A d \in Calls : heard[d] \subseteq heard'[d],
             at[c] # "ended" => ping[c].kind = "off" \/ heard'[c] # {}
      PROVE  AnswersOK'
  BY <1>0, <1>1, <1>4 DEF AnswersOK, fields
<1>5. ASSUME UNCHANGED flag, \A d \in Calls : heard[d] \subseteq heard'[d]
      PROVE  AnswersOK'
  BY <1>0, <1>1, <1>5 DEF AnswersOK, fields
<1>6. CASE LoopMoves(k)
  <2>1. UNCHANGED <<flag, heard>>
    BY <1>6 DEF LoopStep, Listen, Sent, CallbackStops, CallbackWaits, CallbackReturns, Wind,
       Close, StopSeen, ReceiveFails, FailureSeen, DropPacket, LoopMoves, End, Die, calls, history
  <2> QED
    BY <1>5, <2>1
<1>7. CASE Tick(k)
  <2>1. heard' = heard /\ ((Report(onIdle) /\ ping[onIdle].kind = "off") \/ UNCHANGED flag)
    BY <1>7 DEF Tick, calls
  <2>2. \A d \in Calls : heard[d] \subseteq heard'[d]
    BY <2>1
  <2>3. CASE Report(onIdle) /\ ping[onIdle].kind = "off"
    BY <1>3, <1>4, <2>2, <2>3 DEF Report
  <2>4. CASE UNCHANGED flag
    BY <1>5, <2>2, <2>4
  <2> QED
    BY <2>1, <2>3, <2>4
<1>8. ASSUME NEW h \in Hosts, ProcRecv(k, h)
      PROVE  AnswersOK'
  <2>1. heard' = [c \in Calls |-> IF c \in InProgress THEN heard[c] \cup {h} ELSE heard[c]]
    BY <1>8 DEF ProcRecv
  <2>2. \A d \in Calls : heard[d] \subseteq heard'[d] /\ (d \in InProgress => heard'[d] # {})
    BY <2>1
  <2>3. CASE Report(onRecv)
    <3>1. at[onRecv] # "ended" => onRecv \in InProgress
      BY <1>3 DEF InProgress
    <3> QED
      BY <1>3, <1>4, <2>2, <2>3, <3>1 DEF Report
  <2>4. CASE UNCHANGED flag
    BY <1>5, <2>2, <2>4
  <2> QED
    BY <1>8, <2>3, <2>4 DEF ProcRecv, calls
<1> QED
  BY <1>6, <1>7, <1>8

-----------------------------------------------------------------------------
(* The invariant and the refinement. *)

\* The process only ends for good, and its history only grows.
LEMMA RacesGrow ==
  ASSUME PingerTypeOK, Steps
  PROVE  up' \in {up, FALSE} /\ races \subseteq races' /\ races' \subseteq Races
<1> USE DEF Races
<1>0. races \subseteq Races
  BY DEF PingerTypeOK
<1>1. ASSUME NEW c \in Calls, AddIP(c) \/ CallStep(c) \/ Timeout(c)
      PROVE  /\ up' \in {up, FALSE}
             /\ races' \in {races, races \cup {"overlap"}, races \cup {"ticker"}}
  BY <1>1 DEF AddIP, CallStep, Timeout, SetHandler, RunLoop, Watch, DoneSeen, Check, StopClose,
     StopRead, StopDone, RemoveIP, MapClash, End, Die, history
<1>2. ASSUME NEW k \in Calls, LoopMoves(k)
      PROVE  up' \in {up, FALSE} /\ races' \in {races, races \cup {"receivers"}}
  BY <1>2 DEF LoopStep, Listen, Sent, CallbackStops, CallbackWaits, CallbackReturns, Wind,
     Close, StopSeen, ReceiveFails, FailureSeen, DropPacket, LoopMoves, End, Die, history
<1>3. ASSUME NEW k \in Calls, Tick(k) \/ \E h \in Hosts : ProcRecv(k, h)
      PROVE  up' = up /\ races' \in {races, races \cup {"answer"}}
  BY <1>3 DEF Tick, ProcRecv, Report
<1> QED
  BY <1>0, <1>1, <1>2, <1>3 DEF Steps, LoopMoves

LEMMA ProcessType ==
  ASSUME PingerTypeOK, PingerNext
  PROVE  up' \in BOOLEAN /\ races' \subseteq Races
  BY RacesGrow DEF PingerNext, Restart, PingerTypeOK

LEMMA PingerStep ==
  PingerInv /\ [PingerNext]_pingerVars => PingerInv'
<1> SUFFICES ASSUME PingerInv, [PingerNext]_pingerVars
             PROVE  PingerInv'
  OBVIOUS
<1>1. ASSUME NEW c \in Calls, AddIP(c) \/ CallStep(c) \/ Timeout(c), ~Fresh
      PROVE  PingerInv'
  BY <1>1, CallType, CallFields, CallAnswers DEF PingerInv
<1>2. ASSUME NEW k \in Calls, ~Fresh,
             \/ LoopMoves(k) \/ Tick(k) \/ \E h \in Hosts : ProcRecv(k, h)
      PROVE  PingerInv'
  BY <1>2, LoopType, LoopFields, LoopAnswers DEF PingerInv
<1>3. CASE Fresh /\ PingerNext
  BY <1>3, ProcessType, FreshOK DEF PingerInv
<1>4. CASE UNCHANGED pingerVars
  BY <1>4 DEF pingerVars, fields, contexts, calls, loops, history, PingerInv, PingerTypeOK,
     FieldsOK, AnswersOK, InProgress
<1> QED
  BY <1>1, <1>2, <1>3, <1>4 DEF PingerNext, Steps, LoopMoves, Restart

LEMMA PingerInvariant == PingerSpec => []PingerInv
<1>1. PingerInit => PingerInv
  <2>1. PingerInit => PingerTypeOK
    BY DEF PingerInit, PingerTypeOK, CallPoints, LoopPoints, Outcomes
  <2>2. PingerInit => FieldsOK
    BY DEF PingerInit, FieldsOK
  <2>3. PingerInit => AnswersOK
    BY DEF PingerInit, AnswersOK
  <2> QED
    BY <2>1, <2>2, <2>3 DEF PingerInv
<1> QED
  BY <1>1, PingerStep, PTL DEF PingerSpec

(***************************************************************************)
(* Every variable of the pinger keeps its type: no loop and no call finds  *)
(* a callback or a context missing, whatever calls overlap.                *)
(***************************************************************************)
THEOREM PingerTypeCorrect == PingerSpec => []PingerTypeOK
  BY PingerInvariant, PTL DEF PingerInv

\* The outcome that a caller of the pinger sees.
Result(c) == IF at[c] = "ended" THEN outcome[c] ELSE "none"

LEMMA ResultStands ==
  ASSUME PingerInv, UNCHANGED <<ping, heard>>, \A c \in Calls : Result(c)' = Result(c)
  PROVE  UNCHANGED Abstract!pingVars
  BY DEF Abstract!pingVars, Result

LEMMA CallRefines ==
  ASSUME PingerInv, NEW c \in Calls, AddIP(c) \/ CallStep(c) \/ Timeout(c), ~Fresh
  PROVE  [Abstract!PingNext]_Abstract!pingVars
<1>0. /\ at \in [Calls -> CallPoints] /\ outcome \in [Calls -> Outcomes] /\ AnswersOK
  BY DEF PingerInv, PingerTypeOK
<1>1. CASE AddIP(c)
  <2>1. PICK p \in Asked : ping' = [ping EXCEPT ![c] = p]
    BY <1>1 DEF AddIP, MapClash, End, Die
  <2>2. /\ at[c] = "new" /\ at' = [at EXCEPT ![c] = "added"] /\ ping[c] = Nil
        /\ UNCHANGED <<outcome, heard>>
    BY <1>0, <1>1 DEF AddIP, MapClash, End, Die, Goto, history, AnswersOK
  <2>3. \A d \in Calls : Result(d)' = Result(d)
    BY <1>0, <2>2 DEF Result
  <2>4. p \in Record /\ p = [kind |-> p.kind, host |-> p.host]
    BY PingerAssumption DEF Record, Kinds
  <2>5. Abstract!Begin(c, p.kind, p.host)
    BY <2>1, <2>2, <2>3, <2>4 DEF Abstract!Begin, Result
  <2>6. p.kind \in Abstract!Kinds /\ p.host \in Hosts
    BY <2>4 DEF Record, Kinds, Abstract!Kinds
  <2> QED
    BY <2>5, <2>6 DEF Abstract!PingNext
<1>2. CASE RemoveIP(c)
  <2>1. /\ at[c] = "leave" /\ at' = [at EXCEPT ![c] = "ended"]
        /\ UNCHANGED <<ping, outcome, heard>>
    BY <1>2 DEF RemoveIP, MapClash, End, Die, Goto, history
  <2>2. /\ Result(c) = "none" /\ Result(c)' = outcome[c]
        /\ \A d \in Calls \ {c} : Result(d)' = Result(d)
    BY <1>0, <2>1 DEF Result
  <2>3. /\ ping[c] # Nil /\ outcome[c] \in Outcomes \ {"none"}
        /\ outcome[c] = "yes" /\ ping[c].kind # "off" => heard[c] # {}
    BY <1>0, <2>1, PingerAssumption DEF AnswersOK
  <2>4. PICK o \in Abstract!Outcomes \ {"none"} : o = outcome[c]
    BY <2>3 DEF Abstract!Outcomes, Outcomes
  <2>5. Abstract!End(c, o)
    BY <2>1, <2>2, <2>3, <2>4 DEF Abstract!End, Abstract!Pinging, Result
  <2> QED
    BY <2>5 DEF Abstract!PingNext
<1>3. CASE /\ ~AddIP(c) /\ ~RemoveIP(c)
  <2>1. PICK l \in CallPoints \ {"ended"} : at' = [at EXCEPT ![c] = l]
    BY <1>3 DEF CallStep, SetHandler, RunLoop, Watch, DoneSeen, Check, StopClose, StopRead,
       StopDone, Timeout, End, Die, Goto, Leave, CallPoints
  <2>2. at[c] # "ended" /\ UNCHANGED <<ping, heard>>
    BY <1>3 DEF CallStep, SetHandler, RunLoop, Watch, DoneSeen, Check, StopClose, StopRead,
       StopDone, Timeout, End, Die, history
  <2>3. \A d \in Calls \ {c} : outcome'[d] = outcome[d]
    BY <1>0, <1>3 DEF CallStep, SetHandler, RunLoop, Watch, DoneSeen, Check, StopClose, StopRead,
       StopDone, Timeout, End, Die, Leave
  <2>4. \A d \in Calls : Result(d)' = Result(d)
    BY <1>0, <2>1, <2>2, <2>3 DEF Result
  <2> QED
    BY <2>2, <2>4, ResultStands
<1> QED
  BY <1>1, <1>2, <1>3

LEMMA LoopRefines ==
  ASSUME PingerInv, NEW k \in Calls, ~Fresh,
         \/ LoopMoves(k) \/ Tick(k) \/ \E h \in Hosts : ProcRecv(k, h)
  PROVE  [Abstract!PingNext]_Abstract!pingVars
<1>0. UNCHANGED <<at, ping, outcome>> /\ AnswersOK
  BY LoopFields DEF PingerInv
<1>1. \A d \in Calls : Result(d)' = Result(d)
  BY <1>0 DEF Result
<1>2. CASE LoopMoves(k) \/ Tick(k)
  <2>1. heard' = heard
    BY <1>2 DEF LoopStep, Listen, Sent, CallbackStops, CallbackWaits, CallbackReturns, Wind,
       Close, StopSeen, ReceiveFails, FailureSeen, DropPacket, LoopMoves,
       Tick, End, Die, history
  <2> QED
    BY <1>0, <1>1, <2>1, ResultStands
<1>3. ASSUME NEW h \in Hosts, ProcRecv(k, h)
      PROVE  Abstract!Hear(h)
  <2>1. /\ h \in addrs
        /\ heard' = [c \in Calls |-> IF c \in InProgress THEN heard[c] \cup {h} ELSE heard[c]]
    BY <1>3 DEF ProcRecv
  <2>2. \A c \in Calls : c \in InProgress <=> ping[c] # Nil /\ Result(c) = "none"
    BY <1>0, PingerAssumption DEF AnswersOK, InProgress, Result
  <2>3. \E c \in Calls : c \in InProgress /\ ping[c].host = h
    BY <1>0, <2>1 DEF AnswersOK, InProgress
  <2>4. \E c \in Calls : Abstract!Pinging(c) /\ ping[c].host = h
    BY <2>2, <2>3 DEF Abstract!Pinging, Result
  <2>5. heard' = [c \in Calls |-> IF Abstract!Pinging(c) THEN heard[c] \cup {h} ELSE heard[c]]
    BY <2>1, <2>2 DEF Abstract!Pinging, Result
  <2> QED
    BY <1>0, <1>1, <2>4, <2>5 DEF Abstract!Hear, Result
<1> QED
  BY <1>2, <1>3 DEF Abstract!PingNext

(***************************************************************************)
(* The pinger keeps what Ping promises, for any number of calls and hosts  *)
(* and however many calls overlap: a yes is never made up.                 *)
(***************************************************************************)
THEOREM PingerImplements == PingerSpec => ImplementsPing
<1>1. PingerInit => Abstract!PingInit
  BY DEF PingerInit, Abstract!PingInit
<1>2. PingerInv /\ [PingerNext]_pingerVars => [Abstract!PingNext]_Abstract!pingVars
  <2> SUFFICES ASSUME PingerInv, [PingerNext]_pingerVars
               PROVE  [Abstract!PingNext]_Abstract!pingVars
    OBVIOUS
  <2>1. CASE Fresh
    <3>1. Abstract!Lose
      BY <2>1 DEF Fresh, Abstract!Lose
    <3> QED
      BY <3>1 DEF Abstract!PingNext
  <2>2. CASE UNCHANGED pingerVars
    BY <2>2, ResultStands DEF pingerVars, calls, history, Result
  <2> QED
    BY <2>1, <2>2, CallRefines, LoopRefines DEF PingerNext, Steps, LoopMoves, Restart
<1> QED
  BY <1>1, <1>2, PingerInvariant, PTL DEF PingerSpec, ImplementsPing, Abstract!PingSpec

-----------------------------------------------------------------------------
(* Pings that do not overlap. *)

(***************************************************************************)
(* Left-over loops go on calling the callbacks that are installed last, so *)
(* PositiveWasHeard needs more than what has been decided: at any time the *)
(* flag of the one call in progress is owed to its own host.               *)
(***************************************************************************)
SoloOK ==
  "overlap" \notin races =>
    /\ \A c, d \in InProgress : c = d
    /\ \A c \in Calls :
         (flag[c] /\ at[c] # "ended") \/ outcome[c] = "yes" =>
           ping[c].kind = "off" \/ ping[c].host \in heard[c]

LEMMA CallSolo ==
  ASSUME PingerInv, SoloOK, NEW c \in Calls, AddIP(c) \/ CallStep(c) \/ Timeout(c), ~Fresh
  PROVE  SoloOK'
<1> SUFFICES ASSUME "overlap" \notin races'
             PROVE  SoloOK'
  BY DEF SoloOK
<1>a. "overlap" \notin races
  BY RacesGrow DEF Steps, PingerInv
<1> USE <1>a DEF SoloOK
<1>0. /\ at \in [Calls -> CallPoints] /\ ping \in [Calls -> Record \cup {Nil}] /\ AnswersOK
      /\ outcome \in [Calls -> Outcomes]
  BY DEF PingerInv, PingerTypeOK, Record
<1>1. CASE AddIP(c)
  <2>1. /\ at[c] = "new" /\ at' = [at EXCEPT ![c] = "added"] /\ InProgress = {}
        /\ \E p \in Asked : ping' = [ping EXCEPT ![c] = p]
        /\ UNCHANGED <<flag, outcome, heard>>
    BY <1>1 DEF AddIP, MapClash, End, Die, Goto
  <2>2. InProgress' \subseteq {c}
    BY <1>0, <2>1 DEF InProgress
  <2>3. ~flag[c] /\ outcome[c] = "none"
    BY <1>0, <2>1 DEF AnswersOK
  <2>4. \A d \in Calls \ {c} : ping'[d] = ping[d] /\ at'[d] = at[d]
    BY <1>0, <2>1
  <2> QED
    BY <2>1, <2>2, <2>3, <2>4
<1>2. CASE (CallStep(c) /\ ~RemoveIP(c)) \/ Timeout(c)
  <2>1. /\ at[c] \notin {"new", "leave", "ended"}
        /\ \/ /\ \E l \in CallPoints \ {"new", "ended"} : at' = [at EXCEPT ![c] = l]
              /\ outcome' = outcome
           \/ \E o \in Outcomes \ {"none"} : Leave(c, o) /\ (o = "yes" => flag[c])
        /\ UNCHANGED <<ping, flag, heard>>
    BY <1>2 DEF CallStep, SetHandler, RunLoop, Watch, DoneSeen, Check, StopDone, StopClose,
       StopRead, Timeout, End, Die, Goto, Leave, history, CallPoints, Outcomes
  <2>2. InProgress' = InProgress
    BY <1>0, <2>1 DEF InProgress, Leave, Goto
  <2> QED
    BY <1>0, <2>1, <2>2 DEF Leave, Goto
<1>3. CASE RemoveIP(c)
  <2>1. at' = [at EXCEPT ![c] = "ended"] /\ UNCHANGED <<ping, flag, outcome, heard>>
    BY <1>3 DEF RemoveIP, MapClash, End, Die, Goto, history
  <2>2. InProgress' \subseteq InProgress
    BY <1>0, <2>1 DEF InProgress
  <2> QED
    BY <1>0, <2>1, <2>2
<1> QED
  BY <1>1, <1>2, <1>3

LEMMA LoopSolo ==
  ASSUME PingerInv, SoloOK, NEW k \in Calls, ~Fresh,
         \/ LoopMoves(k) \/ Tick(k) \/ \E h \in Hosts : ProcRecv(k, h)
  PROVE  SoloOK'
<1> SUFFICES ASSUME "overlap" \notin races'
             PROVE  SoloOK'
  BY DEF SoloOK
<1>a. "overlap" \notin races
  BY RacesGrow DEF Steps, LoopMoves, PingerInv
<1> USE <1>a DEF SoloOK
<1>0. /\ at \in [Calls -> CallPoints] /\ ping \in [Calls -> Record \cup {Nil}] /\ AnswersOK
      /\ flag \in [Calls -> BOOLEAN] /\ heard \in [Calls -> SUBSET Hosts]
  BY DEF PingerInv, PingerTypeOK, Record
<1>1. UNCHANGED <<at, ping, outcome>> /\ InProgress' = InProgress
  BY LoopFields DEF InProgress
<1>2. loop[k] # "none"
  BY DEF LoopStep, Listen, Sent, CallbackStops, CallbackWaits, CallbackReturns, Wind, Close,
         StopSeen, ReceiveFails, FailureSeen, DropPacket, LoopMoves, Tick,
         ProcRecv, End
<1>3. onRecv \in Calls /\ onIdle \in Calls /\ at[onRecv] # "new" /\ at[onIdle] # "new"
  BY <1>2, ContextFound, PingerAssumption DEF PingerInv, FieldsOK
<1>4. CASE LoopMoves(k) \/ Tick(k)
  <2>1. heard' = heard /\ (UNCHANGED flag \/ (Report(onIdle) /\ ping[onIdle].kind = "off"))
    BY <1>4 DEF LoopStep, Listen, Sent, CallbackStops, CallbackWaits, CallbackReturns, Wind,
       Close, StopSeen, ReceiveFails, FailureSeen, DropPacket, LoopMoves,
       Tick, End, Die, calls, history
  <2>2. \A c \in Calls : flag'[c] => flag[c] \/ ping[c].kind = "off"
    BY <1>0, <1>3, <2>1 DEF Report
  <2> QED
    BY <1>1, <2>1, <2>2
<1>5. ASSUME NEW h \in Hosts, ProcRecv(k, h)
      PROVE  SoloOK'
  <2>1. /\ h \in addrs
        /\ heard' = [c \in Calls |-> IF c \in InProgress THEN heard[c] \cup {h} ELSE heard[c]]
        /\ UNCHANGED flag \/ Report(onRecv)
    BY <1>5 DEF ProcRecv, calls
  <2>2. \A c \in Calls : heard[c] \subseteq heard'[c]
    BY <2>1
  <2>3. ASSUME NEW c \in Calls, flag'[c], at[c] # "ended"
        PROVE  flag[c] \/ ping[c].host \in heard'[c]
    <3>1. CASE UNCHANGED flag
      BY <2>3, <3>1
    <3>2. CASE Report(onRecv) /\ ~flag[c]
      <4>1. c = onRecv /\ c \in InProgress
        BY <1>0, <1>3, <2>3, <3>2 DEF Report, InProgress
      <4>2. PICK d \in InProgress : ping[d].host = h
        BY <1>0, <2>1 DEF AnswersOK
      <4>3. d = c
        BY <4>1, <4>2
      <4> QED
        BY <2>1, <4>1, <4>2, <4>3
    <3> QED
      BY <2>1, <3>1, <3>2
  <2> QED
    BY <1>1, <2>2, <2>3
<1> QED
  BY <1>4, <1>5

LEMMA SoloInvariant == PingerSpec => [](PingerInv /\ SoloOK)
<1>1. PingerInit => SoloOK
  BY DEF PingerInit, SoloOK, InProgress
<1>2. PingerInv /\ SoloOK /\ [PingerNext]_pingerVars => SoloOK'
  <2> SUFFICES ASSUME PingerInv, SoloOK, [PingerNext]_pingerVars
               PROVE  SoloOK'
    OBVIOUS
  <2>1. CASE Fresh
    BY <2>1 DEF Fresh, SoloOK, InProgress
  <2>2. CASE UNCHANGED pingerVars
    BY <2>2 DEF pingerVars, calls, history, SoloOK, InProgress
  <2> QED
    BY <2>1, <2>2, CallSolo, LoopSolo DEF PingerNext, Steps, LoopMoves, Restart
<1> QED
  BY <1>1, <1>2, PingerInvariant, PTL DEF PingerSpec

(***************************************************************************)
(* As long as no calls have overlapped, a host that CheckHealt or PingHost *)
(* calls alive has itself answered during the call, for any number of      *)
(* calls and of loops that earlier ones have left behind.                  *)
(***************************************************************************)
THEOREM PositiveWasHeardHolds == PingerSpec => []PositiveWasHeard
<1>1. PingerInv /\ SoloOK => PositiveWasHeard
  BY DEF SoloOK, PositiveWasHeard, Positive
<1> QED
  BY <1>1, SoloInvariant, PTL

-----------------------------------------------------------------------------
(* What a ping leaves behind. *)

Starting == {"new", "added", "half", "ready"}
Waiting == {"started", "select", "check", "stop", "read", "blocked"}

Held == {"heldR", "heldI"}

\* Before RunLoop nothing of the call is there but its closures.
Unstarted(c) ==
  /\ loop[c] = "none" /\ ctx # c /\ c \notin stops \cup dones /\ ~flag[c]
  /\ at[c] = "half" => IF ping[c].kind = "health" THEN onRecv = c ELSE onIdle = c
  /\ at[c] = "ready" => onRecv = c /\ onIdle = c

(***************************************************************************)
(* Between RunLoop and the end of the call all fields are its own.  Either *)
(* a callback stops the loop or the call does: the flag tells which.       *)
(***************************************************************************)
Attended(c) ==
  /\ ctx = c /\ onRecv = c /\ onIdle = c /\ loop[c] # "none"
  /\ at[c] # "started" => wait[c] = c
  /\ loop[c] \in {"select"} \cup Held => chan[c] = c
  /\ c \in dones <=> loop[c] = "over"
  /\ c \in stops <=> at[c] \in {"read", "blocked"} \/ loop[c] \in {"readR", "readI"} \cup Held
  /\ flag[c] <=> loop[c] \in Calling \cup Held
  /\ loop[c] \in Calling => at[c] \in {"started", "select"}
  /\ loop[c] \in Held => at[c] \in {"started", "select", "check"}

\* A positive call leaves a loop that waits for its own end, the others none.
Settled(c) ==
  IF outcome[c] = "yes"
  THEN loop[c] \in Held /\ chan[c] = c /\ c \notin dones
  ELSE loop[c] = "over" /\ outcome[c] # "aborted"

TidyCall(c) ==
  /\ at[c] \in Starting => Unstarted(c)
  /\ at[c] \in Waiting => Attended(c)
  /\ at[c] \in {"leave", "ended"} => Settled(c)
  /\ loop[c] \in {"none", "over"} => sockets[c] = {}

TidyOK == races = {} => up /\ \A c \in Calls : TidyCall(c)

\* Loops that run belong to the one call in progress.
LEMMA OneRuns ==
  ASSUME PingerInv, SoloOK, races = {}, \A d \in Calls : TidyCall(d), NEW k \in Calls,
         loop[k] \notin {"none", "over"} \cup Held
  PROVE  at[k] \in Waiting /\ k \in InProgress /\ InProgress \subseteq {k} /\ Attended(k)
<1>1. at[k] \in CallPoints
  BY DEF PingerInv, PingerTypeOK
<1>2. at[k] \in Waiting
  BY <1>1 DEF TidyCall, Unstarted, Settled, Starting, Waiting, CallPoints
<1> QED
  BY <1>2 DEF InProgress, Waiting, SoloOK, TidyCall

\* What a step of one call or of its loop leaves to the other calls.
LEMMA OthersTidy ==
  ASSUME PingerInv, \A d \in Calls : TidyCall(d), NEW c \in Calls, InProgress \subseteq {c},
         \A d \in Calls \ {c} :
           /\ at'[d] = at[d] /\ flag'[d] = flag[d] /\ outcome'[d] = outcome[d]
           /\ loop'[d] = loop[d] /\ chan'[d] = chan[d] /\ sockets'[d] = sockets[d],
         stops' \subseteq stops \cup {c}, dones' \subseteq dones \cup {c}, ctx' \in {ctx, c}
  PROVE  \A d \in Calls \ {c} : TidyCall(d)'
<1> SUFFICES ASSUME NEW d \in Calls \ {c}
             PROVE  TidyCall(d)'
  OBVIOUS
<1>1. at[d] \in {"new", "ended"} /\ TidyCall(d)
  BY DEF InProgress
<1>2. CASE at[d] = "new"
  <2>1. Unstarted(d)
    BY <1>1, <1>2 DEF TidyCall, Starting
  <2>2. Unstarted(d)'
    BY <1>2, <2>1 DEF Unstarted
  <2> QED
    BY <1>1, <1>2, <2>1, <2>2 DEF TidyCall, Starting, Waiting, Unstarted
<1>3. CASE at[d] = "ended"
  <2>1. Settled(d)
    BY <1>1, <1>3 DEF TidyCall
  <2>2. Settled(d)'
    BY <2>1 DEF Settled
  <2> QED
    BY <1>1, <1>3, <2>1, <2>2 DEF TidyCall, Starting, Waiting
<1> QED
  BY <1>1, <1>2, <1>3

LEMMA CallTidy ==
  ASSUME PingerInv, SoloOK, races' = {}, up, races = {}, \A d \in Calls : TidyCall(d),
         NEW c \in Calls, AddIP(c) \/ CallStep(c) \/ Timeout(c)
  PROVE  up' /\ \A d \in Calls : TidyCall(d)'
<1> USE DEF Starting, Waiting
<1>1. /\ at \in [Calls -> CallPoints] /\ outcome \in [Calls -> Outcomes]
      /\ flag \in [Calls -> BOOLEAN] /\ wait \in [Calls -> Calls \cup {Nil}]
      /\ ping \in [Calls -> Record \cup {Nil}] /\ TidyCall(c)
  BY DEF PingerInv, PingerTypeOK, Record
<1>2. at[c] # "new" => InProgress \subseteq {c}
  BY DEF AddIP, CallStep, Timeout, InProgress, SoloOK, SetHandler, RunLoop, Watch, DoneSeen,
         Check, StopClose, StopRead, StopDone, RemoveIP
<1>3. CASE AddIP(c)
  <2>1. at[c] = "new" /\ InProgress = {}
    BY <1>3 DEF AddIP
  <2>2. ~MapClash
    BY <2>1, OneRuns DEF MapClash, Held
  <2>3. /\ at' = [at EXCEPT ![c] = "added"]
        /\ UNCHANGED <<up, ctx, onRecv, onIdle, contexts, flag, wait, outcome, loops>>
    BY <1>3, <2>2 DEF AddIP, Goto
  <2>4. \A d \in Calls \ {c} : TidyCall(d)'
    BY <1>1, <2>1, <2>3, OthersTidy DEF contexts, loops
  <2>5. Unstarted(c) /\ sockets[c] = {}
    BY <1>1, <2>1 DEF TidyCall, Unstarted
  <2>6. TidyCall(c)'
    BY <1>1, <2>3, <2>5 DEF TidyCall, Unstarted, contexts, loops
  <2> QED
    BY <2>3, <2>4, <2>6
<1>4. CASE SetHandler(c)
  <2>1. /\ at[c] \in {"added", "half"}
        /\ at' = [at EXCEPT ![c] = IF at[c] = "added" THEN "half" ELSE "ready"]
        /\ UNCHANGED <<up, ctx, contexts, ping, flag, wait, outcome, loops>>
    BY <1>4 DEF SetHandler, Goto
  <2>2. \A d \in Calls \ {c} : TidyCall(d)'
    BY <1>1, <1>2, <2>1, OthersTidy DEF contexts, loops
  <2>3. Unstarted(c) /\ sockets[c] = {}
    BY <1>1, <2>1 DEF TidyCall, Unstarted
  <2>4. \/ /\ (at[c] = "added") <=> (ping[c].kind = "health")
           /\ onRecv' = c /\ onIdle' = onIdle
        \/ /\ ~((at[c] = "added") <=> (ping[c].kind = "health"))
           /\ onIdle' = c /\ onRecv' = onRecv
    BY <1>4 DEF SetHandler
  <2>5. CASE at[c] = "added"
    <3>1. at'[c] = "half"
      BY <1>1, <2>1, <2>5
    <3> QED
      BY <2>1, <2>2, <2>3, <2>4, <2>5, <3>1 DEF TidyCall, Unstarted, contexts, loops
  <2>6. CASE at[c] = "half"
    <3>1. at'[c] = "ready"
      BY <1>1, <2>1, <2>6
    <3>2. onRecv' = c /\ onIdle' = c
      BY <2>3, <2>4, <2>6 DEF Unstarted
    <3> QED
      BY <2>1, <2>2, <2>3, <3>1, <3>2 DEF TidyCall, Unstarted, contexts, loops
  <2> QED
    BY <2>1, <2>5, <2>6
<1>5. CASE RunLoop(c)
  <2>1. /\ at[c] = "ready" /\ at' = [at EXCEPT ![c] = "started"]
        /\ ctx' = c /\ loop' = [loop EXCEPT ![c] = "listen"]
        /\ UNCHANGED <<up, onRecv, onIdle, contexts, flag, wait, outcome, chan, sockets>>
    BY <1>5 DEF RunLoop, Goto
  <2>2. loop \in [Calls -> LoopPoints]
    BY DEF PingerInv, PingerTypeOK
  <2>3. \A d \in Calls \ {c} : TidyCall(d)'
    BY <1>1, <1>2, <2>1, <2>2, OthersTidy DEF contexts
  <2>4. Unstarted(c)
    BY <1>1, <2>1 DEF TidyCall
  <2>5. Attended(c)'
    BY <1>1, <2>1, <2>2, <2>4 DEF Unstarted, Attended, Held, Calling, contexts
  <2> QED
    BY <1>1, <2>1, <2>2, <2>3, <2>5 DEF TidyCall
<1>6. CASE at[c] \in Waiting
  <2>1. Attended(c) /\ InProgress \subseteq {c}
    BY <1>1, <1>2, <1>6 DEF TidyCall
  <2>2. CASE Watch(c) \/ Timeout(c) \/ StopRead(c)
    <3>1. /\ at'[c] \in Waiting /\ \A d \in Calls \ {c} : at'[d] = at[d]
          /\ at[c] = "started" => at'[c] = "select"
          /\ at[c] = "select" => at'[c] = "check" /\ loop[c] \notin Calling
          /\ at[c] = "read" => at'[c] = "blocked"
          /\ at[c] \in {"started", "select", "read"}
          /\ wait'[c] = c
          /\ UNCHANGED <<up, fields, contexts, flag, outcome, loops>>
      <4>1. Timeout(c) => loop[c] \notin Calling
        BY DEF Timeout
      <4>2. CASE Timeout(c)
        <5>1. at[c] = "select" /\ at' = [at EXCEPT ![c] = "check"] /\ wait' = wait
              /\ UNCHANGED <<up, fields, contexts, flag, outcome, loops>>
          BY <4>2 DEF Timeout, Goto
        <5> QED
          BY <1>1, <2>1, <4>1, <4>2, <5>1 DEF Attended
      <4>3. CASE Watch(c) \/ StopRead(c)
        BY <1>1, <2>1, <4>3 DEF Watch, StopRead, Goto, Attended
      <4> QED
        BY <2>2, <4>2, <4>3
    <3>2. \A d \in Calls \ {c} : TidyCall(d)'
      BY <1>1, <2>1, <3>1, OthersTidy DEF contexts, loops, fields
    <3>3. Attended(c)'
      BY <2>1, <3>1 DEF Attended, contexts, loops, fields, Held, Calling
    <3>4. TidyCall(c)'
      BY <1>1, <3>1, <3>3 DEF TidyCall, contexts, loops, Attended
    <3> QED
      BY <3>1, <3>2, <3>4
  <2>3. CASE DoneSeen(c) \/ Check(c) \/ StopDone(c) \/ StopClose(c)
    <3>1. ctx = c /\ (at[c] = "stop" => ctx \notin stops) /\ (at[c] # "started" => wait[c] = c)
      BY <2>1 DEF Attended, Held, Calling
    <3>2. /\ \/ \E l \in {"check", "stop", "read"} : Goto(c, l) /\ outcome' = outcome
             \/ \E o \in {"yes", "no", "error"} : Leave(c, o)
          /\ UNCHANGED <<up, fields, dones, errs, flag, wait, loops>>
          /\ stops' = IF at[c] = "stop" THEN stops \cup {c} ELSE stops
      BY <2>3, <3>1 DEF DoneSeen, Check, StopDone, StopClose, contexts
    <3>3. \A d \in Calls \ {c} : TidyCall(d)'
      BY <1>1, <2>1, <3>2, OthersTidy DEF Goto, Leave, loops, fields
    <3>4. CASE \E l \in {"check", "stop", "read"} : Goto(c, l)
      <4>1. PICK l \in {"check", "stop", "read"} : Goto(c, l)
        BY <3>4
      <4>2. at'[c] = l
        BY <1>1, <4>1 DEF Goto
      <4>3. \/ at[c] = "select" /\ l = "check" /\ loop[c] = "over"
            \/ at[c] = "check" /\ l = "stop" /\ ~flag[c]
            \/ at[c] = "stop" /\ l = "read"
        BY <1>1, <2>1, <2>3, <4>1, <4>2 DEF DoneSeen, Check, StopDone, StopClose, End, Die, Fresh,
           Leave, Goto, Attended
      <4>4. Attended(c)'
        BY <2>1, <3>1, <3>2, <4>2, <4>3 DEF Attended, loops, fields, Held, Calling
      <4>5. TidyCall(c)'
        BY <1>1, <3>2, <4>2, <4>4 DEF TidyCall, loops, Attended
      <4> QED
        BY <3>2, <3>3, <4>5
    <3>5. CASE \E o \in {"yes", "no", "error"} : Leave(c, o)
      <4>1. PICK o \in {"yes", "no", "error"} : Leave(c, o)
        BY <3>5
      <4>2. at'[c] = "leave" /\ outcome'[c] = o
        BY <1>1, <4>1 DEF Leave, Goto
      <4>3. \/ at[c] \in {"select", "blocked"} /\ wait[c] \in dones
               /\ (o = "yes" => at[c] = "blocked" /\ flag[c])
            \/ at[c] = "check" /\ flag[c] /\ o = "yes"
        BY <1>1, <2>3, <3>1, <4>1, <4>2 DEF DoneSeen, Check, StopDone, StopClose, End, Die, Fresh,
           Leave, Goto
      <4>4. Settled(c)'
        BY <2>1, <3>1, <3>2, <4>2, <4>3 DEF Attended, Settled, loops, fields, Held, Calling
      <4>5. TidyCall(c)'
        BY <1>1, <3>2, <4>2, <4>4 DEF TidyCall, loops
      <4> QED
        BY <3>2, <3>3, <4>5
    <3> QED
      BY <3>2, <3>4, <3>5
  <2> QED
    BY <1>6, <2>2, <2>3 DEF CallStep, AddIP, SetHandler, RunLoop, RemoveIP
<1>7. CASE RemoveIP(c)
  <2>1. at[c] = "leave" /\ Settled(c) /\ InProgress \subseteq {c}
    BY <1>1, <1>2, <1>7 DEF RemoveIP, TidyCall
  <2>2. ~MapClash
    BY <2>1, OneRuns DEF MapClash, Held
  <2>3. /\ at' = [at EXCEPT ![c] = "ended"]
        /\ UNCHANGED <<up, ctx, contexts, flag, outcome, loops>>
    BY <1>7, <2>2 DEF RemoveIP, Goto
  <2>4. \A d \in Calls \ {c} : TidyCall(d)'
    BY <1>1, <2>1, <2>3, OthersTidy DEF contexts, loops
  <2>5. TidyCall(c)'
    BY <1>1, <2>1, <2>3 DEF TidyCall, Settled, contexts, loops
  <2> QED
    BY <2>3, <2>4, <2>5
<1> QED
  BY <1>3, <1>4, <1>5, <1>6, <1>7 DEF CallStep, Timeout, Watch, DoneSeen, Check, StopClose,
     StopRead, StopDone

\* One receiver may fail at any time; only the other one could do harm.
LEMMA FailTidy ==
  ASSUME up, races' = {}, \A d \in Calls : TidyCall(d), NEW k \in Calls, ReceiveFails(k)
  PROVE  up' /\ \A d \in Calls : TidyCall(d)'
<1>1. UNCHANGED <<up, fields, contexts, calls, loop, chan, sockets>>
  BY DEF ReceiveFails
<1> QED
  BY <1>1 DEF fields, contexts, calls, TidyCall, Unstarted, Attended, Settled

LEMMA LoopTidy ==
  ASSUME PingerInv, SoloOK, races' = {}, up, races = {}, \A d \in Calls : TidyCall(d),
         NEW k \in Calls, ~ReceiveFails(k),
         \/ LoopMoves(k) \/ Tick(k) \/ \E h \in Hosts : ProcRecv(k, h)
  PROVE  up' /\ \A d \in Calls : TidyCall(d)'
<1>1. /\ at \in [Calls -> CallPoints] /\ flag \in [Calls -> BOOLEAN]
      /\ loop \in [Calls -> LoopPoints] /\ chan \in [Calls -> Calls \cup {Nil}]
      /\ sockets \in [Calls -> SUBSET Families]
  BY DEF PingerInv, PingerTypeOK
<1>2. loop[k] \notin {"none", "over"} \cup Held
  <2>1. loop[k] \notin {"none", "over"}
    BY DEF LoopStep, Listen, Sent, CallbackStops, CallbackWaits, CallbackReturns, Wind, Close,
           StopSeen, FailureSeen, DropPacket, LoopMoves, Tick, ProcRecv
  <2>2. loop[k] \in Held => CallbackReturns(k)
    BY DEF LoopStep, Listen, Sent, CallbackStops, CallbackWaits, Wind, Close, StopSeen,
           FailureSeen, DropPacket, LoopMoves, Tick, ProcRecv, Held
  <2>3. loop[k] \in Held => chan[k] = k /\ k \notin dones
    BY <1>1 DEF TidyCall, Unstarted, Attended, Settled, Starting, Waiting, CallPoints, Held
  <2> QED
    BY <2>1, <2>2, <2>3 DEF CallbackReturns
<1>3. at[k] \in Waiting /\ InProgress \subseteq {k} /\ Attended(k) /\ TidyCall(k)
  BY <1>2, OneRuns
<1>4. ctx = k /\ onRecv = k /\ onIdle = k
  BY <1>3 DEF Attended
<1>5. ASSUME UNCHANGED <<up, fields, at, ping, wait, outcome>>,
             \A d \in Calls \ {k} :
               /\ flag'[d] = flag[d] /\ loop'[d] = loop[d] /\ chan'[d] = chan[d]
               /\ sockets'[d] = sockets[d],
             stops' \subseteq stops \cup {k}, dones' \subseteq dones \cup {k},
             Attended(k)', loop'[k] = "over" => sockets'[k] = {}
      PROVE  up' /\ \A d \in Calls : TidyCall(d)'
  <2>1. \A d \in Calls \ {k} : TidyCall(d)'
    BY <1>3, <1>5, OthersTidy DEF fields
  <2>2. TidyCall(k)'
    BY <1>3, <1>5 DEF TidyCall, Starting, Waiting, Attended
  <2> QED
    BY <1>5, <2>1, <2>2
<1>6. CASE Listen(k) \/ Sent(k) \/ StopSeen(k) \/ FailureSeen(k) \/ DropPacket(k) \/ Wind(k)
  <2>1. /\ UNCHANGED <<up, fields, at, ping, wait, outcome, flag, stops, dones>>
        /\ \E l \in {"listen6", "send", "select", "end", "endErr", "close"} :
             loop' = [loop EXCEPT ![k] = l]
        /\ \A d \in Calls \ {k} : sockets'[d] = sockets[d]
        /\ chan' = chan \/ chan' = [chan EXCEPT ![k] = k]
        /\ loop'[k] = "select" => chan'[k] = k
        /\ loop[k] \notin Calling
    BY <1>1, <1>4, <1>6 DEF Listen, Sent, StopSeen, FailureSeen, DropPacket, Wind,
       StartSending, Select, Step, calls, contexts, Calling
  <2>2. Attended(k)'
    BY <1>1, <1>2, <1>3, <2>1 DEF Attended, Held, Calling, fields
  <2> QED
    BY <1>1, <1>5, <2>1, <2>2
<1>7. CASE Tick(k) \/ \E h \in Hosts : ProcRecv(k, h)
  <2>1. /\ loop[k] = "select" /\ UNCHANGED <<up, fields, contexts, sockets>>
        /\ \/ Report(k) /\ (Step(k, "stopI") \/ Step(k, "stopR")) /\ UNCHANGED chan
           \/ UNCHANGED <<calls, chan>> /\ Step(k, "send")
           \/ UNCHANGED calls /\ Select(k)
    BY <1>4, <1>7 DEF Tick, ProcRecv, StartSending
  <2>2. CASE Report(k)
    <3>1. /\ at[k] \in {"started", "select"} /\ flag' = [flag EXCEPT ![k] = TRUE]
          /\ UNCHANGED <<at, ping, wait, outcome>>
      BY <2>2 DEF Report
    <3>2. (loop' = [loop EXCEPT ![k] = "stopI"] \/ loop' = [loop EXCEPT ![k] = "stopR"])
          /\ chan' = chan
      BY <2>1, <2>2, <3>1, <1>1, <1>3 DEF Step, Select, calls, Attended, Calling, Held
    <3>3. Attended(k)'
      BY <1>1, <1>3, <2>1, <3>1, <3>2 DEF Attended, Held, Calling, fields, contexts
    <3> QED
      BY <1>1, <1>5, <2>1, <3>1, <3>2, <3>3 DEF contexts
  <2>3. CASE UNCHANGED calls
    <3>1. \/ loop' = [loop EXCEPT ![k] = "send"] /\ chan' = chan
          \/ loop' = [loop EXCEPT ![k] = "select"] /\ chan' = [chan EXCEPT ![k] = k]
      BY <1>1, <1>3, <1>4, <2>1, <2>3 DEF Step, Select, Report, calls, Attended, Calling, Held
    <3>2. Attended(k)'
      BY <1>1, <1>3, <2>1, <2>3, <3>1 DEF Attended, Held, Calling, fields, contexts, calls
    <3> QED
      BY <1>1, <1>5, <2>1, <2>3, <3>1, <3>2 DEF contexts, calls
  <2> QED
    BY <2>1, <2>2, <2>3
<1>8. CASE CallbackStops(k)
  <2>1. ctx \notin stops
    BY <1>3, <1>8 DEF CallbackStops, Attended, Calling, Held
  <2>2. /\ stops' = stops \cup {k} /\ loop[k] \in {"stopR", "stopI"}
        /\ UNCHANGED <<up, fields, dones, calls, chan, sockets>>
        /\ loop' = [loop EXCEPT ![k] = IF loop[k] = "stopR" THEN "readR" ELSE "readI"]
    BY <1>4, <1>8, <2>1 DEF CallbackStops, Step
  <2>3. Attended(k)'
    BY <1>1, <1>3, <2>2 DEF Attended, Held, Calling, fields, calls
  <2> QED
    BY <1>1, <1>5, <2>2, <2>3 DEF calls
<1>9. CASE CallbackWaits(k)
  <2>1. /\ loop[k] \in {"readR", "readI"} /\ chan' = [chan EXCEPT ![k] = k]
        /\ UNCHANGED <<up, fields, contexts, calls, sockets>>
        /\ loop' = [loop EXCEPT ![k] = IF loop[k] = "readR" THEN "heldR" ELSE "heldI"]
    BY <1>4, <1>9 DEF CallbackWaits, Step
  <2>2. Attended(k)'
    BY <1>1, <1>3, <2>1 DEF Attended, Held, Calling, fields, calls, contexts
  <2> QED
    BY <1>1, <1>5, <2>1, <2>2 DEF calls, contexts
<1>10. CASE Close(k)
  <2>1. ctx \notin dones /\ loop[k] = "close"
    BY <1>3, <1>10 DEF Close, Attended
  <2>2. /\ dones' = dones \cup {k} /\ loop' = [loop EXCEPT ![k] = "over"]
        /\ sockets' = [sockets EXCEPT ![k] = {}] /\ chan' = [chan EXCEPT ![k] = Nil]
        /\ UNCHANGED <<up, fields, stops, calls>>
    BY <1>4, <1>10, <2>1 DEF Close, Step
  <2>3. Attended(k)'
    BY <1>1, <1>3, <2>1, <2>2 DEF Attended, Held, Calling, fields, calls
  <2> QED
    BY <1>1, <1>5, <2>2, <2>3 DEF calls
<1> QED
  BY <1>2, <1>6, <1>7, <1>8, <1>9, <1>10 DEF LoopMoves, LoopStep, CallbackReturns, Held

LEMMA TidyStep ==
  PingerInv /\ SoloOK /\ TidyOK /\ [PingerNext]_pingerVars => TidyOK'
<1> SUFFICES ASSUME PingerInv, SoloOK, TidyOK, [PingerNext]_pingerVars, races' = {}
             PROVE  up' /\ \A d \in Calls : TidyCall(d)'
  BY DEF TidyOK
<1>1. CASE Restart
  BY <1>1, PingerAssumption DEF Restart, Fresh, TidyCall, Unstarted, Starting, Waiting
<1>2. CASE UNCHANGED pingerVars
  <2>1. up' /\ \A d \in Calls : TidyCall(d)
    BY <1>2 DEF TidyOK, pingerVars, history
  <2> QED
    BY <1>2, <2>1 DEF pingerVars, fields, contexts, calls, loops, history, TidyCall, Unstarted,
       Attended, Settled
<1>3. CASE up /\ Steps
  <2>1. races = {}
    BY <1>3, RacesGrow DEF PingerInv
  <2>2. \A d \in Calls : TidyCall(d)
    BY <2>1 DEF TidyOK
  <2> QED
    BY <1>3, <2>1, <2>2, CallTidy, LoopTidy, FailTidy DEF Steps, LoopMoves
<1> QED
  BY <1>1, <1>2, <1>3 DEF PingerNext

LEMMA TidyInvariant == PingerSpec => [](PingerInv /\ TidyOK)
<1>1. PingerInit => TidyOK
  BY PingerAssumption DEF PingerInit, TidyOK, TidyCall, Unstarted, Starting, Waiting
<1> QED
  BY <1>1, TidyStep, SoloInvariant, PTL DEF PingerSpec

(***************************************************************************)
(* Whatever closes a channel of the pinger twice, or writes its map while  *)
(* it is read, is one of the four races.  Until a call overlaps another, a *)
(* ticker meets a callback, an answer comes after its ticker, or both      *)
(* receivers of a loop fail, the process stays up and no call is aborted,  *)
(* for any number of calls that leave loops, receivers and sockets behind, *)
(* and however often a socket or a receiver fails.                         *)
(***************************************************************************)
THEOREM PanicsNeedRaceHolds == PingerSpec => []PanicsNeedRace
<1>1. PingerInv /\ TidyOK => PanicsNeedRace
  <2> SUFFICES ASSUME PingerInv, TidyOK, races = {}, NEW c \in Calls
               PROVE  up /\ outcome[c] # "aborted"
    BY DEF PanicsNeedRace, TidyOK
  <2>1. up /\ TidyCall(c)
    BY DEF TidyOK
  <2>2. outcome[c] = "aborted" => at[c] \in {"leave", "ended"}
    BY DEF PingerInv, AnswersOK
  <2> QED
    BY <2>1, <2>2 DEF TidyCall, Settled
<1> QED
  BY <1>1, TidyInvariant, PTL

(***************************************************************************)
(* Under the same conditions a ping without a yes leaves no loop and no    *)
(* socket, and pings that have all ended leave no address.                 *)
(***************************************************************************)
THEOREM NegativeCleansUpHolds == PingerSpec => []NegativeCleansUp
<1>1. PingerInv /\ TidyOK => NegativeCleansUp
  <2> SUFFICES ASSUME PingerInv, TidyOK, races = {}
               PROVE  /\ \A c \in Calls : at[c] = "ended" /\ outcome[c] # "yes" =>
                           loop[c] = "over" /\ sockets[c] = {}
                      /\ InProgress = {} => addrs = {}
    BY DEF NegativeCleansUp
  <2>1. ASSUME NEW c \in Calls, at[c] = "ended", outcome[c] # "yes"
        PROVE  loop[c] = "over" /\ sockets[c] = {}
    BY <2>1 DEF TidyOK, TidyCall, Settled
  <2>2. InProgress = {} => addrs = {}
    BY DEF PingerInv, AnswersOK
  <2> QED
    BY <2>1, <2>2
<1> QED
  BY <1>1, TidyInvariant, PTL

=============================================================================
