---------------------------- MODULE StartupProofs ----------------------------
(***************************************************************************)
(* Proofs about the start of the process, for any set of configurations    *)
(* and whether or not the process is privileged.                           *)
(***************************************************************************)
EXTENDS Startup, SequenceTheorems, TLAPS

\* The start after its first k steps.
After(k) == SubSeq(Script(conf.server), k + 1, Len(Script(conf.server)))

Encrypting == conf.server = "letsencrypt"

(***************************************************************************)
(* What the first k steps of a start have made.  The two orders of Script  *)
(* are what decides it: Let's Encrypt wraps the handler at its 7th step    *)
(* and replaces it at its 9th, the others make it at the 6th and wrap it   *)
(* at the 7th.  Until the server listens, only what CheckAlreadyRun found  *)
(* can have changed initialized, and no one makes the database.            *)
(***************************************************************************)
Built(k) ==
  /\ k < 2 => ~initialized
  /\ k >= 2 /\ k < (IF Encrypting THEN 10 ELSE 9) /\ ~initialized => ~file
  /\ k >= 3 => prefix = (IF conf.proxy = "none" THEN "root" ELSE "prefix")
  /\ k >= (IF Encrypting THEN 9 ELSE 6) => handler.routes = prefix
  /\ Encrypting /\ k >= 9 => ~handler.wrapped
  /\ ~Encrypting /\ k = 6 => ~handler.wrapped
  /\ ~Encrypting /\ k >= 7 => (handler.wrapped <=> conf.proxy = "enabled")
  /\ k >= 8 => settings
  /\ storage # "none" <=> initialized /\ k >= (IF Encrypting THEN 5 ELSE 4)
  /\ bot # "none" <=> conf.bot # "none" /\ k >= (IF Encrypting THEN 6 ELSE 5)

StartVarsOK ==
  /\ folder \in Folders /\ certs \in Folders /\ file \in BOOLEAN
  /\ up \in BOOLEAN /\ conf \in Confs
  /\ initialized \in BOOLEAN /\ prefix \in {"root", "prefix"} /\ settings \in BOOLEAN
  /\ handler \in [routes : {"none", "root", "prefix"}, wrapped : BOOLEAN]
  /\ storage \in {"none", "starting", "running"}
  /\ bot \in {"none", "starting", "running", "over"}
  /\ storage = "running" => file
  /\ bot \in {"running", "over"} => conf.bot = "complete"

StartInv ==
  /\ StartVarsOK
  /\ \E k \in 0 .. Len(Script(conf.server)) : todo = After(k) /\ Built(k)

-----------------------------------------------------------------------------
(* The scripts. *)

StepNames == {"log", "already", "prefix", "certs", "storage", "bot", "proxy", "settings",
              "box", "listen"}

LEMMA ScriptForms ==
  ASSUME NEW s, NEW S, S = Script(s)
  PROVE  /\ S \in Seq(StepNames) /\ S # <<>>
         /\ S[1] = "log" /\ S[2] = "already" /\ S[3] = "prefix" /\ S[8] = "settings"
         /\ s = "letsencrypt" =>
              /\ Len(S) = 10
              /\ S[4] = "certs" /\ S[5] = "storage" /\ S[6] = "bot" /\ S[7] = "proxy"
              /\ S[9] = "box" /\ S[10] = "listen"
         /\ s # "letsencrypt" =>
              /\ Len(S) = 9
              /\ S[4] = "storage" /\ S[5] = "bot" /\ S[6] = "box" /\ S[7] = "proxy"
              /\ S[9] = "listen"
<1>1. CASE s = "letsencrypt"
  BY <1>1 DEF Script, StepNames
<1>2. CASE s # "letsencrypt"
  BY <1>2 DEF Script, StepNames
<1> QED
  BY <1>1, <1>2

LEMMA ScriptLength ==
  /\ Script(conf.server) \in Seq(StepNames)
  /\ Len(Script(conf.server)) = (IF Encrypting THEN 10 ELSE 9)
<1>1. CASE Encrypting
  BY <1>1, ScriptForms DEF Encrypting
<1>2. CASE ~Encrypting
  BY <1>2, ScriptForms DEF Encrypting
<1> QED
  BY <1>1, <1>2

\* The step that comes next.
LEMMA NextOf ==
  ASSUME NEW k \in 0 .. Len(Script(conf.server)), todo = After(k)
  PROVE  /\ (todo = <<>>) = (k = Len(Script(conf.server)))
         /\ k < Len(Script(conf.server)) =>
              /\ Head(todo) = Script(conf.server)[k + 1]
              /\ Tail(todo) = After(k + 1)
<1> DEFINE S == Script(conf.server)
<1>1. S \in Seq(StepNames) /\ Len(S) \in Nat
  BY ScriptForms
<1>2. CASE k = Len(S)
  <2>1. todo = <<>>
    BY <1>1, <1>2, SubSeqEmpty DEF After
  <2> QED
    BY <1>2, <2>1
<1>3. CASE k < Len(S)
  <2>1. k + 1 \in 1 .. Len(S) /\ Len(S) \in k + 1 .. Len(S)
    BY <1>1, <1>3
  <2>2. Head(todo) = S[k + 1] /\ Tail(todo) = After(k + 1)
    BY <1>1, <2>1, HeadTailOfSubSeq DEF After
  <2>3. Len(todo) = Len(S) - k
    BY <1>1, <2>1, SubSeqProperties DEF After
  <2>4. todo # <<>>
    BY <1>1, <1>3, <2>3
  <2> QED
    BY <1>3, <2>2, <2>4
<1> QED
  BY <1>1, <1>2, <1>3

LEMMA AfterLength ==
  ASSUME NEW k \in 0 .. Len(Script(conf.server)), k < Len(Script(conf.server)),
         After(k + 1) = <<>>
  PROVE  k + 1 = Len(Script(conf.server))
<1> DEFINE S == Script(conf.server)
<1>1. S \in Seq(StepNames) /\ Len(S) \in Nat
  BY ScriptLength
<1>2. Len(After(k + 1)) = IF k + 2 <= Len(S) THEN Len(S) - k - 1 ELSE 0
  <2>1. \A i \in k + 2 .. Len(S) : S[i] \in StepNames
    BY <1>1
  <2> QED
    BY <1>1, <2>1, SubSeqProperties DEF After
<1>3. Len(After(k + 1)) = 0
  OBVIOUS
<1> QED
  BY <1>1, <1>2, <1>3

\* Where a start stands when x is the next step.
LEMMA Position ==
  ASSUME NEW k \in 0 .. Len(Script(conf.server)), todo = After(k), NEW x, At(x)
  PROVE  /\ k < Len(Script(conf.server)) /\ Tail(todo) = After(k + 1)
         /\ x = "log" => k = 0
         /\ x = "already" => k = 1
         /\ x = "prefix" => k = 2
         /\ x = "certs" => k = 3 /\ Encrypting
         /\ x = "storage" => k = (IF Encrypting THEN 4 ELSE 3)
         /\ x = "bot" => k = (IF Encrypting THEN 5 ELSE 4)
         /\ x = "box" => k = (IF Encrypting THEN 8 ELSE 5)
         /\ x = "proxy" => k = 6
         /\ x = "settings" => k = 7
         /\ x = "listen" => k = (IF Encrypting THEN 9 ELSE 8)
<1> DEFINE S == Script(conf.server)
<1>1. S \in Seq(StepNames) /\ Len(S) \in Nat
  BY ScriptForms
<1>2. k < Len(S) /\ Tail(todo) = After(k + 1) /\ S[k + 1] = x
  BY <1>1, NextOf DEF At
<1>3. CASE Encrypting
  <2>1. /\ Len(S) = 10 /\ S[1] = "log" /\ S[2] = "already" /\ S[3] = "prefix" /\ S[4] = "certs"
        /\ S[5] = "storage" /\ S[6] = "bot" /\ S[7] = "proxy" /\ S[8] = "settings"
        /\ S[9] = "box" /\ S[10] = "listen"
    BY <1>3, ScriptForms DEF Encrypting
  <2>2. k \in {0, 1, 2, 3, 4, 5, 6, 7, 8, 9}
    BY <1>2, <2>1
  <2> QED
    BY <1>2, <1>3, <2>1, <2>2
<1>4. CASE ~Encrypting
  <2>1. /\ Len(S) = 9 /\ S[1] = "log" /\ S[2] = "already" /\ S[3] = "prefix" /\ S[4] = "storage"
        /\ S[5] = "bot" /\ S[6] = "box" /\ S[7] = "proxy" /\ S[8] = "settings" /\ S[9] = "listen"
    BY <1>4, ScriptForms DEF Encrypting
  <2>2. k \in {0, 1, 2, 3, 4, 5, 6, 7, 8}
    BY <1>2, <2>1
  <2> QED
    BY <1>2, <1>4, <2>1, <2>2
<1> QED
  BY <1>3, <1>4

\* A process that has just started has built nothing.
LEMMA FreshOK ==
  ASSUME NEW c \in Confs, Fresh(c), up' \in BOOLEAN,
         folder' \in Folders, certs' \in Folders, file' \in BOOLEAN
  PROVE  StartInv'
<1>1. conf' = c /\ todo' = Script(c.server)
  BY DEF Fresh
<1>2. Script(c.server) \in Seq(StepNames) /\ Len(Script(c.server)) \in {9, 10}
  BY ScriptForms
<1>3. todo' = SubSeq(Script(c.server), 0 + 1, Len(Script(c.server)))
  BY <1>1, <1>2, SubSeqFull
<1>4. todo' = After(0)'
  BY <1>1, <1>3 DEF After
<1>5. Built(0)'
  BY <1>1, <1>2 DEF Fresh, NoHandler, Built, Encrypting
<1>6. StartVarsOK'
  BY DEF Fresh, NoHandler, StartVarsOK
<1>7. 0 \in 0 .. Len(Script(conf'.server))
  BY <1>1, <1>2
<1> QED
  BY <1>4, <1>5, <1>6, <1>7 DEF StartInv

LEMMA DiesOK ==
  ASSUME StartInv, Dies, folder' \in Folders, certs' \in Folders, file' \in BOOLEAN
  PROVE  StartInv'
  BY FreshOK DEF Dies, StartInv, StartVarsOK

\* The next step of the start is made, and there is one step more that is built.
LEMMA AdvanceOK ==
  ASSUME NEW k \in 0 .. Len(Script(conf.server)), todo = After(k), NEW x, At(x), Advance,
         StartVarsOK', Built(k + 1)'
  PROVE  StartInv'
<1>1. k < Len(Script(conf.server)) /\ Tail(todo) = After(k + 1)
  BY Position
<1>2. todo' = After(k + 1)' /\ conf' = conf
  BY <1>1 DEF Advance, After
<1>3. Len(Script(conf.server)) \in {9, 10}
  BY ScriptForms
<1>4. k + 1 \in 0 .. Len(Script(conf'.server))
  BY <1>1, <1>2, <1>3
<1> QED
  BY <1>2, <1>4 DEF StartInv

LEMMA StartStepOK ==
  ASSUME StartInv, StartStep
  PROVE  StartInv'
<1>1. PICK k \in 0 .. Len(Script(conf.server)) : todo = After(k) /\ Built(k)
  BY DEF StartInv
<1>2. StartVarsOK /\ Len(Script(conf.server)) = (IF Encrypting THEN 10 ELSE 9)
  BY ScriptLength DEF StartInv
<1>3. CASE ConfigureLog
  <2>1. At("log") /\ UNCHANGED disk /\ (Dies \/ (Advance /\ UNCHANGED <<memory, goroutines>>))
    BY <1>3 DEF ConfigureLog
  <2>2. CASE Advance /\ UNCHANGED <<memory, goroutines>>
    <3>1. k = 0
      BY <1>1, <2>1, Position
    <3>2. StartVarsOK' /\ Built(k + 1)'
      BY <1>1, <1>2, <2>1, <2>2, <3>1
         DEF Advance, disk, memory, goroutines, StartVarsOK, Built, Encrypting
    <3> QED
      BY <1>1, <2>1, <2>2, <3>2, AdvanceOK
  <2>3. CASE Dies
    BY <2>1, <2>3, <1>2, DiesOK DEF disk, StartVarsOK
  <2> QED
    BY <2>1, <2>2, <2>3
<1>4. CASE CheckAlreadyRun
  <2>1. At("already") /\ UNCHANGED <<certs, file>> /\ folder' \in Folders
    BY <1>2, <1>4 DEF CheckAlreadyRun, Made, Folders, StartVarsOK
  <2>2. CASE Dies
    BY <2>1, <2>2, <1>2, DiesOK DEF StartVarsOK
  <2>3. CASE ~Dies
    <3>1. /\ Advance /\ UNCHANGED <<prefix, handler, settings, goroutines>>
          /\ initialized' = (file \/ ~Reachable(folder'))
      BY <1>4, <2>3 DEF CheckAlreadyRun
    <3>2. k = 1
      BY <1>1, <2>1, Position
    <3>3. initialized' \in BOOLEAN /\ (~initialized' => ~file)
      BY <3>1, <1>2 DEF StartVarsOK
    <3>4. StartVarsOK'
      BY <1>2, <2>1, <3>1, <3>3 DEF Advance, goroutines, StartVarsOK
    <3>5. Built(k + 1)'
      BY <1>1, <1>2, <2>1, <3>1, <3>2, <3>3 DEF Advance, goroutines, Built, Encrypting
    <3> QED
      BY <1>1, <2>1, <3>1, <3>4, <3>5, AdvanceOK
  <2> QED
    BY <2>2, <2>3
<1>5. CASE SetPrefix
  <2>1. k = 2 /\ At("prefix") /\ Advance
    BY <1>1, <1>5, Position DEF SetPrefix
  <2>2. StartVarsOK' /\ Built(k + 1)'
    BY <1>1, <1>2, <1>5, <2>1
       DEF SetPrefix, Advance, disk, goroutines, StartVarsOK, Built, Encrypting
  <2> QED
    BY <1>1, <2>1, <2>2, AdvanceOK
<1>6. CASE CheckCertDir
  <2>1. /\ At("certs") /\ UNCHANGED <<folder, file>> /\ certs' \in Folders
        /\ Dies \/ (Advance /\ UNCHANGED <<memory, goroutines>>)
    BY <1>2, <1>6 DEF CheckCertDir, Made, Folders, StartVarsOK
  <2>2. CASE Advance /\ UNCHANGED <<memory, goroutines>>
    <3>1. k = 3 /\ Encrypting
      BY <1>1, <2>1, Position
    <3>2. StartVarsOK' /\ Built(k + 1)'
      BY <1>1, <1>2, <2>1, <2>2, <3>1
         DEF Advance, memory, goroutines, StartVarsOK, Built, Encrypting
    <3> QED
      BY <1>1, <2>1, <2>2, <3>2, AdvanceOK
  <2>3. CASE Dies
    BY <2>1, <2>3, <1>2, DiesOK DEF StartVarsOK
  <2> QED
    BY <2>1, <2>2, <2>3
<1>7. CASE LaunchStorage
  <2>1. k = (IF Encrypting THEN 4 ELSE 3) /\ At("storage") /\ Advance
    BY <1>1, <1>7, Position DEF LaunchStorage
  <2>2. StartVarsOK' /\ Built(k + 1)'
    BY <1>1, <1>2, <1>7, <2>1
       DEF LaunchStorage, Advance, disk, memory, StartVarsOK, Built, Encrypting
  <2> QED
    BY <1>1, <2>1, <2>2, AdvanceOK
<1>8. CASE LaunchBot
  <2>1. k = (IF Encrypting THEN 5 ELSE 4) /\ At("bot") /\ Advance
    BY <1>1, <1>8, Position DEF LaunchBot
  <2>2. StartVarsOK' /\ Built(k + 1)'
    BY <1>1, <1>2, <1>8, <2>1
       DEF LaunchBot, Advance, disk, memory, StartVarsOK, Built, Encrypting
  <2> QED
    BY <1>1, <2>1, <2>2, AdvanceOK
<1>9. CASE ConfigureBox
  <2>1. k = (IF Encrypting THEN 8 ELSE 5) /\ At("box") /\ Advance
    BY <1>1, <1>9, Position DEF ConfigureBox
  <2>2. /\ handler' = [routes |-> prefix, wrapped |-> FALSE]
        /\ UNCHANGED <<disk, initialized, prefix, settings, goroutines>>
    BY <1>9 DEF ConfigureBox
  <2>3. StartVarsOK'
    BY <1>2, <2>1, <2>2 DEF Advance, disk, goroutines, StartVarsOK
  <2>4. Built(k + 1)'
    BY <1>1, <1>2, <2>1, <2>2 DEF Advance, disk, goroutines, Built, Encrypting
  <2> QED
    BY <1>1, <2>1, <2>3, <2>4, AdvanceOK
<1>10. CASE HandleProxy
  <2>1. k = 6 /\ At("proxy") /\ Advance
    BY <1>1, <1>10, Position DEF HandleProxy
  <2>2. /\ handler' = [handler EXCEPT !.wrapped = @ \/ conf.proxy = "enabled"]
        /\ UNCHANGED <<disk, initialized, prefix, settings, goroutines>>
    BY <1>10 DEF HandleProxy
  <2>3. /\ handler' \in [routes : {"none", "root", "prefix"}, wrapped : BOOLEAN]
        /\ handler'.routes = handler.routes
        /\ handler'.wrapped = (handler.wrapped \/ conf.proxy = "enabled")
    BY <1>2, <2>2 DEF StartVarsOK
  <2>4. StartVarsOK'
    BY <1>2, <2>1, <2>2, <2>3 DEF Advance, disk, goroutines, StartVarsOK
  <2>5. Built(k + 1)'
    BY <1>1, <1>2, <2>1, <2>2, <2>3 DEF Advance, disk, goroutines, Built, Encrypting, StartVarsOK
  <2> QED
    BY <1>1, <2>1, <2>4, <2>5, AdvanceOK
<1>11. CASE SetSettings
  <2>1. k = 7 /\ At("settings") /\ Advance
    BY <1>1, <1>11, Position DEF SetSettings
  <2>2. StartVarsOK' /\ Built(k + 1)'
    BY <1>1, <1>2, <1>11, <2>1
       DEF SetSettings, Advance, disk, goroutines, StartVarsOK, Built, Encrypting
  <2> QED
    BY <1>1, <2>1, <2>2, AdvanceOK
<1>12. CASE Listen
  <2>1. At("listen") /\ UNCHANGED disk /\ (Dies \/ (Advance /\ UNCHANGED <<memory, goroutines>>))
    BY <1>12 DEF Listen
  <2>2. CASE Advance /\ UNCHANGED <<memory, goroutines>>
    <3>1. k = (IF Encrypting THEN 9 ELSE 8)
      BY <1>1, <2>1, Position
    <3>2. StartVarsOK' /\ Built(k + 1)'
      BY <1>1, <1>2, <2>1, <2>2, <3>1
         DEF Advance, disk, memory, goroutines, StartVarsOK, Built, Encrypting
    <3> QED
      BY <1>1, <2>1, <2>2, <3>2, AdvanceOK
  <2>3. CASE Dies
    BY <2>1, <2>3, <1>2, DiesOK DEF disk, StartVarsOK
  <2> QED
    BY <2>1, <2>2, <2>3
<1> QED
  BY <1>3, <1>4, <1>5, <1>6, <1>7, <1>8, <1>9, <1>10, <1>11, <1>12 DEF StartStep

\* The steps of the goroutines, of the first configuration and of the system.
LEMMA OtherOK ==
  ASSUME StartInv, StorageOpens \/ BotStarts \/ Configure \/ Kill \/ Restart
  PROVE  StartInv'
<1>1. PICK k \in 0 .. Len(Script(conf.server)) : todo = After(k) /\ Built(k)
  BY DEF StartInv
<1>2. StartVarsOK
  BY DEF StartInv
<1>3. Len(Script(conf.server)) = (IF Encrypting THEN 10 ELSE 9)
  BY ScriptLength
<1>4. ASSUME UNCHANGED <<conf, todo>>, StartVarsOK', Built(k)'
      PROVE  StartInv'
  <2>1. After(k)' = After(k) /\ k \in 0 .. Len(Script(conf'.server))
    BY <1>4 DEF After
  <2> QED
    BY <1>1, <1>4, <2>1 DEF StartInv
<1>5. CASE StorageOpens
  <2>1. up /\ storage = "starting" /\ UNCHANGED <<folder, certs>>
    BY <1>5 DEF StorageOpens
  <2>2. CASE Dies
    <3>1. file' \in BOOLEAN
      BY <1>2, <1>5 DEF StorageOpens, StartVarsOK
    <3> QED
      BY <1>2, <2>1, <2>2, <3>1, DiesOK DEF StartVarsOK
  <2>3. CASE ~Dies
    <3>1. /\ file' = TRUE /\ storage' = "running"
          /\ UNCHANGED <<up, conf, todo, memory, bot>>
      BY <1>5, <2>3 DEF StorageOpens
    <3>2. initialized
      BY <1>1, <2>1 DEF Built
    <3>3. StartVarsOK'
      BY <1>2, <2>1, <3>1 DEF memory, StartVarsOK
    <3>4. Built(k)'
      BY <1>1, <2>1, <3>1, <3>2 DEF memory, Built, Encrypting
    <3> QED
      BY <1>4, <3>1, <3>3, <3>4
  <2> QED
    BY <2>2, <2>3
<1>6. CASE BotStarts
  <2>1. up /\ bot = "starting" /\ UNCHANGED disk
    BY <1>6 DEF BotStarts
  <2>2. CASE Dies
    BY <1>2, <2>1, <2>2, DiesOK DEF disk, StartVarsOK
  <2>3. CASE ~Dies
    <3>1. /\ conf.bot = "complete" /\ bot' \in {"running", "over"}
          /\ UNCHANGED <<up, conf, todo, memory, storage>>
      BY <1>6, <2>3 DEF BotStarts
    <3>2. StartVarsOK'
      BY <1>2, <2>1, <3>1 DEF disk, memory, StartVarsOK
    <3>3. Built(k)'
      BY <1>1, <2>1, <3>1 DEF disk, memory, Built, Encrypting
    <3> QED
      BY <1>4, <3>1, <3>2, <3>3
  <2> QED
    BY <2>2, <2>3
<1>7. CASE Configure
  <2>1. /\ todo = <<>> /\ file' = TRUE
        /\ \/ initialized' = TRUE /\ storage' = "running"
           \/ UNCHANGED <<initialized, storage>>
        /\ UNCHANGED <<folder, certs, up, conf, todo, prefix, handler, settings, bot>>
    BY <1>7 DEF Configure
  <2>2. k = (IF Encrypting THEN 10 ELSE 9)
    BY <1>1, <1>3, <2>1, NextOf
  <2>3. StartVarsOK'
    BY <1>2, <2>1 DEF StartVarsOK
  <2>4. Built(k)'
    BY <1>1, <2>1, <2>2 DEF Built, Encrypting
  <2> QED
    BY <1>4, <2>1, <2>3, <2>4
<1>8. CASE Kill
  BY <1>2, <1>8, DiesOK DEF Kill, disk, StartVarsOK
<1>9. CASE Restart
  BY <1>2, <1>9, FreshOK DEF Restart, disk, StartVarsOK
<1> QED
  BY <1>5, <1>6, <1>7, <1>8, <1>9

LEMMA StartInvariant == StartSpec => []StartInv
<1>1. StartInit => StartInv
  <2> SUFFICES ASSUME StartInit PROVE StartInv
    OBVIOUS
  <2>1. StartVarsOK
    BY DEF StartInit, NoHandler, StartVarsOK
  <2>2. Script(conf.server) \in Seq(StepNames) /\ Len(Script(conf.server)) \in {9, 10}
    BY ScriptLength
  <2>3. todo = SubSeq(Script(conf.server), 0 + 1, Len(Script(conf.server)))
    BY <2>2, SubSeqFull DEF StartInit
  <2>4. Built(0)
    BY DEF StartInit, NoHandler, Built, Encrypting
  <2>5. 0 \in 0 .. Len(Script(conf.server))
    BY <2>2
  <2> QED
    BY <2>1, <2>3, <2>4, <2>5 DEF StartInv, After
<1>2. StartInv /\ [StartNext]_startVars => StartInv'
  <2> SUFFICES ASSUME StartInv, [StartNext]_startVars PROVE StartInv'
    OBVIOUS
  <2>1. CASE UNCHANGED startVars
    BY <2>1 DEF startVars, disk, memory, goroutines, StartInv, StartVarsOK, After, Built, Encrypting
  <2> QED
    BY <2>1, StartStepOK, OtherOK DEF StartNext
<1> QED
  BY <1>1, <1>2, PTL DEF StartSpec

(***************************************************************************)
(* The start never leaves its script, also when it dies at any step and is *)
(* started again with another configuration, and a goroutine that runs has *)
(* found the database, or all keys of the bot.                             *)
(***************************************************************************)
THEOREM StartTypeCorrect == StartSpec => []StartTypeOK
<1>1. StartInv => StartTypeOK
  BY DEF StartInv, StartVarsOK, StartTypeOK, After
<1> QED
  BY <1>1, StartInvariant, PTL

(***************************************************************************)
(* What was configured is in force when the server listens, for the order  *)
(* of steps of each of the three servers.  Of the proxy wrapper of the     *)
(* Let's Encrypt server it says only that there is none that was not asked *)
(* for: its order loses the one that was.                                  *)
(***************************************************************************)
THEOREM ServesAsConfiguredHolds == StartSpec => []ServesAsConfigured
<1>1. StartInv => ServesAsConfigured
  <2> SUFFICES ASSUME StartInv, up, todo = <<>>
               PROVE  /\ settings
                      /\ handler.routes = (IF conf.proxy = "none" THEN "root" ELSE "prefix")
                      /\ handler.wrapped => conf.proxy = "enabled"
                      /\ conf.server # "letsencrypt" /\ conf.proxy = "enabled" => handler.wrapped
                      /\ initialized = (storage # "none")
                      /\ (conf.bot # "none") = (bot # "none")
    BY DEF ServesAsConfigured, Listening
  <2>1. PICK k \in 0 .. Len(Script(conf.server)) : todo = After(k) /\ Built(k)
    BY DEF StartInv
  <2>2. k = (IF Encrypting THEN 10 ELSE 9)
    BY <2>1, ScriptLength, NextOf
  <2>3. handler.wrapped \in BOOLEAN /\ initialized \in BOOLEAN
    BY DEF StartInv, StartVarsOK
  <2> QED
    BY <2>1, <2>2, <2>3 DEF Built, Encrypting
<1> QED
  BY <1>1, StartInvariant, PTL

(***************************************************************************)
(* However the folders and the database came to be as they are, the first  *)
(* configuration is offered only where there is no database.               *)
(***************************************************************************)
THEOREM OffersOnlyWhenNewHolds == StartSpec => OffersOnlyWhenNew
<1>1. StartInv /\ [StartNext]_startVars
        => [~Listening /\ Listening' /\ ~initialized' => ~file']_startVars
  <2> SUFFICES ASSUME StartInv, StartNext, ~Listening, Listening', ~initialized'
               PROVE  ~file'
    OBVIOUS
  <2>1. PICK k \in 0 .. Len(Script(conf.server)) : todo = After(k) /\ Built(k)
    BY DEF StartInv
  <2>2. Len(Script(conf.server)) = (IF Encrypting THEN 10 ELSE 9)
    BY ScriptLength
  <2>3. ASSUME NEW c, Fresh(c) PROVE todo' # <<>>
    <3>1. Script(c.server) # <<>>
      BY ScriptForms
    <3> QED
      BY <2>3, <3>1 DEF Fresh
  <2>4. ~Dies /\ ~Restart
    BY <2>3 DEF Dies, Restart, Listening
  <2>5. CASE StartStep
    <3>1. ~Dies
      BY <2>4
    <3>2. todo # <<>> /\ Advance /\ UNCHANGED file
      <4>1. CASE ConfigureLog \/ CheckAlreadyRun \/ CheckCertDir \/ Listen
        BY <3>1, <4>1 DEF ConfigureLog, CheckAlreadyRun, CheckCertDir, Listen, At, disk
      <4>2. CASE SetPrefix \/ LaunchStorage \/ LaunchBot \/ ConfigureBox \/ HandleProxy
             \/ SetSettings
        BY <4>2 DEF SetPrefix, LaunchStorage, LaunchBot, ConfigureBox, HandleProxy, SetSettings,
                    At, disk
      <4> QED
        BY <2>5, <4>1, <4>2 DEF StartStep
    <3>3. k < Len(Script(conf.server)) /\ After(k + 1) = <<>>
      BY <2>1, <2>2, <3>2, NextOf DEF Advance, Listening
    <3>4. k + 1 = Len(Script(conf.server))
      BY <3>3, AfterLength
    <3>5. Len(Script(conf.server)) \in {9, 10}
      BY <2>2
    <3>6. ~CheckAlreadyRun
      BY <2>1, <2>2, <3>4, <3>5, Position DEF CheckAlreadyRun
    <3>7. UNCHANGED initialized
      BY <2>4, <2>5, <3>6 DEF StartStep, ConfigureLog, SetPrefix, CheckCertDir,
         LaunchStorage, LaunchBot, ConfigureBox, HandleProxy, SetSettings, Listen, memory
    <3> QED
      BY <2>1, <2>2, <3>2, <3>4, <3>7 DEF Built
  <2>6. CASE StorageOpens \/ BotStarts \/ Configure
    BY <2>4, <2>6 DEF StorageOpens, BotStarts, Configure, Listening
  <2> QED
    BY <2>4, <2>5, <2>6 DEF StartNext, Kill
<1> QED
  BY <1>1, StartInvariant, PTL DEF StartSpec, OffersOnlyWhenNew

=============================================================================
