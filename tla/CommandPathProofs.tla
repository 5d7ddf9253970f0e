-------------------------- MODULE CommandPathProofs --------------------------
(* Proofs about CommandPath, for any number of frames, axes and restarts.     *)
(*                                                                            *)
(* How far a command can be torn is a matter of which stores are pending: the *)
(* fields still to be stored hold the frame before, the parameters perhaps an *)
(* older one (Old), the others the frame ProcessTask is at (Half); and a jog  *)
(* has its number stored before its command, every other frame after it, a    *)
(* configuration its parameters last, a jog and a line first (Program).  That *)
(* numbers come in order rests on a number that is not echoed being newer     *)
(* than all executed ones (Newer), and that a replay is single on the echo of *)
(* its number (Replayed).                                                     *)
EXTENDS CommandPath, TLAPS

Storing == clientPc \notin {Idle, Wait}
Pending(f) == Storing /\ \E i \in 1 .. Len(clientPc) : clientPc[i] = f

(* What is left of the stores of a frame of kind k: no field twice, the axis  *)
(* last, and the number and the command in the order of the kind.             *)
Program(k, s) ==
  /\ s \in Seq(Fields \cup {"enable"}) /\ Len(s) > 0
  /\ s[Len(s)] = "axis"
  /\ \A i, j \in 1 .. Len(s) : s[i] = s[j] => i = j
  /\ \A i \in 1 .. Len(s) :
       /\ k = "JOG" /\ s[i] = "num" => \E j \in i + 1 .. Len(s) : s[j] = "command"
       /\ k # "JOG" /\ s[i] = "command" => \E j \in i + 1 .. Len(s) : s[j] = "num"
       /\ s[i] = "params" => k \in ParamKinds
       /\ k \in ParamsFirst /\ s[i] = "params" => \E j \in i + 1 .. Len(s) : s[j] = "num"
       /\ k \in ParamsFirst /\ s[i] = "params" => \E j \in i + 1 .. Len(s) : s[j] = "command"
       /\ k \in ParamKinds \ ParamsFirst /\ s[i] \in {"num", "command"} =>
            \E j \in i + 1 .. Len(s) : s[j] = "params"

AtFrame ==
  /\ Storing => Program(frame.kind, clientPc) /\ frame.id = frames
  /\ cmd.num.id <= frames /\ cmd.axis.id <= frames
  /\ Pending("num") => cmd.num.id < frame.id

(* The threads run until the task quits; then it has commands left to write.  *)
TaskAt ==
  /\ threads_running <=> taskPc = "run"
  /\ taskPc # "exit" => Len(todo) > 0
  /\ taskPc = "copy" => copied < Len(CopyOrder)

Exclusive ==
  /\ handlerPc \in {"locked", "give"} => command_mutex /\ taskPc \notin {"copy", "give"}
  /\ taskPc \in {"copy", "give"} => command_mutex

Newer ==
  threads_running =>
    /\ \A i \in 1 .. Len(executed) : executed[i].num.id <= cmd.num.id
    /\ commandNum # commandNumEcho =>
         \A i \in 1 .. Len(executed) : executed[i].num.id < cmd.num.id
    /\ NumbersInOrder

Replayed ==
  fresh = 0 /\ threads_running =>
    /\ ~Storing
    /\ Len(executed) = 0 => ~enabling
    /\ Len(executed) # 0 => /\ commandNum = commandNumEcho /\ Len(executed) = 1
                            /\ enabling => executed[1].command.kind = "MOTION_ENABLE"

(* The frame a field holds while ProcessTask is at frame.                     *)
Held(f) == IF Pending(f) THEN cmd.axis ELSE frame

(* Parameters of the last frame that had any, up to the one whose axis is     *)
(* stored.                                                                    *)
Old(q) == q.id <= cmd.axis.id /\ (cmd.axis.kind \in ParamKinds => q = cmd.axis)

Half ==
  threads_running =>
    /\ ~Storing => /\ cmd.command = cmd.axis /\ cmd.num = cmd.axis /\ cmd.axis.id = frames
                   /\ Old(cmd.params)
    /\ Storing  => /\ frame.id = cmd.axis.id + 1
                   /\ cmd.command = Held("command") /\ cmd.num = Held("num")
                   /\ Pending("params") \/ frame.kind \notin ParamKinds => Old(cmd.params)
                   /\ ~Pending("params") /\ frame.kind \in ParamKinds => cmd.params = frame

(* What TearIsBounded says of one snapshot.                                   *)
Bounded(e) == Neighbours(e) /\ OwnParams(e)

Torn == Half /\ (threads_running => \A i \in 1 .. Len(executed) : Bounded(executed[i]))

IInv == TypeOK /\ TaskAt /\ AtFrame /\ Exclusive /\ Newer /\ Replayed

USE DEF shm, clientVars, taskVars, Controller

------------------------------------------------------------------------------
(* The stores of every kind of frame are a program of it (Stores).            *)
LEMMA StoresAreProgram ==
  ASSUME NEW k \in DOMAIN Stores
  PROVE  /\ Program(k, Stores[k])
         /\ \A f \in {"num", "command"} : \E i \in 1 .. Len(Stores[k]) : Stores[k][i] = f
         /\ k \in ParamKinds => \E i \in 1 .. Len(Stores[k]) : Stores[k][i] = "params"
<1> USE DEF ParamKinds, ParamsFirst
<1>1. k \in {"DOWNLOADS_CONFIG", "AXIS_ENABLE", "AXIS_DISABLE", "MOTION_ENABLE", "MOTION_DISABLE",
             "JOG", "JOG_ABORT", "SET_LINE", "SET_FREE", "SET_COORD"}
  BY DEF Stores
<1>2. /\ k = "JOG" => Stores[k] = <<"params", "num", "command", "axis">>
      /\ k = "DOWNLOADS_CONFIG" => Stores[k] = <<"command", "num", "params", "axis">>
      /\ k = "SET_LINE" => Stores[k] = <<"params", "command", "num", "axis">>
      /\ k \notin ParamKinds => Stores[k] \in {<<"enable", "command", "num", "axis">>,
                                               <<"command", "num", "axis">>}
  BY <1>1 DEF Stores
<1>5. CASE k = "JOG"
  <2>1. PICK s : s = Stores[k] /\ s = <<"params", "num", "command", "axis">>
    BY <1>2, <1>5
  <2>2. s \in Seq(Fields \cup {"enable"}) /\ Len(s) = 4
    BY <2>1 DEF Fields
  <2>3. s[1] = "params" /\ s[2] = "num" /\ s[3] = "command" /\ s[4] = "axis"
    BY <2>1
  <2>4. Program(k, s)
    BY <1>5, <2>1, <2>2, <2>3 DEF Program
  <2>5. QED
    BY <2>1, <2>2, <2>3, <2>4
<1>6. CASE k = "DOWNLOADS_CONFIG"
  <2>1. PICK s : s = Stores[k] /\ s = <<"command", "num", "params", "axis">>
    BY <1>2, <1>6
  <2>2. s \in Seq(Fields \cup {"enable"}) /\ Len(s) = 4
    BY <2>1 DEF Fields
  <2>3. s[1] = "command" /\ s[2] = "num" /\ s[3] = "params" /\ s[4] = "axis"
    BY <2>1
  <2>4. Program(k, s)
    BY <1>6, <2>1, <2>2, <2>3 DEF Program
  <2>5. QED
    BY <2>1, <2>2, <2>3, <2>4
<1>7. CASE k = "SET_LINE"
  <2>1. PICK s : s = Stores[k] /\ s = <<"params", "command", "num", "axis">>
    BY <1>2, <1>7
  <2>2. s \in Seq(Fields \cup {"enable"}) /\ Len(s) = 4
    BY <2>1 DEF Fields
  <2>3. s[1] = "params" /\ s[2] = "command" /\ s[3] = "num" /\ s[4] = "axis"
    BY <2>1
  <2>4. Program(k, s)
    BY <1>7, <2>1, <2>2, <2>3 DEF Program
  <2>5. QED
    BY <2>1, <2>2, <2>3, <2>4
<1>8. CASE k \notin ParamKinds
  <2>1. CASE Stores[k] = <<"enable", "command", "num", "axis">>
    BY <1>8, <2>1 DEF Program, Fields
  <2>2. CASE Stores[k] = <<"command", "num", "axis">>
    BY <1>8, <2>2 DEF Program, Fields
  <2>3. QED
    BY <1>2, <1>8, <2>1, <2>2
<1>9. QED
  BY <1>5, <1>6, <1>7, <1>8

(* One store on, a program is left, without the field just stored.            *)
LEMMA TailIsProgram ==
  ASSUME NEW k, NEW s, Program(k, s), Len(s) # 1
  PROVE  /\ Program(k, Tail(s))
         /\ \A f : (\E i \in 1 .. Len(Tail(s)) : Tail(s)[i] = f)
                     <=> f # Head(s) /\ (\E i \in 1 .. Len(s) : s[i] = f)
<1> DEFINE t == Tail(s)
<1>1. s \in Seq(Fields \cup {"enable"}) /\ Len(s) \in Nat /\ Len(s) > 1
  <2>1. s \in Seq(Fields \cup {"enable"}) /\ Len(s) > 0
    BY Zenon DEF Program
  <2>2. QED
    BY <2>1
<1>2. /\ t \in Seq(Fields \cup {"enable"}) /\ Len(t) = Len(s) - 1
      /\ \A i \in 1 .. Len(t) : t[i] = s[i + 1]
  BY <1>1
<1>3. Head(s) = s[1]
  BY <1>1
<1> HIDE DEF t
<1>4. Len(t) > 0 /\ t[Len(t)] = "axis"
  BY <1>1, <1>2 DEF Program
<1>5. \A i, j \in 1 .. Len(t) : t[i] = t[j] => i = j
  BY <1>1, <1>2 DEF Program
<1>6. ASSUME NEW i \in 1 .. Len(t), k = "JOG", t[i] = "num"
      PROVE  \E j \in i + 1 .. Len(t) : t[j] = "command"
  <2>1. PICK j \in i + 2 .. Len(s) : s[j] = "command"
    BY <1>1, <1>2, <1>6 DEF Program
  <2>2. j - 1 \in i + 1 .. Len(t) /\ t[j - 1] = "command"
    BY <1>1, <1>2, <2>1
  <2>3. QED
    BY <2>2
<1>7. ASSUME NEW i \in 1 .. Len(t), k # "JOG", t[i] = "command"
      PROVE  \E j \in i + 1 .. Len(t) : t[j] = "num"
  <2>1. PICK j \in i + 2 .. Len(s) : s[j] = "num"
    BY <1>1, <1>2, <1>7 DEF Program
  <2>2. j - 1 \in i + 1 .. Len(t) /\ t[j - 1] = "num"
    BY <1>1, <1>2, <2>1
  <2>3. QED
    BY <2>2
<1>11. ASSUME NEW i \in 1 .. Len(t), k \in ParamsFirst, t[i] = "params"
      PROVE  \E j \in i + 1 .. Len(t) : t[j] = "num"
  <2>1. PICK j \in i + 2 .. Len(s) : s[j] = "num"
    BY <1>1, <1>2, <1>11 DEF Program
  <2>2. j - 1 \in i + 1 .. Len(t) /\ t[j - 1] = "num"
    BY <1>1, <1>2, <2>1
  <2>3. QED
    BY <2>2
<1>12. ASSUME NEW i \in 1 .. Len(t), k \in ParamsFirst, t[i] = "params"
      PROVE  \E j \in i + 1 .. Len(t) : t[j] = "command"
  <2>1. PICK j \in i + 2 .. Len(s) : s[j] = "command"
    BY <1>1, <1>2, <1>12 DEF Program
  <2>2. j - 1 \in i + 1 .. Len(t) /\ t[j - 1] = "command"
    BY <1>1, <1>2, <2>1
  <2>3. QED
    BY <2>2
<1>13. ASSUME NEW i \in 1 .. Len(t), k \in ParamKinds \ ParamsFirst, t[i] \in {"num", "command"}
      PROVE  \E j \in i + 1 .. Len(t) : t[j] = "params"
  <2>1. PICK j \in i + 2 .. Len(s) : s[j] = "params"
    BY <1>1, <1>2, <1>13 DEF Program
  <2>2. j - 1 \in i + 1 .. Len(t) /\ t[j - 1] = "params"
    BY <1>1, <1>2, <2>1
  <2>3. QED
    BY <2>2
<1>14. ASSUME NEW i \in 1 .. Len(t), t[i] = "params"
      PROVE  k \in ParamKinds
  BY <1>1, <1>2, <1>14 DEF Program
<1>8. Program(k, t)
  BY <1>2, <1>4, <1>5, <1>6, <1>7, <1>11, <1>12, <1>13, <1>14 DEF Program
<1>9. ASSUME NEW f
      PROVE  (\E i \in 1 .. Len(t) : t[i] = f) <=> f # Head(s) /\ (\E i \in 1 .. Len(s) : s[i] = f)
  <2>1. ASSUME NEW i \in 1 .. Len(t), t[i] = f
        PROVE  f # Head(s) /\ (\E j \in 1 .. Len(s) : s[j] = f)
    BY <1>1, <1>2, <1>3, <2>1 DEF Program
  <2>2. ASSUME f # Head(s), NEW i \in 1 .. Len(s), s[i] = f
        PROVE  \E j \in 1 .. Len(t) : t[j] = f
    <3>1. i - 1 \in 1 .. Len(t) /\ t[i - 1] = f
      BY <1>1, <1>2, <1>3, <2>2
    <3>2. QED
      BY <3>1
  <2>3. QED
    BY <2>1, <2>2
<1>10. QED
  BY <1>8, <1>9 DEF t

LEMMA CopyLen == Len(CopyOrder) = 4
  BY DEF CopyOrder

(* What the task writes at its shutdown.                                      *)
LEMMA TaskCommandsType ==
  TaskCommands \in Seq({"JOG_ABORT", "ABORT", "MOTION_DISABLE"}) /\ Len(TaskCommands) > 0
  BY BoundsAreNat DEF TaskCommands

(* What sequences of a set are made of and grow by.                           *)
LEMMA SeqFacts ==
  ASSUME NEW S, NEW s \in Seq(S)
  PROVE  /\ \A e \in S : Append(s, e) \in Seq(S)
         /\ Len(s) > 0 => Head(s) \in S /\ Tail(s) \in Seq(S) /\ Len(Tail(s)) = Len(s) - 1
         /\ Len(s) \in Nat
  OBVIOUS

------------------------------------------------------------------------------
(* Initial states.                                                            *)
LEMMA InitIInv == Init => IInv
<1> SUFFICES ASSUME Init PROVE IInv
  OBVIOUS
<1>1. TaskCommands \in Seq({"JOG_ABORT", "ABORT", "MOTION_DISABLE"}) /\ Len(TaskCommands) > 0
  BY TaskCommandsType
<1>2. TypeOK
  <2>1. NoFrame \in Frame
    BY DEF NoFrame, Frame
  <2>2. cmd \in [Fields -> Frame] /\ frame \in Frame
    BY <2>1 DEF Init
  <2>3. clientPc \in Seq(Fields \cup {"enable", "idle", "wait"})
    BY DEF Init, Idle
  <2>4. /\ commandNum \in Nat /\ commandNumEcho \in Nat /\ frames \in Nat /\ fresh \in Nat
        /\ handlerPc = "idle" /\ taskPc = "run" /\ copied \in 0 .. Len(CopyOrder) /\ restarts \in Nat
    BY CopyLen DEF Init
  <2>7. /\ command_mutex \in BOOLEAN /\ enabling \in BOOLEAN /\ coordAsked \in BOOLEAN
        /\ threads_running \in BOOLEAN
    BY Zenon DEF Init
  <2>5. /\ reported \in Seq({"JOG_ABORT", "ABORT", "MOTION_DISABLE"})
        /\ executed \in Seq([Fields -> Frame])
        /\ todo \in Seq({"JOG_ABORT", "ABORT", "MOTION_DISABLE"})
    BY <1>1 DEF Init
  <2>6. QED
    BY <2>2, <2>3, <2>4, <2>5, <2>7 DEF TypeOK
<1>3. ~Storing
  BY DEF Init, Storing, Idle
<1>4. TaskAt
  BY <1>1 DEF Init, TaskAt
<1>5. cmd.num = NoFrame /\ cmd.axis = NoFrame /\ cmd.command = NoFrame
  BY DEF Init, Fields
<1>6. AtFrame
  BY <1>3, <1>5 DEF Init, AtFrame, Pending, NoFrame
<1>7. Exclusive /\ Newer /\ Replayed
  BY <1>3 DEF Init, Exclusive, Newer, NumbersInOrder, Replayed
<1>8. QED
  BY <1>2, <1>4, <1>6, <1>7 DEF IInv

------------------------------------------------------------------------------
(* Every step keeps the types.                                                *)
LEMMA TypeStep == TypeOK /\ AtFrame /\ TaskAt /\ [Next]_vars => TypeOK'
<1> SUFFICES ASSUME TypeOK, AtFrame, TaskAt, [Next]_vars PROVE TypeOK'
  OBVIOUS
<1> USE DEF TypeOK
<1>1. CASE ClientCall
  BY <1>1 DEF ClientCall, Idle, Wait
<1>2. ASSUME NEW k \in Kinds, ClientTake(k) PROVE TypeOK'
  <2>1. Program(k, Stores[k]) /\ k \in DOMAIN Stores
    BY StoresAreProgram, KindsAreCommands
  <2>2. clientPc' \in Seq(Fields \cup {"enable", "idle", "wait"})
    BY <1>2, <2>1 DEF ClientTake, Program
  <2>3. QED
    BY <1>2, <2>1, <2>2 DEF ClientTake, Frame
<1>3. CASE ClientDrop
  BY <1>3 DEF ClientDrop, Idle, Wait
<1>4. CASE ClientStore
  <2>1. Storing /\ Program(frame.kind, clientPc)
    BY <1>4 DEF ClientStore, Storing, AtFrame
  <2>2. clientPc' \in Seq(Fields \cup {"enable", "idle", "wait"})
    BY <1>4, <2>1 DEF ClientStore, Program, Idle
  <2>3. cmd' \in [Fields -> Frame] /\ commandNum' \in Nat
    BY <1>4 DEF ClientStore
  <2>4. QED
    BY <1>4, <2>2, <2>3 DEF ClientStore
<1>5. CASE HandlerCall \/ HandlerTry \/ HandlerGive
  BY <1>5 DEF HandlerCall, HandlerTry, HandlerGive
<1>6. CASE emcmotCommandHandler_locked
  <2>1. Append(executed, cmd) \in Seq([Fields -> Frame])
    BY SeqFacts
  <2>2. executed' \in Seq([Fields -> Frame])
    BY <1>6, <2>1 DEF emcmotCommandHandler_locked
  <2>3. commandNumEcho' \in Nat /\ enabling' \in BOOLEAN /\ handlerPc' = "give"
    BY <1>6 DEF emcmotCommandHandler_locked
  <2>4. coordAsked' \in BOOLEAN
    BY <1>6, Zenon DEF emcmotCommandHandler_locked
  <2>5. QED
    BY <1>6, <2>2, <2>3, <2>4 DEF emcmotCommandHandler_locked
<1>7. CASE Quit \/ TaskGet \/ TaskGive
  <2>1. CASE Quit
    BY <2>1 DEF Quit
  <2>2. CASE TaskGet
    BY <2>2, CopyLen DEF TaskGet
  <2>3. CASE TaskGive
    BY <2>3 DEF TaskGive
  <2>4. QED
    BY <1>7, <2>1, <2>2, <2>3
<1>8. CASE TaskCopy
  <2>1. Head(todo) \in {"JOG_ABORT", "ABORT", "MOTION_DISABLE"}
    BY <1>8, SeqFacts DEF TaskCopy, TaskAt
  <2>2. [id |-> 0, kind |-> Head(todo)] \in Frame
    BY <2>1 DEF Frame, Stores
  <2>3. cmd' \in [Fields -> Frame]
    BY <1>8, <2>2 DEF TaskCopy
  <2>4. commandNum' \in Nat /\ copied' \in 0 .. Len(CopyOrder) /\ taskPc' \in {"give", "copy"}
    BY <1>8 DEF TaskCopy, TaskAt, CopyOrder
  <2>5. QED
    BY <1>8, <2>3, <2>4 DEF TaskCopy
<1>9. CASE TaskPoll
  <2>1. Head(todo) \in {"JOG_ABORT", "ABORT", "MOTION_DISABLE"}
        /\ Tail(todo) \in Seq({"JOG_ABORT", "ABORT", "MOTION_DISABLE"})
    BY <1>9, SeqFacts DEF TaskPoll, TaskAt
  <2>2. Append(reported, Head(todo)) \in Seq({"JOG_ABORT", "ABORT", "MOTION_DISABLE"})
    BY <2>1, SeqFacts
  <2>3. QED
    BY <1>9, <2>1, <2>2 DEF TaskPoll
<1>10. CASE Restart
  <2>1. NoFrame \in Frame /\ Idle \in Seq(Fields \cup {"enable", "idle", "wait"})
    BY DEF NoFrame, Frame, Idle
  <2>2. /\ frame' \in Frame /\ clientPc' \in Seq(Fields \cup {"enable", "idle", "wait"})
        /\ handlerPc' = "idle" /\ taskPc' = "run" /\ copied' = 0 /\ fresh' = 0 /\ commandNumEcho' = 0
        /\ restarts' \in Nat
    BY <1>10, <2>1 DEF Restart
  <2>6. enabling' \in BOOLEAN /\ threads_running' \in BOOLEAN /\ coordAsked' \in BOOLEAN
    BY Zenon, <1>10 DEF Restart
  <2>3. /\ reported' \in Seq({"JOG_ABORT", "ABORT", "MOTION_DISABLE"})
        /\ executed' \in Seq([Fields -> Frame])
        /\ todo' \in Seq({"JOG_ABORT", "ABORT", "MOTION_DISABLE"})
    BY <1>10, TaskCommandsType DEF Restart
  <2>4. /\ cmd' \in [Fields -> Frame] /\ commandNum' \in Nat /\ command_mutex' \in BOOLEAN
        /\ frames' \in Nat
    BY <1>10 DEF Restart
  <2>5. QED
    BY <2>2, <2>3, <2>4, <2>6, CopyLen
<1>11. CASE UNCHANGED vars
  BY <1>11 DEF vars
<1>12. QED
  BY <1>1, <1>2, <1>3, <1>4, <1>5, <1>6, <1>7, <1>8, <1>9, <1>10, <1>11
     DEF Next, ProcessTask, emcmotCommandHandler, usrmotWriteEmcmotCommand

------------------------------------------------------------------------------
(* The task writes its commands after it has stopped the threads.             *)
LEMMA TaskStep == TypeOK /\ TaskAt /\ [Next]_vars => TaskAt'
<1> SUFFICES ASSUME TypeOK, TaskAt, [Next]_vars PROVE TaskAt'
  OBVIOUS
<1> USE DEF TaskAt
<1>0. Len(todo) \in Nat
  BY SeqFacts DEF TypeOK
<1>1. CASE ProcessTask \/ emcmotCommandHandler
  <2>1. UNCHANGED taskVars
    BY <1>1 DEF ProcessTask, ClientCall, ClientTake, ClientDrop, ClientStore, emcmotCommandHandler,
                HandlerCall, HandlerTry, emcmotCommandHandler_locked, HandlerGive
  <2>2. QED
    BY <2>1
<1>2. CASE Quit
  BY <1>2 DEF Quit
<1>3. CASE TaskGet
  BY <1>3, CopyLen DEF TaskGet
<1>4. CASE TaskCopy
  BY <1>4, CopyLen DEF TaskCopy, TypeOK
<1>5. CASE TaskGive
  BY <1>5 DEF TaskGive
<1>6. CASE TaskPoll
  <2>1. Len(Tail(todo)) = Len(todo) - 1
    BY <1>6, SeqFacts DEF TaskPoll, TypeOK
  <2>2. /\ taskPc = "poll" /\ ~threads_running /\ Len(todo) > 0
        /\ todo' = Tail(todo) /\ UNCHANGED <<threads_running, copied>>
        /\ taskPc' = IF Len(todo) = 1 THEN "exit" ELSE "get"
    BY <1>6 DEF TaskPoll
  <2>3. ~threads_running' /\ taskPc' \in {"exit", "get"}
    BY <2>2
  <2>4. taskPc' # "exit" => Len(todo) # 1
    BY <2>2
  <2>5. Len(todo') = Len(todo) - 1
    BY <2>1, <2>2
  <2>6. Len(todo) # 1 => Len(todo) - 1 > 0
    BY <1>0, <2>2
  <2>7. taskPc' # "exit" => Len(todo') > 0
    BY <2>4, <2>5, <2>6
  <2>8. QED
    BY <2>3, <2>7
<1>7. CASE Restart
  BY <1>7, TaskCommandsType DEF Restart
<1>8. CASE UNCHANGED vars
  BY <1>8 DEF vars
<1>9. QED
  BY <1>1, <1>2, <1>3, <1>4, <1>5, <1>6, <1>7, <1>8 DEF Next, usrmotWriteEmcmotCommand

(* The handler and the task exclude each other by command_mutex.              *)
LEMMA ExclusiveStep == TypeOK /\ Exclusive /\ [Next]_vars => Exclusive'
<1> SUFFICES ASSUME TypeOK, Exclusive, [Next]_vars PROVE Exclusive'
  OBVIOUS
<1> USE DEF Exclusive
<1>1. CASE ProcessTask
  BY <1>1 DEF ProcessTask, ClientCall, ClientTake, ClientDrop, ClientStore
<1>2. CASE emcmotCommandHandler
  BY <1>2 DEF emcmotCommandHandler, HandlerCall, HandlerTry, emcmotCommandHandler_locked,
              HandlerGive
<1>3. CASE Quit \/ usrmotWriteEmcmotCommand
  BY <1>3 DEF Quit, usrmotWriteEmcmotCommand, TaskGet, TaskCopy, TaskGive, TaskPoll
<1>4. CASE Restart
  BY <1>4 DEF Restart
<1>5. CASE UNCHANGED vars
  BY <1>5 DEF vars
<1>6. QED
  BY <1>1, <1>2, <1>3, <1>4, <1>5 DEF Next

(* The steps that leave the frame, its stores and the stored fields alone.    *)
LEMMA OtherSteps ==
  ASSUME \/ HandlerCall \/ HandlerTry \/ HandlerGive \/ emcmotCommandHandler_locked
         \/ Quit \/ TaskGet \/ TaskGive \/ TaskPoll \/ UNCHANGED vars
  PROVE  UNCHANGED <<cmd, commandNum, clientPc, frame, frames, fresh>>
  BY DEF HandlerCall, HandlerTry, HandlerGive, emcmotCommandHandler_locked, Quit, TaskGet, TaskGive,
         TaskPoll, vars

(* A frame just taken has all its stores before it.                           *)
LEMMA TakeFacts ==
  ASSUME NEW k \in Kinds, ClientTake(k)
  PROVE  /\ Storing' /\ Program(frame'.kind, clientPc')
         /\ \A f \in {"num", "command"} : \E i \in 1 .. Len(clientPc') : clientPc'[i] = f
         /\ frame'.kind \in ParamKinds => \E i \in 1 .. Len(clientPc') : clientPc'[i] = "params"
<1>1. /\ Program(k, Stores[k])
      /\ \A f \in {"num", "command"} : \E i \in 1 .. Len(Stores[k]) : Stores[k][i] = f
      /\ k \in ParamKinds => \E i \in 1 .. Len(Stores[k]) : Stores[k][i] = "params"
  BY StoresAreProgram, KindsAreCommands
<1>2. clientPc' = Stores[k] /\ frame'.kind = k
  BY DEF ClientTake
<1>3. Idle # clientPc' /\ Wait # clientPc'
  <2>1. Stores[k][Len(Stores[k])] = "axis"
    BY <1>1, Zenon DEF Program
  <2>2. Idle[Len(Idle)] = "idle" /\ Wait[Len(Wait)] = "wait"
    BY DEF Idle, Wait
  <2>3. QED
    BY <1>2, <2>1, <2>2
<1>4. QED
  BY <1>1, <1>2, <1>3 DEF Storing

(* A store takes the first field off what is pending.                         *)
LEMMA StoreFacts ==
  ASSUME TypeOK, AtFrame, ClientStore
  PROVE  /\ Storing /\ Program(frame.kind, clientPc)
         /\ Storing' => Program(frame.kind, clientPc') /\ Head(clientPc) # "axis"
         /\ ~Storing' => Head(clientPc) = "axis"
         /\ \A f : Pending(f)' <=> Pending(f) /\ f # Head(clientPc)
<1>1. Storing /\ Program(frame.kind, clientPc)
  BY DEF ClientStore, Storing, AtFrame
<1>2. clientPc \in Seq(Fields \cup {"enable"}) /\ Len(clientPc) > 0 /\ clientPc[Len(clientPc)] = "axis"
  BY Zenon, <1>1 DEF Program
<1>3. Head(clientPc) = clientPc[1] /\ Len(clientPc) \in Nat
  BY <1>2
<1>4. \A i, j \in 1 .. Len(clientPc) : clientPc[i] = clientPc[j] => i = j
  BY Zenon, <1>1 DEF Program
<1>5. CASE Len(clientPc) = 1
  <2>1. clientPc' = Idle /\ ~Storing'
    BY <1>5 DEF ClientStore, Storing
  <2>2. \A f : ~Pending(f)'
    BY <2>1 DEF Pending
  <2>3. \A f : Pending(f) => f = Head(clientPc)
    BY <1>3, <1>5 DEF Pending
  <2>4. QED
    BY <1>1, <1>2, <1>3, <1>5, <2>1, <2>2, <2>3
<1>6. CASE Len(clientPc) # 1
  <2>1. clientPc' = Tail(clientPc)
    BY <1>6 DEF ClientStore
  <2>2. /\ Program(frame.kind, clientPc')
        /\ \A f : (\E i \in 1 .. Len(clientPc') : clientPc'[i] = f)
              <=> f # Head(clientPc) /\ (\E i \in 1 .. Len(clientPc) : clientPc[i] = f)
    <3>1. /\ Program(frame.kind, Tail(clientPc))
          /\ \A f : (\E i \in 1 .. Len(Tail(clientPc)) : Tail(clientPc)[i] = f)
                <=> f # Head(clientPc) /\ (\E i \in 1 .. Len(clientPc) : clientPc[i] = f)
      BY <1>1, <1>6, TailIsProgram
    <3>2. QED
      BY <2>1, <3>1, Zenon
  <2>3. Head(clientPc) # "axis"
    <3>1. 1 \in 1 .. Len(clientPc) /\ Len(clientPc) \in 1 .. Len(clientPc)
      BY <1>2, <1>3
    <3>2. clientPc[1] # clientPc[Len(clientPc)]
      BY <1>4, <1>6, <3>1, Zenon
    <3>3. QED
      BY <1>2, <1>3, <3>2
  <2>4. Storing'
    <3>1. clientPc'[Len(clientPc')] = "axis"
      BY <2>2, Zenon DEF Program
    <3>2. Idle[Len(Idle)] = "idle" /\ Wait[Len(Wait)] = "wait"
      BY DEF Idle, Wait
    <3>3. QED
      BY <3>1, <3>2 DEF Storing
  <2>5. QED
    BY <1>1, <2>2, <2>3, <2>4 DEF Pending
<1>7. QED
  BY <1>5, <1>6

(* A frame at which ProcessTask is is the last one taken, and newer than the  *)
(* one whose number is stored as long as its own is not.                      *)
LEMMA AtFrameStep == TypeOK /\ AtFrame /\ [Next]_vars => AtFrame'
<1> SUFFICES ASSUME TypeOK, AtFrame, [Next]_vars PROVE AtFrame'
  OBVIOUS
<1>0. frames \in Nat /\ cmd.num.id \in Nat /\ cmd.axis.id \in Nat /\ cmd \in [Fields -> Frame]
  BY DEF TypeOK, Fields, Frame
<1>1. CASE ClientCall \/ ClientDrop \/ Restart
  <2>1. ~Storing' /\ frames' >= frames /\ UNCHANGED cmd
    BY <1>0, <1>1 DEF ClientCall, ClientDrop, Restart, Storing, Idle, Wait
  <2>2. frames' \in Nat
    BY <1>0, <1>1 DEF ClientCall, ClientDrop, Restart
  <2>3. QED
    BY <1>0, <2>1, <2>2 DEF AtFrame, Pending
<1>2. ASSUME NEW k \in Kinds, ClientTake(k) PROVE AtFrame'
  <2>1. frames' = frames + 1 /\ frame'.id = frames + 1 /\ UNCHANGED cmd
    BY <1>2 DEF ClientTake
  <2>2. QED
    BY <1>0, <1>2, <2>1, TakeFacts DEF AtFrame
<1>3. CASE ClientStore
  <2>1. /\ Storing /\ Program(frame.kind, clientPc) /\ (Storing' => Program(frame.kind, clientPc'))
        /\ \A f : Pending(f)' <=> Pending(f) /\ f # Head(clientPc)
    BY <1>3, StoreFacts
  <2>2. UNCHANGED <<frame, frames>> /\ frame.id = frames
    BY <1>3, <2>1 DEF ClientStore, AtFrame
  <2>3. /\ cmd'.num = IF Head(clientPc) = "num" THEN frame ELSE cmd.num
        /\ cmd'.axis = IF Head(clientPc) = "axis" THEN frame ELSE cmd.axis
    BY <1>0, <1>3 DEF ClientStore, Fields
  <2>4. cmd'.num.id <= frames' /\ cmd'.axis.id <= frames'
    BY <1>0, <2>2, <2>3 DEF AtFrame
  <2>5. Pending("num")' => cmd'.num.id < frame'.id
    BY <2>1, <2>2, <2>3 DEF AtFrame
  <2>6. QED
    BY <2>1, <2>2, <2>4, <2>5 DEF AtFrame
<1>4. CASE TaskCopy
  <2>1. UNCHANGED <<clientPc, frame, frames>>
    BY <1>4 DEF TaskCopy
  <2>2. cmd'.num.id \in {cmd.num.id, 0} /\ cmd'.axis.id \in {cmd.axis.id, 0}
    BY <1>0, <1>4 DEF TaskCopy, Fields
  <2>3. Pending("num")' <=> Pending("num")
    BY <2>1 DEF Pending, Storing
  <2>6. frame.id \in Nat
    BY DEF TypeOK, Frame
  <2>4. Pending("num") => frame.id > 0
    BY <1>0, <2>6 DEF AtFrame
  <2>5. QED
    BY <1>0, <2>1, <2>2, <2>3, <2>4 DEF AtFrame, Storing
<1>5. CASE UNCHANGED <<cmd, commandNum, clientPc, frame, frames, fresh>>
  BY <1>5 DEF AtFrame, Pending, Storing
<1>6. QED
  BY <1>1, <1>2, <1>3, <1>4, <1>5, OtherSteps
     DEF Next, ProcessTask, emcmotCommandHandler, usrmotWriteEmcmotCommand

(* Numbers are executed in order.                                             *)
LEMMA NewerStep == TypeOK /\ TaskAt /\ AtFrame /\ Newer /\ [Next]_vars => Newer'
<1> SUFFICES ASSUME TypeOK, TaskAt, AtFrame, Newer, [Next]_vars PROVE Newer'
  OBVIOUS
<1>0. /\ cmd \in [Fields -> Frame] /\ cmd.num.id \in Nat /\ frames \in Nat /\ Len(executed) \in Nat
      /\ commandNum \in Nat
      /\ \A i \in 1 .. Len(executed) : executed[i].num.id \in Nat
  <2>1. \A e \in [Fields -> Frame] : e.num.id \in Nat
    BY DEF Fields, Frame
  <2>2. executed \in Seq([Fields -> Frame]) /\ cmd \in [Fields -> Frame]
    BY DEF TypeOK
  <2>3. Len(executed) \in Nat /\ \A i \in 1 .. Len(executed) : executed[i] \in [Fields -> Frame]
    BY <2>2
  <2>4. QED
    BY <2>1, <2>2, <2>3 DEF TypeOK
<1>1. CASE Restart
  BY <1>1 DEF Restart, Newer, NumbersInOrder
<1>2. CASE Quit \/ usrmotWriteEmcmotCommand
  <2>1. ~threads_running'
    BY <1>2 DEF Quit, usrmotWriteEmcmotCommand, TaskGet, TaskCopy, TaskGive, TaskPoll, TaskAt
  <2>2. QED
    BY <2>1 DEF Newer
<1>3. CASE ClientStore
  <2>1. Storing /\ Program(frame.kind, clientPc)
    BY <1>3, StoreFacts
  <2>2. clientPc[1] = Head(clientPc) /\ 1 \in 1 .. Len(clientPc)
    <3>1. clientPc \in Seq(Fields \cup {"enable"}) /\ Len(clientPc) > 0
      BY Zenon, <2>1 DEF Program
    <3>2. QED
      BY <3>1
  <2>3. Head(clientPc) = "num" => cmd.num.id < frame.id
    BY <2>1, <2>2 DEF AtFrame, Pending
  <2>4. CASE Head(clientPc) = "num"
    <3>1. cmd'.num = frame /\ UNCHANGED <<executed, threads_running, commandNumEcho>>
      BY <1>0, <1>3, <2>4 DEF ClientStore, Fields
    <3>2. frame.id \in Nat
      BY DEF TypeOK, Frame
    <3>3. threads_running => \A i \in 1 .. Len(executed) : executed[i].num.id < frame.id
      BY <1>0, <2>3, <2>4, <3>2 DEF Newer
    <3>4. QED
      BY <1>0, <3>1, <3>2, <3>3 DEF Newer, NumbersInOrder
  <2>5. CASE Head(clientPc) # "num"
    <3>1. cmd'.num = cmd.num /\ UNCHANGED <<executed, threads_running, commandNumEcho, commandNum>>
      BY <1>0, <1>3, <2>5 DEF ClientStore, Fields
    <3>2. QED
      BY <3>1 DEF Newer, NumbersInOrder
  <2>6. QED
    BY <2>4, <2>5
<1>4. CASE emcmotCommandHandler_locked
  <2>1. CASE commandNum = commandNumEcho
    BY <1>4, <2>1 DEF emcmotCommandHandler_locked, Newer, NumbersInOrder
  <2>2. CASE commandNum # commandNumEcho
    <3>1. /\ executed' = Append(executed, cmd) /\ commandNumEcho' = commandNum
          /\ UNCHANGED <<cmd, commandNum, threads_running>>
      BY <1>4, <2>2 DEF emcmotCommandHandler_locked
    <3>2. /\ Len(executed') = Len(executed) + 1 /\ executed'[Len(executed) + 1] = cmd
          /\ \A i \in 1 .. Len(executed) : executed'[i] = executed[i]
      BY <1>0, <3>1 DEF TypeOK
    <3>3. threads_running =>
            /\ \A i \in 1 .. Len(executed) : executed[i].num.id < cmd.num.id
            /\ \A i, j \in 1 .. Len(executed) : i < j => executed[i].num.id < executed[j].num.id
      BY <2>2 DEF Newer, NumbersInOrder, TypeOK
    <3>4. threads_running => \A i \in 1 .. Len(executed') : executed'[i].num.id <= cmd.num.id
      BY <1>0, <3>2, <3>3
    <3>5. threads_running => \A i, j \in 1 .. Len(executed') : i < j => executed'[i].num.id < executed'[j].num.id
      <4> SUFFICES ASSUME threads_running, NEW i \in 1 .. Len(executed'), NEW j \in 1 .. Len(executed'), i < j
                   PROVE  executed'[i].num.id < executed'[j].num.id
        OBVIOUS
      <4>1. i \in 1 .. Len(executed) /\ (j \in 1 .. Len(executed) \/ j = Len(executed) + 1)
        BY <1>0, <3>2
      <4>2. CASE j \in 1 .. Len(executed)
        BY <3>2, <3>3, <4>1, <4>2
      <4>3. CASE j = Len(executed) + 1
        BY <3>2, <3>3, <4>1, <4>3
      <4>4. QED
        BY <4>1, <4>2, <4>3
    <3>6. DOMAIN executed' = 1 .. Len(executed')
      BY <3>1 DEF TypeOK
    <3>7. QED
      BY <3>1, <3>4, <3>5, <3>6 DEF Newer, NumbersInOrder
  <2>3. QED
    BY <2>1, <2>2
<1>5. CASE UNCHANGED <<cmd, commandNum, commandNumEcho, threads_running, executed>>
  BY <1>5 DEF Newer, NumbersInOrder
<1>6. ClientCall \/ (\E k \in Kinds : ClientTake(k)) \/ ClientDrop \/ HandlerCall \/ HandlerTry \/ HandlerGive
        \/ UNCHANGED vars
        => UNCHANGED <<cmd, commandNum, commandNumEcho, threads_running, executed>>
  BY DEF ClientCall, ClientTake, ClientDrop, HandlerCall, HandlerTry, HandlerGive, vars
<1>7. QED
  BY <1>1, <1>2, <1>3, <1>4, <1>5, <1>6 DEF Next, ProcessTask, emcmotCommandHandler

------------------------------------------------------------------------------
(* Before a frame has come, what runs is the command an earlier process left, *)
(* and its number is echoed.                                                  *)
LEMMA ReplayedStep == TypeOK /\ TaskAt /\ AtFrame /\ Replayed /\ [Next]_vars => Replayed'
<1> SUFFICES ASSUME TypeOK, TaskAt, AtFrame, Replayed, [Next]_vars PROVE Replayed'
  OBVIOUS
<1>0. fresh \in Nat /\ Len(executed) \in Nat /\ executed \in Seq([Fields -> Frame])
  BY DEF TypeOK
<1>1. CASE Restart
  BY <1>1 DEF Restart, Replayed, Storing, Idle
<1>2. CASE Quit \/ usrmotWriteEmcmotCommand
  <2>1. ~threads_running'
    BY <1>2 DEF Quit, usrmotWriteEmcmotCommand, TaskGet, TaskCopy, TaskGive, TaskPoll, TaskAt
  <2>2. QED
    BY <2>1 DEF Replayed
<1>3. CASE \E k \in Kinds : ClientTake(k)
  <2>1. fresh' = fresh + 1
    BY <1>3 DEF ClientTake
  <2>2. QED
    BY <1>0, <2>1 DEF Replayed
<1>4. CASE ClientStore
  <2>1. Storing /\ UNCHANGED <<fresh, threads_running>>
    BY <1>4 DEF ClientStore, Storing
  <2>2. QED
    BY <2>1 DEF Replayed
<1>5. CASE ClientCall \/ ClientDrop
  BY <1>5 DEF ClientCall, ClientDrop, Replayed, Storing, Wait, Idle
<1>6. CASE emcmotCommandHandler_locked
  <2>1. UNCHANGED <<cmd, commandNum, clientPc, fresh, threads_running>>
    BY <1>6 DEF emcmotCommandHandler_locked
  <2>2. CASE commandNum = commandNumEcho
    BY <1>6, <2>1, <2>2 DEF emcmotCommandHandler_locked, Replayed, Storing
  <2>3. CASE commandNum # commandNumEcho
    <3>1. /\ executed' = Append(executed, cmd) /\ commandNumEcho' = commandNum
          /\ enabling' = CASE cmd.command.kind = "MOTION_ENABLE"  -> TRUE
                           [] cmd.command.kind = "MOTION_DISABLE" -> FALSE
                           [] OTHER -> enabling
      BY <1>6, <2>3 DEF emcmotCommandHandler_locked
    <3>2. Len(executed') = Len(executed) + 1 /\ executed'[Len(executed) + 1] = cmd
      BY <1>0, <3>1 DEF TypeOK
    <3>3. fresh = 0 /\ threads_running => Len(executed) = 0 /\ ~enabling /\ ~Storing
      BY <2>3 DEF Replayed
    <3>4. ~enabling /\ enabling' => cmd.command.kind = "MOTION_ENABLE"
      BY <3>1
    <3>5. Storing' <=> Storing
      BY <2>1 DEF Storing
    <3>6. fresh = 0 /\ threads_running => Len(executed') = 1 /\ executed'[1] = cmd
      BY <3>2, <3>3
    <3>7. QED
      BY <2>1, <3>1, <3>3, <3>4, <3>5, <3>6 DEF Replayed
  <2>4. QED
    BY <2>2, <2>3
<1>7. CASE UNCHANGED <<commandNum, commandNumEcho, enabling, clientPc, fresh, threads_running, executed>>
  BY <1>7 DEF Replayed, Storing
<1>8. HandlerCall \/ HandlerTry \/ HandlerGive \/ UNCHANGED vars
        => UNCHANGED <<commandNum, commandNumEcho, enabling, clientPc, fresh, threads_running, executed>>
  BY DEF HandlerCall, HandlerTry, HandlerGive, vars
<1>9. QED
  BY <1>1, <1>2, <1>3, <1>4, <1>5, <1>6, <1>7, <1>8 DEF Next, ProcessTask, emcmotCommandHandler

------------------------------------------------------------------------------
(* Every reachable state satisfies the strengthened invariant.                *)
THEOREM CommandInvariant == Spec => []IInv
<1>1. IInv /\ [Next]_vars => IInv'
  <2>1. SUFFICES ASSUME IInv, [Next]_vars PROVE IInv'
    OBVIOUS
  <2>2. TypeOK /\ TaskAt /\ AtFrame /\ Exclusive /\ Newer /\ Replayed
    BY <2>1 DEF IInv
  <2>3. TypeOK' /\ TaskAt' /\ AtFrame' /\ Exclusive' /\ Newer' /\ Replayed'
    BY <2>1, <2>2, TypeStep, TaskStep, AtFrameStep, ExclusiveStep, NewerStep, ReplayedStep
  <2>4. QED
    BY <2>3 DEF IInv
<1>2. QED
  BY <1>1, InitIInv, PTL DEF Spec

(* Every variable keeps its type, however often the program is started again  *)
(* (the command structure and command_mutex of src/motion/motion.h).          *)
THEOREM CommandTypeCorrect == Spec => []TypeOK
<1>1. IInv => TypeOK
  BY DEF IInv
<1>2. QED
  BY <1>1, CommandInvariant, PTL

(* The handler never executes a command the task has only half copied: it     *)
(* holds command_mutex while it reads (command.c:531), and the task while it  *)
(* copies (usrmotWriteEmcmotCommand).                                         *)
THEOREM TaskCopyIsIsolated == Spec => []TaskCopyIsolated
<1>1. IInv => TaskCopyIsolated
  BY DEF IInv, Exclusive, TaskCopyIsolated
<1>2. QED
  BY <1>1, CommandInvariant, PTL

(* No number is handled twice nor out of order by emcmotCommandHandler, while *)
(* the threads run.                                                           *)
THEOREM NumbersAreInOrder == Spec => []NumbersInOrder
<1>1. IInv => NumbersInOrder
  BY DEF IInv, Newer, NumbersInOrder
<1>2. QED
  BY <1>1, CommandInvariant, PTL

(* A program that is started on the memory of an earlier one replays at most  *)
(* the one command it finds there (init_motion_comm_buffers resets the echo). *)
THEOREM ReplayIsOnce == Spec => []ReplayIsSingle
<1>1. IInv => ReplayIsSingle
  <2> SUFFICES ASSUME IInv, fresh = 0, threads_running
               PROVE  /\ Len(executed) <= 1
                      /\ enabling => executed # <<>> /\ executed[1].command.kind = "MOTION_ENABLE"
    BY DEF ReplayIsSingle
  <2>1. Len(executed) \in Nat
    BY DEF IInv, TypeOK
  <2>2. /\ Len(executed) = 0 => ~enabling
        /\ Len(executed) # 0 => Len(executed) = 1 /\ (enabling => executed[1].command.kind = "MOTION_ENABLE")
    BY DEF IInv, Replayed
  <2>3. Len(<<>>) = 0
    OBVIOUS
  <2>4. enabling => executed # <<>>
    BY <2>2, <2>3
  <2>5. Len(executed) <= 1
    <3>1. Len(executed) # 0 => Len(executed) = 1
      BY <2>2, Zenon
    <3>2. Len(executed) = 0 \/ Len(executed) = 1
      BY <3>1, Zenon
    <3>3. CASE Len(executed) = 0
      BY <3>3
    <3>4. CASE Len(executed) = 1
      BY <3>4
    <3>5. QED
      BY <3>2, <3>3, <3>4, Zenon
  <2>6. enabling => executed[1].command.kind = "MOTION_ENABLE"
    BY <2>2, Zenon
  <2>7. QED
    BY <2>4, <2>5, <2>6, Zenon
<1>2. QED
  BY <1>1, CommandInvariant, PTL

------------------------------------------------------------------------------
(* The fields stored and pending belong to two frames only.                   *)
LEMMA HalfStep ==
  ASSUME TypeOK, AtFrame, TaskAt, Half, MaxRestarts = 0, [Next]_vars
  PROVE  Half'
<1>0. /\ cmd \in [Fields -> Frame] /\ cmd.axis.id \in Nat /\ cmd.params.id \in Nat
      /\ frames \in Nat /\ restarts \in Nat /\ frame.id \in Nat
  BY DEF TypeOK, Fields, Frame
<1>1. ~Restart
  BY <1>0 DEF Restart
<1>2. CASE Quit \/ usrmotWriteEmcmotCommand
  <2>1. ~threads_running'
    BY <1>2 DEF Quit, usrmotWriteEmcmotCommand, TaskGet, TaskCopy, TaskGive, TaskPoll, TaskAt
  <2>2. QED
    BY <2>1 DEF Half
<1>3. CASE ClientCall \/ ClientDrop
  <2>1. ~Storing /\ ~Storing' /\ UNCHANGED <<cmd, frames, threads_running>>
    BY <1>3 DEF ClientCall, ClientDrop, Storing, Idle, Wait
  <2>2. QED
    BY <2>1 DEF Half, Old
<1>4. ASSUME NEW k \in Kinds, ClientTake(k) PROVE Half'
  <2>1. ~Storing /\ UNCHANGED <<cmd, threads_running>> /\ frame'.id = frames + 1
    BY <1>4 DEF ClientTake, Storing, Wait
  <2>2. /\ Storing' /\ Pending("command")' /\ Pending("num")'
        /\ frame'.kind \in ParamKinds => Pending("params")'
    BY <1>4, TakeFacts DEF Pending
  <2>3. threads_running => frame'.id = cmd.axis.id + 1 /\ Old(cmd.params)
    BY <1>0, <2>1 DEF Half
  <2>4. QED
    BY <2>1, <2>2, <2>3 DEF Half, Held, Old
<1>5. CASE ClientStore
  <2>1. /\ Storing /\ Program(frame.kind, clientPc)
        /\ Storing' => Head(clientPc) # "axis"
        /\ ~Storing' => Head(clientPc) = "axis"
        /\ \A f : Pending(f)' <=> Pending(f) /\ f # Head(clientPc)
    BY <1>5, StoreFacts
  <2>2. \A f \in {"num", "command", "params", "axis"} :
           cmd'[f] = IF Head(clientPc) = f THEN frame ELSE cmd[f]
    BY <1>0, <1>5 DEF ClientStore, Fields
  <2>3. UNCHANGED <<frame, frames, threads_running>> /\ frame.id = frames
    BY <1>5, <2>1 DEF ClientStore, AtFrame
  <2>4. Head(clientPc) = "params" => frame.kind \in ParamKinds
    <3>1. clientPc \in Seq(Fields \cup {"enable"}) /\ Len(clientPc) > 0
      BY Zenon, <2>1 DEF Program
    <3>2. Head(clientPc) = clientPc[1] /\ 1 \in 1 .. Len(clientPc)
      BY <3>1
    <3>3. \A i \in 1 .. Len(clientPc) : clientPc[i] = "params" => frame.kind \in ParamKinds
      BY Zenon, <2>1 DEF Program
    <3>4. QED
      BY <3>2, <3>3
  <2>5. threads_running =>
          /\ frame.id = cmd.axis.id + 1 /\ cmd.command = Held("command") /\ cmd.num = Held("num")
          /\ Pending("params") \/ frame.kind \notin ParamKinds => Old(cmd.params)
          /\ ~Pending("params") /\ frame.kind \in ParamKinds => cmd.params = frame
    BY <2>1, Zenon DEF Half
  <2>6. CASE Storing'
    <3>1. cmd'.axis = cmd.axis
      BY <2>1, <2>2, <2>6
    <3>2. threads_running => cmd'.command = Held("command")'
      BY <2>1, <2>2, <2>3, <2>5, <3>1 DEF Held
    <3>3. threads_running => cmd'.num = Held("num")'
      BY <2>1, <2>2, <2>3, <2>5, <3>1 DEF Held
    <3>4. CASE Head(clientPc) = "params"
      <4>1. ~Pending("params")' /\ cmd'.params = frame /\ frame.kind \in ParamKinds
        BY <2>1, <2>2, <2>4, <3>4
      <4>2. QED
        BY <2>3, <2>5, <2>6, <3>1, <3>2, <3>3, <4>1 DEF Half
    <3>5. CASE Head(clientPc) # "params"
      <4>1. (Pending("params")' <=> Pending("params")) /\ cmd'.params = cmd.params
        BY <2>1, <2>2, <3>5
      <4>2. Old(cmd.params)' <=> Old(cmd.params)
        BY <3>1, <4>1 DEF Old
      <4>3. QED
        BY <2>3, <2>5, <2>6, <3>1, <3>2, <3>3, <4>1, <4>2 DEF Half
    <3>6. QED
      BY <3>4, <3>5
  <2>7. CASE ~Storing'
    <3>1. Head(clientPc) = "axis" /\ ~Pending("num") /\ ~Pending("command") /\ ~Pending("params")
      BY <2>1, <2>7 DEF Pending
    <3>2. /\ cmd'.axis = frame /\ cmd'.num = cmd.num /\ cmd'.command = cmd.command
          /\ cmd'.params = cmd.params
      BY <2>2, <3>1
    <3>3. threads_running => cmd'.command = frame /\ cmd'.num = frame
      BY <2>5, <3>1, <3>2 DEF Held
    <3>4. threads_running => Old(cmd.params)'
      <4>1. CASE frame.kind \in ParamKinds
        BY <1>0, <2>5, <3>1, <3>2, <4>1 DEF Old
      <4>2. CASE frame.kind \notin ParamKinds
        BY <1>0, <2>5, <3>1, <3>2, <4>2 DEF Old
      <4>3. QED
        BY <4>1, <4>2
    <3>5. QED
      BY <2>3, <2>7, <3>2, <3>3, <3>4 DEF Half
  <2>8. QED
    BY <2>6, <2>7
<1>6. CASE HandlerCall \/ HandlerTry \/ HandlerGive \/ emcmotCommandHandler_locked \/ UNCHANGED vars
  <2>1. UNCHANGED <<cmd, clientPc, frame, frames, threads_running>>
    BY <1>6 DEF HandlerCall, HandlerTry, HandlerGive, emcmotCommandHandler_locked, vars
  <2>2. QED
    BY <2>1 DEF Half, Held, Pending, Storing, Old
<1>7. QED
  BY <1>1, <1>2, <1>3, <1>4, <1>5, <1>6 DEF Next, ProcessTask, emcmotCommandHandler

(* Hence what the handler finds is torn within bounds.                        *)
LEMMA CommandBounded ==
  ASSUME TypeOK, AtFrame, Half, threads_running
  PROVE  Bounded(cmd)
<1> USE DEF Bounded, Neighbours, OwnParams
<1>0. /\ cmd.axis.id \in Nat /\ cmd.num.id \in Nat /\ cmd.command.id \in Nat /\ cmd.params.id \in Nat
      /\ frame.id \in Nat
  BY DEF TypeOK, Fields, Frame
<1>1. CASE ~Storing
  <2>1. cmd.command = cmd.axis /\ cmd.num = cmd.axis /\ Old(cmd.params)
    BY <1>1 DEF Half
  <2>2. QED
    BY <1>0, <2>1 DEF Old
<1>2. CASE Storing
  <2>1. Program(frame.kind, clientPc)
    BY <1>2 DEF AtFrame
  <2>2. \A i \in 1 .. Len(clientPc) :
          /\ frame.kind = "JOG" /\ clientPc[i] = "num" => \E j \in i + 1 .. Len(clientPc) : clientPc[j] = "command"
          /\ frame.kind # "JOG" /\ clientPc[i] = "command" => \E j \in i + 1 .. Len(clientPc) : clientPc[j] = "num"
          /\ frame.kind \in ParamsFirst /\ clientPc[i] = "params" => \E j \in i + 1 .. Len(clientPc) : clientPc[j] = "num"
          /\ frame.kind \in ParamsFirst /\ clientPc[i] = "params" => \E j \in i + 1 .. Len(clientPc) : clientPc[j] = "command"
          /\ frame.kind \in ParamKinds \ ParamsFirst /\ clientPc[i] \in {"num", "command"} =>
               \E j \in i + 1 .. Len(clientPc) : clientPc[j] = "params"
    BY Zenon, <2>1 DEF Program
  <2>3. Len(clientPc) \in Nat
    BY DEF TypeOK
  <2>4. /\ frame.kind = "JOG" /\ Pending("num") => Pending("command")
        /\ frame.kind # "JOG" /\ Pending("command") => Pending("num")
        /\ frame.kind \in ParamsFirst /\ Pending("params") => Pending("num") /\ Pending("command")
        /\ frame.kind \in ParamKinds \ ParamsFirst /\ (Pending("num") \/ Pending("command")) =>
             Pending("params")
    BY <1>2, <2>2, <2>3 DEF Pending
  <2>5. /\ frame.id = cmd.axis.id + 1 /\ cmd.command = Held("command") /\ cmd.num = Held("num")
        /\ Pending("params") \/ frame.kind \notin ParamKinds => Old(cmd.params)
        /\ ~Pending("params") /\ frame.kind \in ParamKinds => cmd.params = frame
    BY <1>2 DEF Half
  <2>6. "JOG" \in ParamsFirst /\ ParamKinds \ ParamsFirst = {"DOWNLOADS_CONFIG"}
        /\ ParamsFirst \subseteq ParamKinds
    BY DEF ParamKinds, ParamsFirst
  <2>7. CASE Pending("command") /\ Pending("num")
    <3>1. cmd.command = cmd.axis /\ cmd.num = cmd.axis
      BY <2>5, <2>7 DEF Held
    <3>2. Old(cmd.params) \/ (cmd.params = frame /\ frame.kind \in ParamsFirst)
      <4>1. CASE Pending("params") \/ frame.kind \notin ParamKinds
        BY <2>5, <4>1, Zenon
      <4>2. CASE ~Pending("params") /\ frame.kind \in ParamKinds
        <5>1. frame.kind \notin ParamKinds \ ParamsFirst
          BY <2>4, <2>7, <4>2, Zenon
        <5>2. QED
          BY <2>5, <4>2, <5>1
      <4>3. QED
        BY <4>1, <4>2
    <3>3. QED
      BY <1>0, <2>5, <2>6, <3>1, <3>2 DEF Old
  <2>8. CASE Pending("command") /\ ~Pending("num")
    <3>1. cmd.command = cmd.axis /\ cmd.num = frame /\ frame.kind = "JOG" /\ cmd.params = frame
      BY <2>4, <2>5, <2>6, <2>8 DEF Held
    <3>2. QED
      BY <1>0, <2>5, <2>6, <3>1
  <2>9. CASE ~Pending("command") /\ Pending("num")
    <3>1. cmd.command = frame /\ cmd.num = cmd.axis /\ frame.kind # "JOG"
      BY <2>4, <2>5, <2>9 DEF Held
    <3>2. CASE frame.kind \in ParamsFirst
      BY <1>0, <2>4, <2>5, <2>6, <2>9, <3>1, <3>2
    <3>3. CASE frame.kind \notin ParamsFirst
      <4>1. Old(cmd.params)
        BY <2>4, <2>5, <2>9, <3>3
      <4>2. QED
        BY <1>0, <2>5, <2>6, <3>1, <3>3, <4>1 DEF Old
    <3>4. QED
      BY <3>2, <3>3
  <2>10. CASE ~Pending("command") /\ ~Pending("num")
    <3>1. cmd.command = frame /\ cmd.num = frame
      BY <2>5, <2>10 DEF Held
    <3>2. cmd.params = frame \/ (Old(cmd.params) /\ frame.kind \notin ParamsFirst)
      <4>1. CASE frame.kind \in ParamsFirst
        <5>1. ~Pending("params")
          BY <2>4, <2>10, <4>1, Zenon
        <5>2. frame.kind \in ParamKinds
          BY <2>6, <4>1, Zenon
        <5>3. QED
          BY <2>5, <5>1, <5>2, Zenon
      <4>2. CASE frame.kind \notin ParamsFirst
        BY <2>5, <4>2
      <4>3. QED
        BY <4>1, <4>2
    <3>3. QED
      BY <1>0, <2>5, <2>6, <3>1, <3>2 DEF Old
  <2>11. QED
    BY <2>7, <2>8, <2>9, <2>10
<1>3. QED
  BY <1>1, <1>2

(* And so is what it has executed.                                            *)
LEMMA TornStep ==
  ASSUME TypeOK, AtFrame, TaskAt, Torn, MaxRestarts = 0, [Next]_vars
  PROVE  Torn'
<1>1. Half'
  BY HalfStep DEF Torn
<1>2. SUFFICES ASSUME threads_running' PROVE \A i \in 1 .. Len(executed') : Bounded(executed'[i])
  BY <1>1 DEF Torn
<1>3. restarts \in Nat /\ executed \in Seq([Fields -> Frame])
  BY DEF TypeOK
<1>4. ~Restart
  BY <1>3 DEF Restart
<1>5. CASE emcmotCommandHandler_locked
  <2>1. threads_running
    BY <1>2, <1>5 DEF emcmotCommandHandler_locked
  <2>2. Bounded(cmd) /\ \A i \in 1 .. Len(executed) : Bounded(executed[i])
    BY <2>1, CommandBounded DEF Torn
  <2>3. CASE executed' = executed
    BY <2>2, <2>3
  <2>4. CASE executed' = Append(executed, cmd)
    <3>1. /\ Len(executed') = Len(executed) + 1 /\ executed'[Len(executed) + 1] = cmd
          /\ \A i \in 1 .. Len(executed) : executed'[i] = executed[i]
      BY <1>3, <2>4 DEF TypeOK
    <3> SUFFICES ASSUME NEW i \in 1 .. Len(executed') PROVE Bounded(executed'[i])
      OBVIOUS
    <3>2. i \in 1 .. Len(executed) \/ i = Len(executed) + 1
      BY <1>3, <3>1
    <3>3. executed'[i] = cmd \/ \E j \in 1 .. Len(executed) : executed'[i] = executed[j]
      BY <3>1, <3>2
    <3>4. QED
      BY <2>2, <3>3, Zenon
  <2>5. QED
    BY <1>5, <2>3, <2>4 DEF emcmotCommandHandler_locked
<1>6. CASE ~emcmotCommandHandler_locked
  <2>1. UNCHANGED executed /\ threads_running
    BY <1>2, <1>4, <1>6
       DEF Next, ProcessTask, ClientCall, ClientTake, ClientDrop, ClientStore, emcmotCommandHandler,
           HandlerCall, HandlerTry, HandlerGive, Quit, usrmotWriteEmcmotCommand, TaskGet, TaskCopy,
           TaskGive, TaskPoll, vars
  <2>2. QED
    BY <2>1, Zenon DEF Torn
<1>7. QED
  BY <1>5, <1>6

(* As long as no earlier process has left a command behind, the command, the  *)
(* number and the axis of a torn command come from two frames stored one      *)
(* after the other, in the way the order of the stores of ProcessTask allows; *)
(* its parameters are its own, those of the jog or line right after it, or,   *)
(* for a configuration only, older ones.                                      *)
THEOREM TearsAreBounded == MaxRestarts = 0 => (Spec => []TearIsBounded)
<1> SUFFICES ASSUME MaxRestarts = 0 PROVE Spec => []TearIsBounded
  OBVIOUS
<1>1. Init => Torn
  <2> SUFFICES ASSUME Init PROVE Torn
    OBVIOUS
  <2>1. ~Storing /\ Len(executed) = 0
    BY DEF Init, Storing, Idle
  <2>2. cmd.num = NoFrame /\ cmd.axis = NoFrame /\ cmd.command = NoFrame /\ cmd.params = NoFrame
    BY DEF Init, Fields
  <2>3. frames = 0 /\ NoFrame.id = 0 /\ cmd.axis.id = 0
    BY <2>2 DEF Init, NoFrame
  <2>4. QED
    BY <2>1, <2>2, <2>3 DEF Torn, Half, Old
<1>2. IInv /\ Torn /\ [Next]_vars => Torn'
  BY TornStep DEF IInv
<1>3. IInv /\ Torn => TearIsBounded
  <2> SUFFICES ASSUME IInv, Torn PROVE TearIsBounded
    OBVIOUS
  <2>1. TypeOK /\ DOMAIN executed = 1 .. Len(executed)
    BY DEF IInv, TypeOK
  <2>2. QED
    BY <2>1 DEF Torn, Bounded, TearIsBounded
<1>4. QED
  BY <1>1, <1>2, <1>3, CommandInvariant, PTL DEF Spec
=============================================================================
