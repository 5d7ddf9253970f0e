----------------------------- MODULE CommandPath -----------------------------
(* The command structure emcmotStruct->command and the three threads that     *)
(* meet there:                                                                *)
(*   - client_p (priority 96): ProcessTask of src/hal/hpsocket.c stores a     *)
(*     frame field by field, without command_mutex;                           *)
(*   - motion-thread (priority 98, the same CPU): emcmotCommandHandler of     *)
(*     src/motion/command.c executes what it finds there under a number it    *)
(*     has not echoed yet, after trying command_mutex;                        *)
(*   - the task (another CPU): at shutdown it stops the threads and writes    *)
(*     its last commands under command_mutex (usrmotWriteEmcmotCommand).      *)
(* The structure lives in System V shared memory, which outlives the process. *)
(*                                                                            *)
(* A field holds the frame whose value was stored there last, so a snapshot   *)
(* whose fields hold different frames is a torn command.  A definition named  *)
(* D_Something is a mutated form of D that no action uses.                    *)
EXTENDS Integers, Sequences

CONSTANTS
  Kinds,            \* commands the peer sends, a subset of DOMAIN Stores
  EMCMOT_MAX_AXIS,  \* number of jog aborts the task writes at shutdown
  MayQuit,          \* may a signal end the program?
  MaxFrames,        \* bound: frames of one behaviour
  MaxRestarts       \* bound: times the program is started again

(* The stores of ProcessTask per command, in program order ("params" stands   *)
(* for every parameter field the command fills in).  "num" is commandNum++.   *)
Stores_ParamsLast == [
  k \in {"DOWNLOADS_CONFIG", "AXIS_ENABLE", "AXIS_DISABLE", "MOTION_ENABLE", "MOTION_DISABLE",
         "JOG", "JOG_ABORT", "SET_LINE", "SET_FREE", "SET_COORD"} |->
     IF k = "JOG" THEN <<"num", "command", "params", "axis">>
                  ELSE <<"command", "num", "params", "axis">> ]

Stores == [
  DOWNLOADS_CONFIG |-> <<"command", "num", "params", "axis">>,
  AXIS_ENABLE      |-> <<"enable", "command", "num", "axis">>,
  AXIS_DISABLE     |-> <<"enable", "command", "num", "axis">>,
  MOTION_ENABLE    |-> <<"command", "num", "axis">>,
  MOTION_DISABLE   |-> <<"command", "num", "axis">>,
  JOG              |-> <<"params", "num", "command", "axis">>,
  JOG_ABORT        |-> <<"command", "num", "axis">>,
  SET_LINE         |-> <<"params", "command", "num", "axis">>,
  SET_FREE         |-> <<"command", "num", "axis">>,
  SET_COORD        |-> <<"command", "num", "axis">> ]

ASSUME KindsAreCommands == Kinds \subseteq DOMAIN Stores
ASSUME BoundsAreNat == MaxFrames \in Nat /\ MaxRestarts \in Nat /\ EMCMOT_MAX_AXIS \in Nat
ASSUME MayQuitIsBoolean == MayQuit \in BOOLEAN

Fields == {"command", "num", "params", "axis"}

(* The commands that fill parameters in, and those that do so before anything *)
(* else.                                                                      *)
ParamKinds  == {"DOWNLOADS_CONFIG", "JOG", "SET_LINE"}
ParamsFirst == {"JOG", "SET_LINE"}

(* Frames of the peer are numbered from 1; frame 0 is the task's.             *)
NoFrame == [id |-> 0, kind |-> "none"]

VARIABLES
  cmd,             \* emcmotCommand: for every field the frame it came from
  commandNum,      \* emcmotCommand->commandNum
  command_mutex,   \* is the bit of command_mutex set?
  commandNumEcho,  \* emcmotStatus->commandNumEcho
  enabling,        \* emcmotInternal->enabling
  coordAsked,      \* has the coordinated mode been asked for, ever?
  threads_running, \* hal_data->threads_running
  clientPc, frame, \* client_p: the stores still to make, and the frame
  frames,          \* commands taken from the ring so far
  fresh,           \* commands taken from the ring since the program started
  handlerPc,       \* motion-thread
  taskPc, todo,    \* the task: where it is, and the commands still to write
  copied,          \* fields of the task's command copied so far
  reported,        \* history: commands the task was told had been received
  executed,        \* history: snapshots the handler executed since start
  restarts

shm        == <<cmd, commandNum, command_mutex, commandNumEcho, enabling, coordAsked>>
clientVars == <<clientPc, frame, frames, fresh>>
taskVars   == <<threads_running, taskPc, todo, copied, reported>>
vars       == <<shm, clientVars, handlerPc, taskVars, executed, restarts>>

Idle == <<"idle">>
Wait == <<"wait">>

(* What emcMotionAbort and emcTrajDisable write.                              *)
TaskCommands == [i \in 1 .. EMCMOT_MAX_AXIS |-> "JOG_ABORT"] \o <<"ABORT", "MOTION_DISABLE">>

(* Order of the fields in emcmot_command_t, as the structure copy meets them. *)
CopyOrder == <<"command", "num", "params", "axis">>

Init ==
  /\ cmd = [f \in Fields |-> NoFrame]
  /\ commandNum = 0
  /\ command_mutex = FALSE
  /\ commandNumEcho = 0
  /\ enabling = FALSE
  /\ coordAsked = FALSE
  /\ threads_running = TRUE
  /\ clientPc = Idle /\ frame = NoFrame /\ frames = 0 /\ fresh = 0
  /\ handlerPc = "idle"
  /\ taskPc = "run" /\ todo = TaskCommands /\ copied = 0 /\ reported = <<>>
  /\ executed = <<>>
  /\ restarts = 0

------------------------------------------------------------------------------
(* client_p.  The motion thread has the higher priority and shares its CPU,   *)
(* so client_p moves only while the handler is not running.                   *)

ClientCall ==
  /\ clientPc = Idle
  /\ handlerPc = "idle"
  /\ threads_running
  /\ clientPc' = Wait
  /\ UNCHANGED <<shm, frame, frames, fresh, handlerPc, taskVars, executed, restarts>>

(* A frame arrives; ProcessTask decodes it and enters its case.               *)
ClientTake(k) ==
  /\ clientPc = Wait
  /\ handlerPc = "idle"
  /\ frames < MaxFrames
  /\ frames' = frames + 1
  /\ fresh' = fresh + 1
  /\ frame' = [id |-> frames + 1, kind |-> k]
  /\ clientPc' = Stores[k]
  /\ UNCHANGED <<shm, handlerPc, taskVars, executed, restarts>>

(* A frame with too short a payload or an unknown command changes nothing (it *)
(* is not counted among the frames).                                          *)
ClientDrop ==
  /\ clientPc = Wait
  /\ handlerPc = "idle"
  /\ clientPc' = Idle
  /\ UNCHANGED <<shm, frame, frames, fresh, handlerPc, taskVars, executed, restarts>>

ClientStore ==
  /\ clientPc \notin {Idle, Wait}
  /\ handlerPc = "idle"
  /\ LET f == Head(clientPc)
     IN  /\ cmd' = IF f \in Fields THEN [cmd EXCEPT ![f] = frame] ELSE cmd
         /\ commandNum' = IF f = "num" THEN commandNum + 1 ELSE commandNum
  /\ clientPc' = IF Len(clientPc) = 1 THEN Idle ELSE Tail(clientPc)
  /\ UNCHANGED <<command_mutex, commandNumEcho, enabling, coordAsked, frame, frames, fresh,
                 handlerPc, taskVars, executed, restarts>>

ProcessTask == ClientCall \/ (\E k \in Kinds : ClientTake(k)) \/ ClientDrop \/ ClientStore

------------------------------------------------------------------------------
(* motion-thread: one period of thread_task, as far as the handler goes.      *)

(* The controller, which the period goes on to.  In coordinated mode with     *)
(* axis 0 inactive the loop of control.c:580 never ends, and the motion       *)
(* thread keeps the CPU.  Whether the mode is entered yet, still in force,    *)
(* and axis 0 active is MotionControl's matter and left open here: it takes   *)
(* motion enabled, and the mode asked for at some time.                       *)
Controller == IF enabling /\ coordAsked THEN {"idle", "spin"} ELSE {"idle"}

HandlerCall ==
  /\ handlerPc = "idle"
  /\ threads_running
  /\ handlerPc' = "try"
  /\ UNCHANGED <<shm, clientVars, taskVars, executed, restarts>>

HandlerTry_GoesOn ==
  /\ handlerPc = "try"
  /\ command_mutex' = TRUE
  /\ handlerPc' = "locked"
  /\ UNCHANGED <<cmd, commandNum, commandNumEcho, enabling, coordAsked, clientVars, taskVars,
                 executed, restarts>>

HandlerTry ==
  /\ handlerPc = "try"
  /\ command_mutex' = TRUE
  /\ IF command_mutex THEN handlerPc' \in Controller ELSE handlerPc' = "locked"
  /\ UNCHANGED <<cmd, commandNum, commandNumEcho, enabling, coordAsked, clientVars, taskVars,
                 executed, restarts>>

(* The dispatch on a command whose number has not been echoed.  Of what the   *)
(* commands do, the requests to enable motion and for a mode matter here.     *)
emcmotCommandHandler_locked_NoEcho ==
  /\ handlerPc = "locked"
  /\ handlerPc' = "give"
  /\ IF commandNum # commandNumEcho
       THEN executed' = Append(executed, cmd)
       ELSE UNCHANGED executed
  /\ Len(executed) < 3
  /\ UNCHANGED <<cmd, commandNum, command_mutex, commandNumEcho, enabling, coordAsked, clientVars,
                 taskVars, restarts>>

emcmotCommandHandler_locked ==
  /\ handlerPc = "locked"
  /\ handlerPc' = "give"
  /\ IF commandNum # commandNumEcho
       THEN /\ commandNumEcho' = commandNum
            /\ executed' = Append(executed, cmd)
            /\ coordAsked' = (coordAsked \/ cmd.command.kind = "SET_COORD")
            /\ enabling' = CASE cmd.command.kind = "MOTION_ENABLE"  -> TRUE
                             [] cmd.command.kind = "MOTION_DISABLE" -> FALSE
                             [] OTHER -> enabling
       ELSE UNCHANGED <<commandNumEcho, executed, enabling, coordAsked>>
  /\ UNCHANGED <<cmd, commandNum, command_mutex, clientVars, taskVars, restarts>>

HandlerGive_Forgotten ==
  /\ handlerPc = "give"
  /\ handlerPc' = "idle"
  /\ UNCHANGED <<shm, clientVars, taskVars, executed, restarts>>

HandlerGive ==
  /\ handlerPc = "give"
  /\ command_mutex' = FALSE
  /\ handlerPc' \in Controller
  /\ UNCHANGED <<cmd, commandNum, commandNumEcho, enabling, coordAsked, clientVars, taskVars,
                 executed, restarts>>

emcmotCommandHandler ==
  HandlerCall \/ HandlerTry \/ emcmotCommandHandler_locked \/ HandlerGive

------------------------------------------------------------------------------
(* The task.  Its main loop only reads; a signal ends the loop, and the code  *)
(* after it stops the threads before it writes the commands.                  *)

Quit ==
  /\ MayQuit
  /\ taskPc = "run"
  /\ threads_running' = FALSE
  /\ taskPc' = "get"
  /\ UNCHANGED <<shm, clientVars, handlerPc, todo, copied, reported, executed, restarts>>

TaskGet ==
  /\ taskPc = "get"
  /\ todo # <<>>
  /\ ~command_mutex
  /\ command_mutex' = TRUE
  /\ taskPc' = "copy"
  /\ copied' = 0
  /\ UNCHANGED <<cmd, commandNum, commandNumEcho, enabling, coordAsked, clientVars, handlerPc,
                 threads_running, todo, reported, executed, restarts>>

(* *emcmotCommand = *c.  The line that numbered the command is commented out, *)
(* so c->commandNum is 0.                                                     *)
TaskCopy ==
  /\ taskPc = "copy"
  /\ LET f == CopyOrder[copied + 1]
     IN  /\ cmd' = [cmd EXCEPT ![f] = [id |-> 0, kind |-> Head(todo)]]
         /\ commandNum' = IF f = "num" THEN 0 ELSE commandNum
  /\ copied' = copied + 1
  /\ taskPc' = IF copied + 1 = Len(CopyOrder) THEN "give" ELSE "copy"
  /\ UNCHANGED <<command_mutex, commandNumEcho, enabling, coordAsked, clientVars, handlerPc,
                 threads_running, todo, reported, executed, restarts>>

TaskGive ==
  /\ taskPc = "give"
  /\ command_mutex' = FALSE
  /\ taskPc' = "poll"
  /\ UNCHANGED <<cmd, commandNum, commandNumEcho, enabling, coordAsked, clientVars, handlerPc,
                 threads_running, todo, copied, reported, executed, restarts>>

(* The poll compares the echo with the static commandNum, which is always 0.  *)
TaskPoll ==
  /\ taskPc = "poll"
  /\ reported' = IF commandNumEcho = 0 THEN Append(reported, Head(todo)) ELSE reported
  /\ todo' = Tail(todo)
  /\ taskPc' = IF Len(todo) = 1 THEN "exit" ELSE "get"
  /\ UNCHANGED <<shm, clientVars, handlerPc, threads_running, copied, executed, restarts>>

usrmotWriteEmcmotCommand == TaskGet \/ TaskCopy \/ TaskGive \/ TaskPoll

------------------------------------------------------------------------------
(* The process ends, by exit(0) or by a fault or a kill at any moment, and is *)
(* started again.  init_motion_comm_buffers resets the echo and enabling in   *)
(* the shared memory it finds, not the command, command_mutex nor the request *)
(* for a mode.                                                                *)
Restart ==
  /\ restarts < MaxRestarts
  /\ restarts' = restarts + 1
  /\ commandNumEcho' = 0
  /\ enabling' = FALSE
  /\ threads_running' = TRUE
  /\ clientPc' = Idle /\ frame' = NoFrame /\ fresh' = 0
  /\ handlerPc' = "idle"
  /\ taskPc' = "run" /\ todo' = TaskCommands /\ copied' = 0 /\ reported' = <<>>
  /\ executed' = <<>>
  /\ UNCHANGED <<cmd, commandNum, command_mutex, coordAsked, frames>>

Alive == taskPc # "exit"

Next == \/ Alive /\ (ProcessTask \/ emcmotCommandHandler \/ Quit \/ usrmotWriteEmcmotCommand)
        \/ Restart

Spec == Init /\ [][Next]_vars

(* The motion thread is periodic; it leaves its CPU to client_p between two   *)
(* periods, so a frame ProcessTask has begun is stored to its end (client_p   *)
(* is held off again and again, hence strong fairness); the task finishes its *)
(* shutdown.  Nothing obliges the peer to send, a signal to come or the       *)
(* program to be started again.                                               *)
FairSpec == /\ Spec
            /\ WF_vars(Alive /\ emcmotCommandHandler)
            /\ SF_vars(Alive /\ ClientStore)
            /\ WF_vars(Alive /\ usrmotWriteEmcmotCommand)
------------------------------------------------------------------------------
(* Properties.                                                                *)

Frame == [id : Nat, kind : DOMAIN Stores \cup {"none", "ABORT"}]

(* Every variable keeps its type.                                             *)
TypeOK ==
  /\ cmd \in [Fields -> Frame]
  /\ commandNum \in Nat /\ commandNumEcho \in Nat
  /\ command_mutex \in BOOLEAN /\ enabling \in BOOLEAN /\ coordAsked \in BOOLEAN
  /\ threads_running \in BOOLEAN
  /\ clientPc \in Seq(Fields \cup {"enable", "idle", "wait"})
  /\ frame \in Frame /\ frames \in Nat /\ fresh \in Nat
  /\ handlerPc \in {"idle", "try", "locked", "give", "spin"}
  /\ taskPc \in {"run", "get", "copy", "give", "poll", "exit"}
  /\ todo \in Seq({"JOG_ABORT", "ABORT", "MOTION_DISABLE"})
  /\ copied \in 0 .. Len(CopyOrder)
  /\ reported \in Seq({"JOG_ABORT", "ABORT", "MOTION_DISABLE"})
  /\ executed \in Seq([Fields -> Frame])
  /\ restarts \in Nat

(* How far a torn command can be torn, while the task has not written.  The   *)
(* command, its number and its axis come from two frames at most, stored one  *)
(* after the other (Neighbours): the command is that of the earlier one under *)
(* the number of the later only if the later is a jog, which stores its       *)
(* number first, and the other way round only if the later is none; in both   *)
(* cases the axis is that of the earlier.                                     *)
(*                                                                            *)
(* Its parameters may add a third frame (OwnParams), but to one command only: *)
(* a configuration, whose parameters are stored after its number              *)
(* (hpsocket.c:387-400), is executed with those of the last frame that had    *)
(* any, which may be older than the frame its axis comes from.  A jog or a    *)
(* line never runs with parameters older than itself.  Parameters newer than  *)
(* the command are those of the frame right after it, a jog or a line.  This  *)
(* holds of every parameter field by itself: "params" is any one of those the *)
(* command fills in.                                                          *)
Neighbours(e) ==
  /\ {e.command.id, e.num.id} \subseteq {e.axis.id, e.axis.id + 1}
  /\ e.command.id < e.num.id => e.num.kind = "JOG" /\ e.axis = e.command
  /\ e.command.id > e.num.id => e.command.kind # "JOG" /\ e.axis = e.num

OwnParams(e) ==
  /\ e.params.id > e.axis.id =>
       e.params.id = e.axis.id + 1 /\ e.params.kind \in ParamKinds
  /\ e.params.id < e.command.id /\ e.command.kind \in ParamKinds =>
       e.command.kind = "DOWNLOADS_CONFIG" /\ e.axis.id < e.command.id
  /\ e.params.id > e.command.id => e.axis = e.command /\ e.params.kind \in ParamsFirst
  /\ e.params.id > e.num.id     => e.axis = e.num     /\ e.params.kind \in ParamsFirst

TearIsBounded ==
  /\ TypeOK
  /\ threads_running =>
       \A i \in DOMAIN executed : Neighbours(executed[i]) /\ OwnParams(executed[i])

(* No number is handled twice, and no later number before an earlier one.     *)
NumbersInOrder ==
  threads_running =>
    \A i, j \in DOMAIN executed : i < j => executed[i].num.id < executed[j].num.id

(* The handler never executes a command the task has only half copied.        *)
TaskCopyIsolated == handlerPc = "locked" => taskPc \notin {"copy", "give"}

(* A command whose number is new is handled, unless the threads are stopped   *)
(* or the motion thread is caught in its loop (control.c:580), which leaves   *)
(* no time to the handler nor to client_p.  While the threads run nobody else *)
(* takes command_mutex: the task does so after it has stopped them.           *)
EchoCatchesUp ==
  (commandNum # commandNumEcho)
    ~> (commandNum = commandNumEcho \/ ~threads_running \/ handlerPc = "spin")

(* A signal ends the program: the task never waits for ever for the mutex or  *)
(* for the echo of threads it has stopped itself (usrmotintf.cpp:45), unless  *)
(* an earlier process was killed with the mutex taken.                        *)
ShutdownCompletes ==
  (taskPc = "get" /\ restarts = 0) ~> (taskPc = "exit" \/ restarts > 0)

(* The command an earlier process left behind is replayed at most once, and   *)
(* only it: before the peer has sent anything, a started program handles at   *)
(* most one command, and motion is enabled only if that one asks for it.      *)
ReplayIsSingle ==
  fresh = 0 /\ threads_running =>
    /\ Len(executed) <= 1
    /\ enabling => executed # <<>> /\ executed[1].command.kind = "MOTION_ENABLE"
==============================================================================
