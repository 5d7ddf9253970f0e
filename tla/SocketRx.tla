------------------------------- MODULE SocketRx -------------------------------
(* The receive path of src/hal/hpsocket.c: the HP-Socket callback thread      *)
(* (OnReceiveLinux, AnalyseData, write_ringbuff), the client_p realtime       *)
(* thread (ProcessTask up to and including read_ringbuff), the start-up code  *)
(* that initialises the ring while the callbacks are already live             *)
(* (init_socket_comm_buffers), and the close callback.                        *)
(*                                                                            *)
(* A frame is an element of Frames: nothing here looks inside one.  The slots *)
(* are two times BUFFER_SIZE bytes apart and buffer_storage has BUFFER_SIZE   *)
(* bytes for each, so the slots of the upper half lie outside it: the program *)
(* is built with -fsanitize=address (CMakeLists.txt:8-11), which ends it at   *)
(* the first copy to one of them; without, the copy lands in variables that   *)
(* others own.  The model has both outcomes.  What the copy does to those     *)
(* variables is not modelled.                                                 *)
(*                                                                            *)
(* A definition named D_Something is a mutated form of D, a plausible mistake   *)
(* the properties below must notice; no action uses it.                       *)
EXTENDS Integers, Sequences

CONSTANTS
  Frames,        \* frames the peer can send
  NoFrame,       \* content of a slot never written, or written by others
  BUFFER_NUM,    \* number of slots (64 in the code)
  BUFFER_SIZE,   \* bytes of buffer_storage per slot (128)
  FRAME_SIZE,    \* sizeof(linux_frame_t) (138)
  MaxFrames,     \* bound: chunks the peer sends in one behaviour
  EarlyReceive   \* may a chunk arrive before the start-up code is done?

(* head, tail and length (Head, Tail, Length) are uint8_t; a ring of more     *)
(* than 255 slots would wrap the length before it is full.                    *)
ASSUME BufferNumFits == BUFFER_NUM \in 1..255
ASSUME SizesAreNat == BUFFER_SIZE \in Nat /\ FRAME_SIZE \in Nat
ASSUME NoFrameIsNoFrame == NoFrame \notin Frames
ASSUME EarlyReceiveIsBoolean == EarlyReceive \in BOOLEAN
ASSUME MaxFramesIsNat == MaxFrames \in Nat

VARIABLES
  slots, head, tail, length,  \* TcpRxRingBuff
  mutex,                      \* owner of TcpRxRingBuff.mutex, or "none"
  sem,                        \* value of sem_count_tcp_rx
  initPc,                     \* next store of init_socket_comm_buffers
  globalRunning,              \* cleared by the close callback, never set again
  recvPc, recvFrame,          \* the callback thread
  procPc, procFrame,          \* the client_p thread
  received,                   \* chunks received so far
  delivered,                  \* history: frames ProcessTask got, in order
  late                        \* history: frames it got after the close

ring     == <<slots, head, tail, length>>
recvVars == <<recvPc, recvFrame, received>>
procVars == <<procPc, procFrame, delivered, late>>
vars     == <<ring, mutex, sem, initPc, globalRunning, recvVars, procVars>>

Index == 0 .. BUFFER_NUM - 1
Byte  == 0 .. 255

(* The bytes of slot i lie inside buffer_storage.                             *)
Inside(i) == i * (2 * BUFFER_SIZE) + FRAME_SIZE <= BUFFER_NUM * BUFFER_SIZE

(* The ring's configuration fields are zero until the start-up code stores    *)
(* them, in this order: the indices and buffNum, then buffByte, then pBuffer, *)
(* then the mutex and last the semaphore.                                     *)
buffNum  == IF initPc = "num" THEN 0 ELSE BUFFER_NUM

buffByte == IF initPc \in {"num", "byte"} THEN 0 ELSE 2 * BUFFER_SIZE

pBufferIsNull == initPc \in {"num", "byte", "buf"}

(* The index after i, as both ring functions advance it.                      *)
Succ(i) == (i + 1) % BUFFER_NUM

Init ==
  /\ slots = [i \in Index |-> NoFrame]
  /\ head = 0 /\ tail = 0 /\ length = 0
  /\ mutex = "none"
  /\ sem = 0
  /\ initPc = "num"
  /\ globalRunning = TRUE
  /\ recvPc = "idle" /\ recvFrame = NoFrame /\ received = 0
  /\ procPc = "idle" /\ procFrame = NoFrame
  /\ delivered = <<>> /\ late = 0

------------------------------------------------------------------------------
(* Start-up: the main thread, without the ring's mutex.                       *)

InitIndices == /\ initPc = "num"
               /\ head' = 0 /\ tail' = 0 /\ length' = 0
               /\ initPc' = "byte"
               /\ UNCHANGED <<slots, mutex, sem, globalRunning, recvVars, procVars>>

InitStore(from, to) == /\ initPc = from
                       /\ initPc' = to
                       /\ UNCHANGED <<ring, mutex, sem, globalRunning, recvVars, procVars>>

(* pthread_mutex_init sets the mutex free, whoever holds it.                  *)
InitMutex == /\ initPc = "mutex"
             /\ mutex' = "none"
             /\ initPc' = "sem"
             /\ UNCHANGED <<ring, sem, globalRunning, recvVars, procVars>>

InitSem == /\ initPc = "sem"
           /\ sem' = 0
           /\ initPc' = "done"
           /\ UNCHANGED <<ring, mutex, globalRunning, recvVars, procVars>>

init_socket_comm_buffers ==
  \/ InitIndices
  \/ InitStore("byte", "buf")
  \/ InitStore("buf", "mutex")
  \/ InitMutex
  \/ InitSem

------------------------------------------------------------------------------
(* The callback thread.  AnalyseData logs a malformed chunk and goes on, so   *)
(* every chunk reaches write_ringbuff.                                        *)

OnReceiveLinux(f) ==
  /\ recvPc = "idle"
  /\ globalRunning
  /\ EarlyReceive \/ initPc = "done"
  /\ received < MaxFrames
  /\ recvPc' = "lock"
  /\ recvFrame' = f
  /\ received' = received + 1
  /\ UNCHANGED <<ring, mutex, sem, initPc, globalRunning, procVars>>

WriteLock ==
  /\ recvPc = "lock"
  /\ mutex = "none"
  /\ mutex' = "recv"
  /\ recvPc' = "copy"
  /\ UNCHANGED <<ring, sem, initPc, globalRunning, recvFrame, received, procVars>>

WriteRefused_KeepsMutex ==
  /\ recvPc = "copy"
  /\ length >= buffNum \/ FRAME_SIZE > buffByte
  /\ recvPc' = "post"
  /\ UNCHANGED <<ring, mutex, sem, initPc, globalRunning, recvFrame, received, procVars>>

(* The two early returns of write_ringbuff: the ring is full, or the slots    *)
(* are too small for a frame.  AnalyseData posts the semaphore regardless.    *)
WriteRefused ==
  /\ recvPc = "copy"
  /\ length >= buffNum \/ FRAME_SIZE > buffByte
  /\ mutex' = "none"
  /\ recvPc' = "post"
  /\ UNCHANGED <<ring, sem, initPc, globalRunning, recvFrame, received, procVars>>

WriteCopy_AtHead ==
  /\ recvPc = "copy"
  /\ length < buffNum
  /\ FRAME_SIZE <= buffByte
  /\ \/ /\ pBufferIsNull \/ ~Inside(tail)
        /\ recvPc' = "fault" /\ UNCHANGED slots
     \/ /\ ~pBufferIsNull
        /\ recvPc' = "advance" /\ slots' = [slots EXCEPT ![head] = recvFrame]
  /\ UNCHANGED <<head, tail, length, mutex, sem, initPc, globalRunning,
                 recvFrame, received, procVars>>

(* The copy.  Through a null pBuffer it ends the process; outside             *)
(* buffer_storage it ends the process or overwrites the memory of others.     *)
WriteCopy ==
  /\ recvPc = "copy"
  /\ length < buffNum
  /\ FRAME_SIZE <= buffByte
  /\ \/ /\ pBufferIsNull \/ ~Inside(tail)
        /\ recvPc' = "fault" /\ UNCHANGED slots
     \/ /\ ~pBufferIsNull
        /\ recvPc' = "advance" /\ slots' = [slots EXCEPT ![tail] = recvFrame]
  /\ UNCHANGED <<head, tail, length, mutex, sem, initPc, globalRunning,
                 recvFrame, received, procVars>>

WriteAdvance ==
  /\ recvPc = "advance"
  /\ tail' = Succ(tail)
  /\ length' = (length + 1) % 256
  /\ mutex' = "none"
  /\ recvPc' = "post"
  /\ UNCHANGED <<slots, head, sem, initPc, globalRunning, recvFrame, received, procVars>>

PostSem_Flag ==
  /\ recvPc = "post"
  /\ sem' = 1
  /\ recvPc' = "idle"
  /\ UNCHANGED <<ring, mutex, initPc, globalRunning, recvFrame, received, procVars>>

PostSem ==
  /\ recvPc = "post"
  /\ sem' = sem + 1
  /\ recvPc' = "idle"
  /\ UNCHANGED <<ring, mutex, initPc, globalRunning, recvFrame, received, procVars>>

OnCloseLinux ==
  /\ recvPc = "idle"
  /\ globalRunning
  /\ globalRunning' = FALSE
  /\ UNCHANGED <<ring, mutex, sem, initPc, recvVars, procVars>>

write_ringbuff == WriteLock \/ WriteRefused \/ WriteCopy \/ WriteAdvance

AnalyseData == write_ringbuff \/ PostSem

------------------------------------------------------------------------------
(* The client_p thread: one ProcessTask call per period, once the threads     *)
(* have been started (after all of the start-up code).                        *)

ProcessTask_IgnoresClose ==
  /\ procPc = "idle"
  /\ initPc = "done"
  /\ procPc' = "wait"
  /\ UNCHANGED <<ring, mutex, sem, initPc, globalRunning, recvVars, procFrame, delivered, late>>

ProcessTask ==
  /\ procPc = "idle"
  /\ initPc = "done"
  /\ globalRunning
  /\ procPc' = "wait"
  /\ UNCHANGED <<ring, mutex, sem, initPc, globalRunning, recvVars, procFrame, delivered, late>>

WaitSem ==
  /\ procPc = "wait"
  /\ sem > 0
  /\ sem' = sem - 1
  /\ procPc' = "lock"
  /\ UNCHANGED <<ring, mutex, initPc, globalRunning, recvVars, procFrame, delivered, late>>

ReadLock ==
  /\ procPc = "lock"
  /\ mutex = "none"
  /\ mutex' = "proc"
  /\ procPc' = "copy"
  /\ UNCHANGED <<ring, sem, initPc, globalRunning, recvVars, procFrame, delivered, late>>

ReadEmpty ==
  /\ procPc = "copy"
  /\ length = 0
  /\ mutex' = "none"
  /\ procPc' = "idle"
  /\ UNCHANGED <<ring, sem, initPc, globalRunning, recvVars, procFrame, delivered, late>>

(* The address check of read_ringbuff ("check that the read address is        *)
(* valid", hpsocket.c:85) compares with buffNum * buffByte, twice the size of *)
(* buffer_storage, which head * buffByte is always below: it never refuses,   *)
(* and what is read outside the storage is what lies there.                   *)
ReadCopy ==
  /\ procPc = "copy"
  /\ length # 0
  /\ procFrame' = slots[head]
  /\ procPc' = "advance"
  /\ UNCHANGED <<ring, mutex, sem, initPc, globalRunning, recvVars, delivered, late>>

ReadAdvance ==
  /\ procPc = "advance"
  /\ head' = Succ(head)
  /\ length' = (length - 1) % 256
  /\ mutex' = "none"
  /\ procPc' = "idle"
  /\ delivered' = Append(delivered, procFrame)
  /\ late' = IF globalRunning THEN late ELSE late + 1
  /\ UNCHANGED <<slots, tail, sem, initPc, globalRunning, recvVars, procFrame>>

read_ringbuff == ReadLock \/ ReadEmpty \/ ReadCopy \/ ReadAdvance

------------------------------------------------------------------------------
(* Memory outside buffer_storage belongs to other variables: their owners may *)
(* store into it at any time.                                                 *)
OwnerStores == \E i \in Index :
  /\ ~Inside(i)
  /\ slots' = [slots EXCEPT ![i] = NoFrame]
  /\ UNCHANGED <<head, tail, length, mutex, sem, initPc, globalRunning, recvVars, procVars>>

RecvThread == (\E f \in Frames : OnReceiveLinux(f)) \/ AnalyseData \/ OnCloseLinux
ProcThread == ProcessTask \/ WaitSem \/ read_ringbuff

(* A faulting write ends every thread.                                        *)
Alive == recvPc # "fault"

Next == /\ Alive
        /\ init_socket_comm_buffers \/ RecvThread \/ ProcThread \/ OwnerStores

Spec == Init /\ [][Next]_vars

(* The main thread finishes its start-up code, a callback that has begun runs *)
(* to its end, and client_p is a periodic realtime thread.  Nothing obliges   *)
(* the peer to send or to close.                                              *)
FairSpec == /\ Spec
            /\ WF_vars(Alive /\ init_socket_comm_buffers)
            /\ WF_vars(Alive /\ AnalyseData)
            /\ WF_vars(Alive /\ ProcThread)
------------------------------------------------------------------------------
(* Properties.                                                                *)

(* Every variable keeps its type; the indices stay inside the ring and        *)
(* mutex names the one thread that is inside a critical section.              *)
TypeOK ==
  /\ slots \in [Index -> Frames \cup {NoFrame}]
  /\ head \in Index /\ tail \in Index /\ length \in 0 .. BUFFER_NUM
  /\ mutex \in {"none", "recv", "proc"}
  /\ sem \in Nat
  /\ initPc \in {"num", "byte", "buf", "mutex", "sem", "done"}
  /\ globalRunning \in BOOLEAN
  /\ recvPc \in {"idle", "lock", "copy", "advance", "post", "fault"}
  /\ recvFrame \in Frames \cup {NoFrame}
  /\ received \in Nat
  /\ procPc \in {"idle", "wait", "lock", "copy", "advance"}
  /\ procFrame \in Frames \cup {NoFrame}
  /\ delivered \in Seq(Frames \cup {NoFrame})
  /\ late \in Nat

(* The ring read from head on, oldest frame first.                            *)
Pending == [k \in 1 .. length |-> slots[(head + k - 1) % BUFFER_NUM]]

Fifo == INSTANCE FrameFifo WITH Capacity <- BUFFER_NUM, queue <- Pending,
                                Sound <- {i \in Index : Inside(i)}

(* The ring of hpsocket.c hands over one frame for each it accepted, never    *)
(* more than BUFFER_NUM of them behind, and a refused frame leaves no trace.  *)
(* A frame stored inside buffer_storage is handed over in its turn and        *)
(* unaltered; of the others, half the slots of the ring (hpsocket.c:26 and    *)
(* :862), only the turn is kept, if the program goes on at all.               *)
ImplementsFifo == Fifo!Spec

(* A token of sem_count_tcp_rx on its way: a post not yet made, or one        *)
(* ProcessTask has taken for the frame it has not yet removed.                *)
PostPending == IF recvPc = "post" THEN 1 ELSE 0
TokenTaken  == IF procPc \in {"lock", "copy", "advance"} THEN 1 ELSE 0

(* Every frame in the ring has a wake-up of its own, so ProcessTask never     *)
(* sleeps in sem_wait while a frame lies in the ring ("notify the processing  *)
(* thread that there is new data", hpsocket.c:352).                           *)
FrameHasWakeup == length <= sem + PostPending + TokenTaken

(* Clearing globalRunning stops ProcessTask only at its next call: the call   *)
(* in progress may still hand over the frame it is waiting for, but no more.  *)
AtMostOneAfterClose == late <= 1

(* Every frame the ring accepts is handed to ProcessTask's switch, unless the *)
(* connection is closed first or a copy outside the storage ends the program. *)
FrameServed ==
  \A k \in 1 .. MaxFrames :
     (Len(delivered) + length >= k) ~> (Len(delivered) >= k \/ ~globalRunning \/ ~Alive)
==============================================================================
