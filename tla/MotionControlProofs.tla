------------------------- MODULE MotionControlProofs -------------------------
(* Proofs about MotionControl, for any number of axes, any numAxes, any queue *)
(* size and any set of inputs and commands.                                   *)
(*                                                                            *)
(* That a mode is entered at rest is not inductive: set_operating_mode trusts *)
(* the INPOS flag of the period before, and the handler may have run since.   *)
(* The invariant therefore follows the flag round the period: what it means   *)
(* when get_pos_cmds has just set it (InposIsRest), what is left of that once *)
(* the handler has taken a command (PendingIsRest), and that a request is     *)
(* never carried from one period into the next (Settled), so that the one     *)
(* command of a period cannot both ask for a mode and set an axis going.      *)
EXTENDS MotionControl, TLAPS

Quiet == active \cap (jogging \cup moving) = {}
Off == "ENABLE" \notin motionFlag

StillWhenOff == Off => /\ jogging = {} /\ moving = {}
                       /\ coord_tp.len = 0 /\ coord_tp.done

PlanOnlyInCoord == "COORD" \notin motionFlag => coord_tp.done

StateIsFlags == pc = "pos" => motion_state = StateOf(motionFlag)

Settled == pc \in {"pos", "out", "idle"} /\ (WantsCoord \/ WantsFree) => Off

InposIsRest ==
  pc \in {"out", "idle"} /\ "INPOS" \in motionFlag
    => coord_tp.done /\ ("COORD" \notin motionFlag => Quiet)

PendingIsRest ==
  pc \in {"inputs", "faults", "mode"} /\ "INPOS" \in motionFlag
    => (WantsCoord => Quiet) /\ (WantsFree => coord_tp.done)

FaultsSeen ==
  pc = "mode" /\ enabling
    => ("ENABLE" \in motionFlag => enable) /\ Monitored \cap (fault \cup ferror) = {}

RestInv == /\ StillWhenOff /\ PlanOnlyInCoord /\ StateIsFlags
           /\ Settled /\ InposIsRest /\ PendingIsRest

IInv == TypeOK /\ RestInv /\ FaultsSeen

USE DEF inputVars, planVars, requests, modeVars, mailbox

------------------------------------------------------------------------------
(* The planner stays a planner: tpClear, tpAbort, tpAddLine and tpRunCycle.   *)
LEMMA ClearFacts == /\ tpClear \in Planners
                    /\ tpClear.len = 0 /\ tpClear.done /\ ~tpClear.aborting
  BY QueueIsNat DEF tpClear, Planners

(* tpAbort keeps the queue and the done flag.                                 *)
LEMMA AbortFacts ==
  ASSUME NEW tp \in Planners
  PROVE  /\ tpAbort(tp) \in Planners
         /\ tpAbort(tp).len = tp.len /\ tpAbort(tp).done = tp.done
  BY DEF tpAbort, Planners

(* tpAddLine leaves a planner with no more segments than the queue holds.     *)
LEMMA AddLineType ==
  ASSUME NEW tp \in Planners
  PROVE  tpAddLine(tp) \subseteq Planners
<1>1. CASE tp.aborting \/ tp.len = QueueSize
  BY <1>1, AbortFacts DEF tpAddLine
<1>2. CASE ~(tp.aborting \/ tp.len = QueueSize)
  <2>1. tp.len \in 0 .. QueueSize /\ tp.len # QueueSize
    BY <1>2 DEF Planners
  <2>2. tp.len + 1 \in 0 .. QueueSize
    BY <2>1, QueueIsNat
  <2>3. [tp EXCEPT !.len = @ + 1, !.done = FALSE] \in Planners
    BY <2>2 DEF Planners
  <2>4. QED
    BY <1>2, <2>3 DEF tpAddLine
<1>3. QED
  BY <1>1, <1>2

(* tpRunCycle leaves a planner.                                               *)
LEMMA RunCycleType ==
  ASSUME NEW tp \in Planners
  PROVE  tpRunCycle(tp) \subseteq Planners
<1>1. CASE tp.len = 0
  BY <1>1, ClearFacts DEF tpRunCycle
<1>2. CASE tp.len # 0
  BY <1>2, ClearFacts, QueueIsNat DEF tpRunCycle, Planners
<1>3. QED
  BY <1>1, <1>2

(* The axis of a command is one of the axes, also before the first command.   *)
LEMMA CommandAxis == TypeOK => command.axis \in Axes
  BY AxesExist DEF TypeOK, Frames, NoCommand, Axes

(* The flags set_operating_mode makes.                                        *)
LEMMA NewFlagsFacts ==
  ASSUME TypeOK
  PROVE  /\ NewFlags \subseteq {"ENABLE", "INPOS", "FREE", "COORD"}
         /\ "ENABLE" \in NewFlags <=> enabling
         /\ "INPOS" \in NewFlags <=> "INPOS" \in motionFlag
         /\ "COORD" \in NewFlags <=> \/ "COORD" \in motionFlag
                                     \/ WantsCoord /\ "INPOS" \in motionFlag
         /\ "FREE" \in NewFlags <=> \/ "FREE" \in motionFlag
                                    \/ WantsFree /\ "INPOS" \in motionFlag
  BY DEF TypeOK, NewFlags

------------------------------------------------------------------------------
(* The start has every variable in its type, with nothing moving.             *)
LEMMA InitIInv == Init => IInv
<1> SUFFICES ASSUME Init PROVE IInv
  OBVIOUS
<1>1. TypeOK
  <2>1. restarts \in 0 .. MaxRestarts
    BY RestartsIsNat DEF Init
  <2>2. QED
    BY <2>1, ClearFacts DEF Init, TypeOK
<1>2. RestInv
  BY ClearFacts DEF Init, RestInv, StillWhenOff, PlanOnlyInCoord, StateIsFlags, Settled,
                   InposIsRest, PendingIsRest, WantsCoord, WantsFree, Off, Quiet
<1>3. FaultsSeen
  BY DEF Init, FaultsSeen
<1>4. QED
  BY <1>1, <1>2, <1>3 DEF IInv

(* No step takes a variable out of its type.                                  *)
LEMMA TypeStep == TypeOK /\ [Next]_vars => TypeOK'
<1> SUFFICES ASSUME TypeOK, [Next]_vars PROVE TypeOK'
  OBVIOUS
<1>a. command.axis \in Axes
  BY CommandAxis
<1>1. CASE ProcessTask
  <2> PICK c \in Frames : ClientPin(c) \/ ClientStore(c)
    BY <1>1 DEF ProcessTask
  <2>1. CASE ClientPin(c)
    BY <2>1 DEF ClientPin, TypeOK
  <2>2. CASE ClientStore(c)
    BY <2>2 DEF ClientStore, TypeOK
  <2>3. QED
    BY <2>1, <2>2
<1>2. CASE AxisEnable
  BY <1>a, <1>2 DEF AxisEnable, Handle, TypeOK
<1>3. CASE AxisDisable
  BY <1>3 DEF AxisDisable, Handle, TypeOK
<1>4. CASE MotionEnable
  BY <1>4 DEF MotionEnable, Handle, TypeOK
<1>5. CASE MotionDisable
  BY <1>5 DEF MotionDisable, Handle, TypeOK
<1>6. CASE Abort
  <2>1. coord_tp' \in Planners
    BY <1>6, AbortFacts DEF Abort, TypeOK
  <2>2. QED
    BY <1>6, <2>1 DEF Abort, Handle, TypeOK
<1>7. CASE Jog
  BY <1>a, <1>7 DEF Jog, Handle, TypeOK
<1>8. CASE JogAbort
  BY <1>8 DEF JogAbort, Handle, TypeOK
<1>9. CASE SetLine
  <2>1. coord_tp' \in Planners
    BY <1>9, AbortFacts, AddLineType DEF SetLine, TypeOK
  <2>2. QED
    BY <1>9, <2>1 DEF SetLine, Handle, TypeOK
<1>10. CASE SetFree
  BY <1>10 DEF SetFree, Handle, TypeOK
<1>11. CASE SetCoord
  BY <1>11 DEF SetCoord, Handle, TypeOK
<1>12. CASE HandlerNothing
  BY <1>12 DEF HandlerNothing, TypeOK
<1>13. CASE process_inputs
  <2> PICK p \in [Inputs -> SUBSET active] :
         /\ fault' = (fault \ active) \cup (IF "FAULT" \in Inputs THEN p["FAULT"] ELSE {})
         /\ ferror' = (ferror \ active) \cup (IF "FERROR" \in Inputs THEN p["FERROR"] ELSE {})
         /\ limit' = (limit \ active) \cup (IF "LIMIT" \in Inputs THEN p["LIMIT"] ELSE {})
    BY <1>13 DEF process_inputs
  <2>1. fault' \subseteq Axes /\ ferror' \subseteq Axes /\ limit' \subseteq Axes
    BY DEF TypeOK
  <2>2. QED
    BY <1>13, <2>1 DEF process_inputs, TypeOK
<1>14. CASE check_for_faults
  BY <1>14 DEF check_for_faults, TypeOK
<1>15. CASE set_operating_mode
  <2>1. motionFlag' \subseteq {"ENABLE", "INPOS", "FREE", "COORD"}
    BY <1>15, NewFlagsFacts DEF set_operating_mode
  <2>2. motion_state' \in {"DISABLED", "FREE", "COORD"}
    BY <1>15 DEF set_operating_mode, StateOf
  <2>3. coord_tp' \in Planners
    BY <1>15, ClearFacts DEF set_operating_mode, TypeOK
  <2>4. coordinating' \in BOOLEAN /\ freeing' \in BOOLEAN
    BY <1>15 DEF set_operating_mode
  <2>5. QED
    BY <1>15, <2>1, <2>2, <2>3, <2>4 DEF set_operating_mode, TypeOK
<1>16. CASE PosFree
  BY <1>16 DEF PosFree, WithInpos, TypeOK
<1>17. CASE PosCoord
  <2>1. coord_tp' \in Planners
    BY <1>17, RunCycleType DEF PosCoord, TypeOK
  <2>2. QED
    BY <1>17, <2>1 DEF PosCoord, WithInpos, TypeOK
<1>18. CASE PosDisabled
  BY <1>18 DEF PosDisabled, TypeOK
<1>19. CASE output_to_hal
  BY <1>19 DEF output_to_hal, Monitored, TypeOK
<1>20. CASE Restart
  <2>1. restarts' \in 0 .. MaxRestarts
    BY <1>20, RestartsIsNat DEF Restart, TypeOK
  <2>2. QED
    BY <1>20, <2>1, ClearFacts DEF Restart, TypeOK
<1>21. CASE UNCHANGED vars
  BY <1>21 DEF vars, TypeOK
<1>22. QED
  BY <1>1, <1>2, <1>3, <1>4, <1>5, <1>6, <1>7, <1>8, <1>9, <1>10, <1>11, <1>12, <1>13,
     <1>14, <1>15, <1>16, <1>17, <1>18, <1>19, <1>20, <1>21
     DEF Next, MotionThread, emcmotCommandHandler, emcmotController, get_pos_cmds

------------------------------------------------------------------------------
(* INPOS means what set_operating_mode takes it for, through every step.      *)
LEMMA RestStep == TypeOK /\ RestInv /\ [Next]_vars => RestInv'
<1> SUFFICES ASSUME TypeOK, RestInv, [Next]_vars PROVE RestInv'
  OBVIOUS
<1> USE DEF RestInv, StillWhenOff, PlanOnlyInCoord, StateIsFlags, Settled, InposIsRest,
            PendingIsRest, WantsCoord, WantsFree, Off, Quiet
<1>p. coord_tp \in Planners
  BY DEF TypeOK
<1>1. CASE ProcessTask
  BY <1>1 DEF ProcessTask, ClientPin, ClientStore
<1>2. CASE AxisEnable
  BY <1>2 DEF AxisEnable, Handle
<1>3. CASE AxisDisable
  BY <1>3 DEF AxisDisable, Handle
<1>4. CASE MotionEnable
  BY <1>4 DEF MotionEnable, Handle
<1>5. CASE MotionDisable
  BY <1>5 DEF MotionDisable, Handle
<1>6. CASE Abort
  <2>1. coord_tp'.len = coord_tp.len /\ coord_tp'.done = coord_tp.done
    BY <1>6, <1>p, AbortFacts DEF Abort
  <2>2. jogging' \subseteq jogging
    BY <1>6 DEF Abort
  <2>3. QED
    BY <1>6, <2>1, <2>2 DEF Abort, Handle
<1>7. CASE Jog
  <2>1. Off => jogging' = jogging
    BY <1>7 DEF Jog, JogOk
  <2>2. QED
    BY <1>7, <2>1 DEF Jog, Handle
<1>8. CASE JogAbort
  BY <1>8 DEF JogAbort, Handle
<1>9. CASE SetLine
  <2>1. Off \/ "COORD" \notin motionFlag => coord_tp' = coord_tp
    BY <1>9 DEF SetLine
  <2>2. QED
    BY <1>9, <2>1 DEF SetLine, Handle
<1>10. CASE SetFree
  BY <1>10 DEF SetFree, Handle
<1>11. CASE SetCoord
  BY <1>11 DEF SetCoord, Handle
<1>12. CASE HandlerNothing
  BY <1>12 DEF HandlerNothing
<1>13. CASE process_inputs
  BY <1>13 DEF process_inputs
<1>14. CASE check_for_faults
  BY <1>14 DEF check_for_faults
<1>15. CASE set_operating_mode
  <2>1. pc' = "pos" /\ motionFlag' = NewFlags /\ motion_state' = StateOf(motionFlag')
    BY <1>15 DEF set_operating_mode
  <2>2. ~(WantsCoord' \/ WantsFree')
    BY <1>15, <2>1, NewFlagsFacts DEF set_operating_mode
  <2>3. StillWhenOff'
    BY <1>15, <2>1, NewFlagsFacts, ClearFacts DEF set_operating_mode
  <2>4. PlanOnlyInCoord'
    BY <1>15, <2>1, NewFlagsFacts, ClearFacts DEF set_operating_mode
  <2>5. QED
    BY <2>1, <2>2, <2>3, <2>4
<1>16. CASE PosFree
  <2>1. "COORD" \notin motionFlag /\ "ENABLE" \in motionFlag
    BY <1>16 DEF PosFree, StateOf
  <2>2. PICK far \in SUBSET (active \cap jogging), slow \in SUBSET active :
          /\ jogging' = (jogging \ active) \cup far
          /\ moving' = (moving \ active) \cup slow
          /\ motionFlag' = WithInpos(far \cup slow = {})
    BY <1>16 DEF PosFree
  <2>3. "INPOS" \in motionFlag' => Quiet'
    BY <1>16, <2>2 DEF PosFree, WithInpos
  <2>4. /\ "COORD" \notin motionFlag' /\ "ENABLE" \in motionFlag'
        /\ "FREE" \in motionFlag' <=> "FREE" \in motionFlag
    BY <2>1, <2>2 DEF WithInpos
  <2>5. QED
    BY <1>16, <2>1, <2>3, <2>4 DEF PosFree
<1>17. CASE PosCoord
  <2>1. "COORD" \in motionFlag /\ "ENABLE" \in motionFlag
    BY <1>17 DEF PosCoord, StateOf
  <2>2. CASE 0 \in active
    <3>1. motionFlag' = WithInpos(coord_tp'.done) /\ pc' = "out"
      BY <1>17, <2>2 DEF PosCoord
    <3>2. /\ "COORD" \in motionFlag' /\ "ENABLE" \in motionFlag'
          /\ "FREE" \in motionFlag' <=> "FREE" \in motionFlag
          /\ "INPOS" \in motionFlag' => coord_tp'.done
      BY <2>1, <3>1 DEF WithInpos
    <3>3. QED
      BY <1>17, <2>1, <3>1, <3>2 DEF PosCoord
  <2>3. CASE 0 \notin active
    BY <1>17, <2>1, <2>3 DEF PosCoord
  <2>4. QED
    BY <2>2, <2>3
<1>18. CASE PosDisabled
  <2>1. Off
    BY <1>18 DEF PosDisabled, StateOf
  <2>2. QED
    BY <1>18, <2>1 DEF PosDisabled
<1>19. CASE output_to_hal
  BY <1>19 DEF output_to_hal
<1>20. CASE Restart
  BY <1>20, ClearFacts DEF Restart
<1>21. CASE UNCHANGED vars
  BY <1>21 DEF vars
<1>22. QED
  BY <1>1, <1>2, <1>3, <1>4, <1>5, <1>6, <1>7, <1>8, <1>9, <1>10, <1>11, <1>12, <1>13,
     <1>14, <1>15, <1>16, <1>17, <1>18, <1>19, <1>20, <1>21
     DEF Next, MotionThread, emcmotCommandHandler, emcmotController, get_pos_cmds

(* check_for_faults is the last word before set_operating_mode: nothing runs  *)
(* between the two.                                                           *)
LEMMA FaultStep == TypeOK /\ FaultsSeen /\ [Next]_vars => FaultsSeen'
<1> SUFFICES ASSUME TypeOK, FaultsSeen, [Next]_vars, pc' = "mode", enabling'
             PROVE  /\ "ENABLE" \in motionFlag' => enable'
                    /\ Monitored' \cap (fault' \cup ferror') = {}
  BY DEF FaultsSeen
<1>1. CASE check_for_faults
  BY <1>1 DEF check_for_faults, Monitored
<1>2. CASE UNCHANGED vars
  BY <1>2 DEF vars, FaultsSeen, Monitored
<1>3. ~ProcessTask
  BY DEF ProcessTask, ClientPin, ClientStore
<1>4. ~emcmotCommandHandler
  BY DEF emcmotCommandHandler, AxisEnable, AxisDisable, MotionEnable, MotionDisable, Abort,
         Jog, JogAbort, SetLine, SetFree, SetCoord, HandlerNothing, Handle
<1>5. ~(process_inputs \/ set_operating_mode \/ get_pos_cmds \/ output_to_hal \/ Restart)
  BY DEF process_inputs, set_operating_mode, get_pos_cmds, PosFree, PosCoord, PosDisabled,
         output_to_hal, Restart
<1>6. QED
  BY <1>1, <1>2, <1>3, <1>4, <1>5 DEF Next, MotionThread, emcmotController

------------------------------------------------------------------------------
(* The inductive invariant holds in every state of the controller.            *)
THEOREM ControllerInvariance == Spec => []IInv
<1>1. IInv /\ [Next]_vars => IInv'
  BY TypeStep, RestStep, FaultStep DEF IInv
<1>2. QED
  BY InitIInv, <1>1, PTL DEF Spec

(* Every variable of the mode machine keeps its type, and the planner's queue *)
(* never holds more segments than it has room for, whatever is commanded.     *)
THEOREM ControllerTypeCorrect == Spec => []TypeOK
<1>1. IInv => TypeOK
  BY DEF IInv
<1>2. QED
  BY ControllerInvariance, <1>1, PTL

(* While motion is off nothing is left that could move: no free planner of    *)
(* any axis and no queued segment (set_operating_mode, the guards of the jog  *)
(* and line commands).                                                        *)
THEOREM OffIsStill == Spec => []OffMeansStill
<1>1. IInv => OffMeansStill
  BY DEF IInv, RestInv, StillWhenOff, OffMeansStill, Off
<1>2. QED
  BY ControllerInvariance, <1>1, PTL

(* Motion stays on only past an enable pin that is on and axes without fault  *)
(* (check_for_faults before set_operating_mode).                              *)
THEOREM FaultsTrip == Spec => FaultTrips
<1>1. IInv /\ [Next]_vars
       => [pc = "mode" /\ "ENABLE" \in motionFlag \cap motionFlag'
             => enable /\ Monitored \cap (fault \cup ferror) = {}]_vars
  <2> SUFFICES ASSUME IInv, Next, pc = "mode", "ENABLE" \in motionFlag \cap motionFlag'
               PROVE  enable /\ Monitored \cap (fault \cup ferror) = {}
    OBVIOUS
  <2>1. CASE set_operating_mode
    BY <2>1, NewFlagsFacts DEF set_operating_mode, IInv, FaultsSeen
  <2>2. CASE Restart
    BY <2>2 DEF Restart
  <2>3. ~(ProcessTask \/ emcmotCommandHandler)
    BY DEF ProcessTask, ClientPin, ClientStore, emcmotCommandHandler, AxisEnable, AxisDisable,
           MotionEnable, MotionDisable, Abort, Jog, JogAbort, SetLine, SetFree, SetCoord,
           HandlerNothing, Handle
  <2>4. ~(process_inputs \/ check_for_faults \/ get_pos_cmds \/ output_to_hal)
    BY DEF process_inputs, check_for_faults, get_pos_cmds, PosFree, PosCoord, PosDisabled,
           output_to_hal
  <2>5. QED
    BY <2>1, <2>2, <2>3, <2>4 DEF Next, MotionThread, emcmotController
<1>2. QED
  BY ControllerInvariance, <1>1, PTL DEF Spec, FaultTrips

(* A mode is entered only at rest, though the INPOS flag it is decided by was *)
(* set in the period before ("not in position-- don't honor mode change").    *)
THEOREM ModesChangeAtRest == Spec => ModeChangeAtRest
<1>1. IInv /\ [Next]_vars
       => [/\ "COORD" \in motionFlag' \ motionFlag => active \cap (jogging \cup moving) = {}
           /\ "FREE" \in motionFlag' \ motionFlag => coord_tp.done]_vars
  <2> SUFFICES ASSUME IInv, Next
               PROVE  /\ "COORD" \in motionFlag' \ motionFlag
                           => active \cap (jogging \cup moving) = {}
                      /\ "FREE" \in motionFlag' \ motionFlag => coord_tp.done
    OBVIOUS
  <2>1. CASE set_operating_mode
    BY <2>1, NewFlagsFacts DEF set_operating_mode, IInv, RestInv, PendingIsRest, Quiet
  <2>2. CASE Restart
    BY <2>2 DEF Restart
  <2>3. CASE ProcessTask \/ emcmotCommandHandler
    BY <2>3 DEF ProcessTask, ClientPin, ClientStore, emcmotCommandHandler, AxisEnable,
           AxisDisable, MotionEnable, MotionDisable, Abort, Jog, JogAbort, SetLine, SetFree,
           SetCoord, HandlerNothing, Handle
  <2>4. CASE process_inputs \/ check_for_faults \/ get_pos_cmds \/ output_to_hal
    BY <2>4 DEF process_inputs, check_for_faults, get_pos_cmds, PosFree, PosCoord, PosDisabled,
           output_to_hal, WithInpos
  <2>5. QED
    BY <2>1, <2>2, <2>3, <2>4 DEF Next, MotionThread, emcmotController
<1>2. QED
  BY ControllerInvariance, <1>1, PTL DEF Spec, ModeChangeAtRest

==============================================================================
