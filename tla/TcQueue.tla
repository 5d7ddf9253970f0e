------------------------------- MODULE TcQueue -------------------------------
(* The segment queue of the trajectory planner, src/tp/tcq.c: a ring that     *)
(* also keeps the segments already run, up to TCQ_REVERSE_MARGIN of them, in  *)
(* the slots before start, so that motion can run backwards.                  *)
(*                                                                            *)
(* A segment (TC_STRUCT) is an element of Segments.  A call the code refuses  *)
(* (return -1) changes nothing, so it is no step.  A definition named         *)
(* D_Something is a mutated form of D that no action uses.                    *)
EXTENDS Integers, Sequences

CONSTANTS
  Segments,            \* motion segments
  NoSegment,           \* content of a slot never written
  Size,                \* tcq->size (DEFAULT_TC_QUEUE_SIZE, 2000)
  TCQ_REVERSE_MARGIN,  \* segments kept for running backwards (200)
  ExtraMargin,         \* TC_QUEUE_MARGIN - TCQ_REVERSE_MARGIN (20)
  Ops                  \* the operations the planner uses

ASSUME SizeIsPositive == Size \in Nat \ {0}
ASSUME MarginsAreNat == TCQ_REVERSE_MARGIN \in Nat /\ ExtraMargin \in Nat \ {0}
ASSUME NoSegmentIsNone == NoSegment \notin Segments

VARIABLES queue, _len, _rlen, start, end, rend, allFull,  \* TC_QUEUE_STRUCT
          history,  \* history: the last segments popped and not stepped back into
          crowded   \* history: a put used the last slot outside history and queue

tcq == <<queue, _len, _rlen, start, end, rend, allFull>>
tcqVars == <<tcq, history, crowded>>

TC_QUEUE_MARGIN == TCQ_REVERSE_MARGIN + ExtraMargin
Places == 0 .. Size - 1

(* The last n elements of a sequence, or all of them.                         *)
Latest(s, n) == IF Len(s) <= n THEN s ELSE SubSeq(s, Len(s) - n + 1, Len(s))

tcqLast == queue[(end - 1 + Size) % Size]

tcqItem(n) == queue[(start + n) % Size]

(* tcqFull feeds emcmotStatus->queueFull (control.c:838), which nothing reads: *)
(* the appender goes on until tcqPut refuses.                                 *)
tcqFull == IF Size <= TC_QUEUE_MARGIN THEN allFull ELSE _len >= Size - TC_QUEUE_MARGIN

(* tcqCreate.                                                                 *)
tcqCreate ==
  /\ queue = [i \in Places |-> NoSegment]
  /\ _len = 0 /\ _rlen = 0 /\ start = 0 /\ end = 0 /\ rend = 0
  /\ allFull = FALSE
  /\ history = <<>>
  /\ crowded = FALSE

tcqInit ==
  /\ "Init" \in Ops
  /\ _len' = 0 /\ _rlen' = 0 /\ start' = 0 /\ end' = 0 /\ rend' = 0
  /\ allFull' = FALSE
  /\ history' = <<>>
  /\ crowded' = FALSE
  /\ UNCHANGED queue

tcqPut(tc) ==
  /\ ~allFull
  /\ queue' = [queue EXCEPT ![end] = tc]
  /\ _len' = _len + 1
  /\ end' = (end + 1) % Size
  /\ allFull' = (end' = start)
  /\ crowded' = (crowded \/ _len' + _rlen >= Size)
  /\ UNCHANGED <<_rlen, start, rend, history>>

tcqPopBack_TwoBack ==
  /\ "PopBack" \in Ops
  /\ _len >= 1
  /\ end' = (end - 2 + Size) % Size
  /\ _len' = _len - 1
  /\ UNCHANGED <<queue, _rlen, start, rend, allFull, history, crowded>>

tcqPopBack_Twice ==
  /\ "PopBack" \in Ops
  /\ _len >= 2
  /\ end' = (end - 2 + Size) % Size
  /\ _len' = _len - 2
  /\ UNCHANGED <<queue, _rlen, start, rend, allFull, history, crowded>>

tcqPopBack ==
  /\ "PopBack" \in Ops
  /\ _len >= 1
  /\ end' = (end - 1 + Size) % Size
  /\ _len' = _len - 1
  /\ UNCHANGED <<queue, _rlen, start, rend, allFull, history, crowded>>

tcqPop_KeepsFlag ==
  /\ _len >= 1 \/ allFull
  /\ start' = (start + 1) % Size
  /\ _len' = _len - 1
  /\ IF _rlen < TCQ_REVERSE_MARGIN
       THEN _rlen' = _rlen + 1 /\ UNCHANGED rend
       ELSE rend' = (rend + 1) % Size /\ UNCHANGED _rlen
  /\ history' = Latest(Append(history, queue[start]), TCQ_REVERSE_MARGIN)
  /\ UNCHANGED <<queue, end, allFull, crowded>>

tcqPop_OneMore ==
  /\ _len >= 1 \/ allFull
  /\ start' = (start + 1) % Size
  /\ allFull' = FALSE
  /\ _len' = _len - 1
  /\ IF _rlen <= TCQ_REVERSE_MARGIN
       THEN _rlen' = _rlen + 1 /\ UNCHANGED rend
       ELSE rend' = (rend + 1) % Size /\ UNCHANGED _rlen
  /\ history' = Latest(Append(history, queue[start]), TCQ_REVERSE_MARGIN)
  /\ UNCHANGED <<queue, end, crowded>>

tcqPop ==
  /\ _len >= 1 \/ allFull
  /\ start' = (start + 1) % Size
  /\ allFull' = FALSE
  /\ _len' = _len - 1
  /\ IF _rlen < TCQ_REVERSE_MARGIN
       THEN _rlen' = _rlen + 1 /\ UNCHANGED rend
       ELSE rend' = (rend + 1) % Size /\ UNCHANGED _rlen
  /\ history' = Latest(Append(history, queue[start]), TCQ_REVERSE_MARGIN)
  /\ UNCHANGED <<queue, end, crowded>>

tcqRemove_OneShort(n) ==
  /\ "Remove" \in Ops
  /\ n > 0
  /\ start # end \/ allFull
  /\ n <= _len
  /\ start' = (start + n - 1) % Size
  /\ allFull' = FALSE
  /\ _len' = _len - n
  /\ UNCHANGED <<queue, _rlen, end, rend, history, crowded>>

tcqRemove(n) ==
  /\ "Remove" \in Ops
  /\ n > 0
  /\ start # end \/ allFull
  /\ n <= _len
  /\ start' = (start + n) % Size
  /\ allFull' = FALSE
  /\ _len' = _len - n
  /\ UNCHANGED <<queue, _rlen, end, rend, history, crowded>>

tcqBackStep ==
  /\ "BackStep" \in Ops
  /\ start # rend
  /\ start' = (start - 1 + Size) % Size
  /\ _len' = _len + 1
  /\ _rlen' = _rlen - 1
  /\ history' = SubSeq(history, 1, Len(history) - 1)
  /\ UNCHANGED <<queue, end, rend, allFull, crowded>>

(* Bound: a stale allFull can take _len out of this range (tcqPopBack on a    *)
(* full ring leaves the flag set); such a state is reached, not left.         *)
InRange == _len \in 0 .. Size

tcqNext ==
  \/ tcqInit
  \/ /\ InRange
     /\ \/ tcqPopBack \/ tcqPop \/ tcqBackStep
        \/ \E tc \in Segments : tcqPut(tc)
        \/ \E n \in 1 .. Size : tcqRemove(n)

tcqSpec == tcqCreate /\ [][tcqNext]_tcqVars
------------------------------------------------------------------------------
(* Properties.                                                                *)

(* Every field of TC_QUEUE_STRUCT keeps its type: the indices stay inside the *)
(* ring and the counts inside their limits.                                   *)
tcqTypeOK ==
  /\ queue \in [Places -> Segments \cup {NoSegment}]
  /\ _len \in 0 .. Size /\ _rlen \in 0 .. TCQ_REVERSE_MARGIN
  /\ start \in Places /\ end \in Places /\ rend \in Places
  /\ allFull \in BOOLEAN
  /\ history \in Seq(Segments)

(* The segments still to run, as tcqItem numbers them.                        *)
Ahead == [k \in 1 .. _len |-> tcqItem(k - 1)]

(* The segments before start, oldest first, as tcqBackStep meets them.        *)
Behind == [k \in 1 .. _rlen |-> queue[(start - _rlen + k - 1) % Size]]

Tape == INSTANCE SegmentTape
          WITH Capacity <- Size, Memory <- TCQ_REVERSE_MARGIN, ahead <- Ahead, behind <- history

(* Without the two operations that nothing calls today, tcqPopBack and        *)
(* tcqBackStep, the ring implements the tape, however full it is: none loses, *)
(* repeats, alters or reorders a segment that is still to run.                *)
ImplementsTape == Tape!Spec

(* With them the ring is the tape until a put uses its last free slot, and a  *)
(* step back runs the segment that was run last; tcqFull has said so by then, *)
(* were it asked.  After that put tcqPut overwrites segments still counted in *)
(* the history, and tcqPopBack leaves allFull set on a ring with room.        *)
TapeUntilCrowded ==
  /\ Tape!Init
  /\ [][~crowded => Tape!Next /\ (crowded' => tcqFull)]_(Tape!vars)

(* allFull is the "flag meaning it's actually full" (tcq.h:17): while there   *)
(* is room tcqPut accepts a segment.                                          *)
AllFullExact == allFull <=> _len = Size

(* _rlen is the "number of tcs now in reverse history" (tcq.h:14): the slots  *)
(* it counts hold the segments run last, as long as no put has used the last  *)
(* slot between the newest segment and the oldest of the history.             *)
HistoryIntact == ~crowded => Behind = history

(* The newest segment, which the planner blends with the next one, is the     *)
(* last of the segments to run: end and start + _len agree, however full the  *)
(* ring is and whatever allFull says.                                         *)
LastIsNewest == _len > 0 => tcqLast = Ahead[_len]
==============================================================================
