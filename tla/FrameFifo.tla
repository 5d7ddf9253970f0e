------------------------------ MODULE FrameFifo ------------------------------
(* What the receive path of the socket layer promises its reader: a bounded  *)
(* first-in first-out queue.  A frame the queue has no room for is refused,  *)
(* none is lost, repeated or overtaken.  The n-th frame has place            *)
(* n % Capacity; one that has a sound place is handed over unaltered, for    *)
(* another anything may be found in its turn.                                *)
EXTENDS Integers, Sequences

CONSTANTS Frames,    \* what the peer can send
          NoFrame,   \* what is found where others have written
          Capacity,  \* number of frames the queue holds
          Sound      \* places that keep what is put there

VARIABLES queue,     \* accepted frames not yet handed to the reader
          delivered  \* every frame handed to the reader so far, in order

vars == <<queue, delivered>>

Content == Frames \cup {NoFrame}

TypeOK == /\ queue \in Seq(Content)
          /\ Len(queue) <= Capacity
          /\ delivered \in Seq(Content)

(* The place of the k-th frame of the queue.                                 *)
Place(k) == (Len(delivered) + k - 1) % Capacity

(* What may be found at the place of the k-th frame, when f was put there.   *)
Found(k, f) == IF Place(k) \in Sound THEN {f} ELSE Content

Init == /\ queue = <<>>
        /\ delivered = <<>>

Put(f) == /\ Len(queue) < Capacity
          /\ \E g \in Found(Len(queue) + 1, f) : queue' = Append(queue, g)
          /\ UNCHANGED delivered

Get == /\ queue # <<>>
       /\ \E g \in Found(1, Head(queue)) : delivered' = Append(delivered, g)
       /\ queue' = Tail(queue)

(* A frame without a sound place changes under the queue.                    *)
Spoil(k) == /\ Place(k) \notin Sound
            /\ queue' = [queue EXCEPT ![k] = NoFrame]
            /\ UNCHANGED delivered

Next == \/ \E f \in Frames : Put(f)
        \/ Get
        \/ \E k \in 1 .. Len(queue) : Spoil(k)

Spec == Init /\ [][Next]_vars
==============================================================================
