----------------------------- MODULE RtapiProofs -----------------------------
(* Proofs about Rtapi, for any number of threads, periods, messages, kills    *)
(* and restarts, and a clock without bound.                                   *)
(*                                                                            *)
(* A timespec is the quotient and the remainder of a time by OneSec; advance  *)
(* and less do on the pairs what + and < do on the times, whatever OneSec is. *)
(* The table of handles is, at every point of the start-up, the one that the  *)
(* calls made so far lay out in a process that has done nothing, whatever     *)
(* segments the last session left.                                            *)
EXTENDS Rtapi, FiniteSetTheorems, TLAPS

Logs == [queued : Nat, hand : {0, 1}, owed : Nat, reader : {"test", "consume", "gone"},
         cancelled : BOOLEAN, complained : BOOLEAN]

(* What LogKept says, of any log, with its type.                              *)
Kept(l) == l \in Logs /\ l.owed = l.queued + l.hand

ThreadType ==
  /\ now \in Nat
  /\ threads \in [Threads -> [alive : BOOLEAN, asleep : BOOLEAN, born : Nat, passes : Nat,
                              nextstart : [sec : Int, nsec : Int]]]

(* The start of the next pass of t.                                           *)
Due(t) == threads[t].born + (threads[t].passes + 1) * Period[t]

Scheduled(t) ==
  threads[t].alive =>
    /\ threads[t].nextstart = Timespec(Due(t))
    /\ threads[t].passes > 0 /\ ~threads[t].asleep => now >= Due(t)

ScheduleInv == ThreadType /\ \A t \in Threads : Scheduled(t)

------------------------------------------------------------------------------
(* Quotient and remainder.                                                    *)
LEMMA DivMod ==
  ASSUME NEW n \in Nat
  PROVE  /\ n \div OneSec \in Nat /\ n % OneSec \in 0 .. OneSec - 1
         /\ n = (n \div OneSec) * OneSec + (n % OneSec)
  BY RtapiAssumption

(* They are the only ones.                                                    *)
LEMMA DivModUnique ==
  ASSUME NEW q \in Nat, NEW r \in 0 .. OneSec - 1
  PROVE  (q * OneSec + r) \div OneSec = q /\ (q * OneSec + r) % OneSec = r
  BY RtapiAssumption

(* A time as a timespec is normal, and is the time again.                     *)
LEMMA Parts ==
  ASSUME NEW n \in Nat
  PROVE  /\ Timespec(n).sec \in Nat /\ Timespec(n).nsec \in 0 .. OneSec - 1
         /\ n = Timespec(n).sec * OneSec + Timespec(n).nsec
         /\ Time(Timespec(n)) = n
  BY DivMod DEF Timespec, Time

(* rtapi_timespec_advance adds.                                               *)
LEMMA AdvanceIsPlus ==
  ASSUME NEW n \in Nat, NEW m \in Nat
  PROVE  rtapi_timespec_advance(Timespec(n), m) = Timespec(n + m)
<1> DEFINE q == n \div OneSec
           r == n % OneSec
           q2 == m \div OneSec
           r2 == m % OneSec
<1>1. q \in Nat /\ r \in 0 .. OneSec - 1 /\ n = q * OneSec + r
  BY DivMod
<1>2. q2 \in Nat /\ r2 \in 0 .. OneSec - 1 /\ m = q2 * OneSec + r2
  BY DivMod
<1>3. OneSec \in Nat
  BY RtapiAssumption
<1>4. rtapi_timespec_advance(Timespec(n), m) =
        [sec |-> q + q2 + (IF r2 + r >= OneSec THEN 1 ELSE 0),
         nsec |-> (r2 + r) - (IF r2 + r >= OneSec THEN 1 ELSE 0) * OneSec]
  BY DEF rtapi_timespec_advance, Timespec
<1> HIDE DEF q, r, q2, r2
<1>5. CASE r2 + r < OneSec
  <2>1. n + m = (q + q2) * OneSec + (r2 + r)
    BY <1>1, <1>2, <1>3
  <2>2. q + q2 \in Nat /\ r2 + r \in 0 .. OneSec - 1
    BY <1>1, <1>2, <1>3, <1>5
  <2>3. (n + m) \div OneSec = q + q2 /\ (n + m) % OneSec = r2 + r
    BY <2>1, <2>2, DivModUnique
  <2>4. (IF r2 + r >= OneSec THEN 1 ELSE 0) = 0
    BY <1>1, <1>2, <1>3, <1>5
  <2>5. QED
    BY <1>1, <1>2, <1>3, <1>4, <2>3, <2>4 DEF Timespec
<1>6. CASE r2 + r >= OneSec
  <2>1. n + m = (q + q2 + 1) * OneSec + (r2 + r - OneSec)
    BY <1>1, <1>2, <1>3
  <2>2. q + q2 + 1 \in Nat /\ r2 + r - OneSec \in 0 .. OneSec - 1
    BY <1>1, <1>2, <1>3, <1>6
  <2>3. (n + m) \div OneSec = q + q2 + 1 /\ (n + m) % OneSec = r2 + r - OneSec
    BY <2>1, <2>2, DivModUnique
  <2>5. QED
    BY <1>1, <1>2, <1>3, <1>4, <1>6, <2>3 DEF Timespec
<1>7. QED
  BY <1>1, <1>2, <1>3, <1>5, <1>6

(* rtapi_timespec_less compares.                                              *)
LEMMA LessIsLess ==
  ASSUME NEW n \in Nat, NEW m \in Nat
  PROVE  rtapi_timespec_less(Timespec(n), Timespec(m)) <=> n < m
<1> DEFINE q == Timespec(n).sec
           r == Timespec(n).nsec
           q2 == Timespec(m).sec
           r2 == Timespec(m).nsec
<1>1. q \in Nat /\ r \in 0 .. OneSec - 1 /\ n = q * OneSec + r
  BY Parts
<1>2. q2 \in Nat /\ r2 \in 0 .. OneSec - 1 /\ m = q2 * OneSec + r2
  BY Parts
<1>3. OneSec \in Nat
  BY RtapiAssumption
<1>4. rtapi_timespec_less(Timespec(n), Timespec(m)) <=> q < q2 \/ (q = q2 /\ r < r2)
  BY DEF rtapi_timespec_less
<1> HIDE DEF q, r, q2, r2
<1>5. CASE q < q2
  <2>1. q * OneSec + OneSec <= q2 * OneSec
    BY <1>1, <1>2, <1>3, <1>5
  <2>2. QED
    BY <1>1, <1>2, <1>3, <1>4, <1>5, <2>1
<1>6. CASE q2 < q
  <2>1. q2 * OneSec + OneSec <= q * OneSec
    BY <1>1, <1>2, <1>3, <1>6
  <2>2. QED
    BY <1>1, <1>2, <1>3, <1>4, <1>6, <2>1
<1>7. CASE q = q2
  BY <1>1, <1>2, <1>3, <1>4, <1>7
<1>8. QED
  BY <1>1, <1>2, <1>5, <1>6, <1>7

------------------------------------------------------------------------------
(* The log.                                                                   *)

(* What moves along in the log.                                               *)
LEMMA Changed ==
  ASSUME NEW l \in Logs, NEW q \in Nat, NEW h \in {0, 1}, NEW o \in Nat, o = q + h
  PROVE  /\ l.hand = h => Kept([l EXCEPT !.queued = q, !.owed = o])
         /\ l.owed = o => Kept([l EXCEPT !.hand = h, !.queued = q])
         /\ l.queued = q => Kept([l EXCEPT !.owed = o, !.hand = h])
<1>1. CASE l.hand = h
  <2> DEFINE m == [l EXCEPT !.queued = q, !.owed = o]
  <2>1. m \in Logs /\ m.queued = q /\ m.owed = o /\ m.hand = l.hand
    BY DEF Logs
  <2>2. QED
    BY <1>1, <2>1, Zenon DEF Kept
<1>2. CASE l.owed = o
  <2> DEFINE m == [l EXCEPT !.hand = h, !.queued = q]
  <2>1. m \in Logs /\ m.queued = q /\ m.owed = l.owed /\ m.hand = h
    BY DEF Logs
  <2>2. QED
    BY <1>2, <2>1, Zenon DEF Kept
<1>3. CASE l.queued = q
  <2> DEFINE m == [l EXCEPT !.owed = o, !.hand = h]
  <2>1. m \in Logs /\ m.queued = l.queued /\ m.owed = o /\ m.hand = h
    BY DEF Logs
  <2>2. QED
    BY <1>3, <2>1, Zenon DEF Kept
<1>4. QED
  BY <1>1, <1>2, <1>3

(* A message is in the queue and owed, or neither.                            *)
LEMMA PrintKeeps ==
  ASSUME NEW l, Kept(l)
  PROVE  Kept(rtapi_print_msg(l)) /\ Kept(unexpected_realtime_delay(l))
<1>0. l \in Logs /\ l.queued \in Nat /\ l.hand \in {0, 1} /\ l.owed \in Nat /\ l.owed = l.queued + l.hand
  BY DEF Kept, Logs
<1>1. Kept(rtapi_print_msg(l))
  <2>1. CASE l.queued < Capacity
    <3>1. rtapi_print_msg(l) = [l EXCEPT !.queued = l.queued + 1, !.owed = l.owed + 1]
      BY <2>1 DEF rtapi_print_msg
    <3>2. l.queued + 1 \in Nat /\ l.owed + 1 \in Nat /\ l.owed + 1 = (l.queued + 1) + l.hand
      BY <1>0
    <3>3. Kept([l EXCEPT !.queued = l.queued + 1, !.owed = l.owed + 1])
      BY <1>0, <3>2, Changed, Zenon
    <3>4. QED
      BY <3>1, <3>3, Zenon
  <2>2. CASE ~(l.queued < Capacity)
    BY <2>2 DEF Kept, rtapi_print_msg, Logs
  <2>3. QED
    BY <2>1, <2>2
<1>2. Kept([rtapi_print_msg(l) EXCEPT !.complained = TRUE])
  BY <1>1 DEF Kept, Logs
<1>3. QED
  BY <1>1, <1>2 DEF unexpected_realtime_delay

(* Every step keeps every message owed in the queue or in the reader's hand.  *)
LEMMA LogStep == Kept(log) /\ [Next]_vars => Kept(log')
<1> SUFFICES ASSUME Kept(log), [Next]_vars PROVE Kept(log')
  OBVIOUS
<1>0. /\ log \in Logs /\ log.queued \in Nat /\ log.hand \in {0, 1} /\ log.owed \in Nat
      /\ log.owed = log.queued + log.hand
  BY DEF Kept, Logs
<1>1. CASE UNCHANGED log
  BY <1>1
<1>2. CASE log' \in {rtapi_print_msg(log), unexpected_realtime_delay(log)}
  BY <1>2, PrintKeeps
<1>3. CASE queue_function
  <2>1. CASE log.reader = "test" /\ log' = [log EXCEPT !.reader = IF log.cancelled THEN "gone" ELSE "consume"]
    BY <2>1 DEF Kept, Logs
  <2>2. CASE /\ log.reader = "consume" /\ log.hand = 0 /\ log.queued > 0
             /\ log' = [log EXCEPT !.hand = 1, !.queued = @ - 1]
    <3>1. log.queued - 1 \in Nat /\ log.owed = (log.queued - 1) + 1
      BY <1>0, <2>2
    <3>2. log' = [log EXCEPT !.hand = 1, !.queued = log.queued - 1]
      BY <2>2
    <3>3. Kept([log EXCEPT !.hand = 1, !.queued = log.queued - 1])
      BY <1>0, <3>1, Changed, Zenon
    <3>4. QED
      BY <3>2, <3>3, Zenon
  <2>3. CASE log.hand = 1 /\ log' = fputs(log)
    <3>1. log.owed - 1 \in Nat /\ log.owed - 1 = log.queued + 0
      BY <1>0, <2>3
    <3>2. log' = [log EXCEPT !.owed = log.owed - 1, !.hand = 0]
      BY <2>3 DEF fputs
    <3>3. Kept([log EXCEPT !.owed = log.owed - 1, !.hand = 0])
      BY <1>0, <3>1, Changed, Zenon
    <3>4. QED
      BY <3>2, <3>3, Zenon
  <2>4. CASE log' = [log EXCEPT !.reader = "test"]
    BY <2>4 DEF Kept, Logs
  <2>5. QED
    BY <1>3, <2>1, <2>2, <2>3, <2>4 DEF queue_function
<1>4. CASE CancelReader
  BY <1>4 DEF CancelReader, Kept, Logs
<1>5. CASE stopprintf
  <2>1. log.owed - log.queued \in Nat /\ log.owed - log.queued = 0 + log.hand
    BY <1>0
  <2>2. log' = [log EXCEPT !.queued = 0, !.owed = log.owed - log.queued]
    BY <1>5 DEF stopprintf
  <2>3. Kept([log EXCEPT !.queued = 0, !.owed = log.owed - log.queued])
    <3>1. 0 \in Nat
      OBVIOUS
    <3>2. QED
      BY <1>0, <2>1, <3>1, Changed, Zenon
  <2>4. QED
    BY <2>2, <2>3, Zenon
<1>6. CASE log' = NewLog
  BY <1>6 DEF NewLog, Kept, Logs
<1>7. CASE Main
  <2>1. CASE EnterInit \/ rtapi_init \/ EnterHal \/ LeaveHal \/ StartThreads
    BY <1>1, <2>1 DEF EnterInit, rtapi_init, EnterHal, LeaveHal, StartThreads
  <2>2. CASE RefuseInit
    BY <1>2, <2>2 DEF RefuseInit
  <2>3. ASSUME NEW granted \in BOOLEAN, ModuleSegment(granted) PROVE Kept(log')
    BY <1>1, <1>2, <2>3 DEF ModuleSegment
  <2>4. ASSUME NEW granted \in BOOLEAN, rtapi_task_start(granted) PROVE Kept(log')
    BY <1>2, <2>4 DEF rtapi_task_start
  <2>5. QED
    BY <1>7, <2>1, <2>2, <2>3, <2>4 DEF Main
<1>8. ASSUME NEW t \in Threads, Posix_wait(t) PROVE Kept(log')
  BY <1>1, <1>2, <1>8 DEF Posix_wait
<1>9. CASE Exit \/ Kill
  BY <1>6, <1>9 DEF Exit, Kill, EndWith
<1>10. CASE Quit \/ Tick \/ Restart \/ UNCHANGED vars \/ (\E t \in Threads : Wake(t))
            \/ (\E word \in Pointers : ecatthread(word))
  BY <1>1, <1>10 DEF Quit, Tick, Restart, vars, Wake, ecatthread
<1>11. QED
  BY <1>3, <1>4, <1>5, <1>7, <1>8, <1>9, <1>10 DEF Next

(* The log loses no message it accepted, through the cancellation of its      *)
(* reader (queue_function and stopprintf of uspace_rtapi_app.cpp).            *)
THEOREM LogIsKept == Spec => []LogKept
<1>1. Init => Kept(log)
  BY DEF Init, NewLog, Kept, Logs
<1>2. Kept(log) => LogKept
  BY DEF Kept, LogKept
<1>3. Kept(log) /\ [Next]_vars => Kept(log)'
  BY LogStep
<1>4. QED
  BY <1>1, <1>2, <1>3, PTL DEF Spec

------------------------------------------------------------------------------
(* The schedule.                                                              *)

(* It is a time.                                                              *)
LEMMA DueIsNat ==
  ASSUME ThreadType, NEW t \in Threads
  PROVE  Due(t) \in Nat
  BY RtapiAssumption DEF ThreadType, Due, Threads

(* Every thread is kept to its schedule by every step.                        *)
LEMMA ScheduleStep == ScheduleInv /\ [Next]_vars => ScheduleInv'
<1> SUFFICES ASSUME ScheduleInv, [Next]_vars PROVE ScheduleInv'
  OBVIOUS
<1>0. /\ now \in Nat /\ \A t \in Threads : Period[t] \in Nat \ {0}
      /\ \A n \in Nat : Timespec(n) \in [sec : Int, nsec : Int]
  BY RtapiAssumption, Parts DEF ScheduleInv, ThreadType, Threads, Timespec
<1>1. CASE UNCHANGED <<threads, now>>
  BY <1>1 DEF ScheduleInv, ThreadType, Scheduled, Due
<1>2. CASE /\ threads' = [t \in Threads |-> NoThread] /\ now' = 0
  BY <1>2 DEF NoThread, ScheduleInv, ThreadType, Scheduled
<1>3. CASE Tick
  BY <1>0, <1>3 DEF Tick, ScheduleInv, ThreadType, Scheduled, Due
<1>4. ASSUME NEW granted \in BOOLEAN, rtapi_task_start(granted) PROVE ScheduleInv'
  <2>1. CASE ~granted
    BY <1>1, <1>4, <2>1 DEF rtapi_task_start
  <2>2. CASE granted
    <3>5. PICK u : u = Call.who
      OBVIOUS
    <3> DEFINE new == [alive |-> TRUE, asleep |-> FALSE, born |-> now, passes |-> 0,
                       nextstart |-> rtapi_timespec_advance(Timespec(now), Period[u])]
    <3>1. threads' = [threads EXCEPT ![u] = new] /\ UNCHANGED now
      BY <1>4, <2>2, <3>5 DEF rtapi_task_start
    <3>2. CASE u \notin Threads
      <4>1. threads' = threads
        BY <3>1, <3>2 DEF ScheduleInv, ThreadType
      <4>2. QED
        BY <1>1, <3>1, <4>1
    <3>3. CASE u \in Threads
      <4>1. new.nextstart = Timespec(now + Period[u])
        BY <1>0, <3>3, AdvanceIsPlus
      <4>2. new.nextstart \in [sec : Int, nsec : Int] /\ now + Period[u] = now + (0 + 1) * Period[u]
        BY <1>0, <3>3, <4>1
      <4>3. ThreadType'
        BY <3>1, <3>3, <4>2 DEF ScheduleInv, ThreadType
      <4>4. Scheduled(u)'
        <5>1. /\ threads'[u].nextstart = Timespec(now + Period[u]) /\ threads'[u].born = now
              /\ threads'[u].passes = 0
          BY <3>1, <3>3, <4>1 DEF ScheduleInv, ThreadType
        <5>2. Due(u)' = now + (0 + 1) * Period[u]
          BY <5>1, Zenon DEF Due
        <5>3. ~(threads'[u].passes > 0) /\ threads'[u].nextstart = Timespec(Due(u)')
          BY <4>2, <5>1, <5>2
        <5>4. QED
          BY <5>3, Zenon DEF Scheduled
      <4>5. ASSUME NEW v \in Threads, v # u PROVE Scheduled(v)'
        BY <3>1, <4>5 DEF ScheduleInv, ThreadType, Scheduled, Due
      <4>6. QED
        BY <4>3, <4>4, <4>5 DEF ScheduleInv
    <3>4. QED
      BY <3>2, <3>3
  <2>3. QED
    BY <2>1, <2>2
<1>5. ASSUME NEW t \in Threads, Posix_wait(t) PROVE ScheduleInv'
  <2> DEFINE due == Due(t) + Period[t]
             nextstart == rtapi_timespec_advance(threads[t].nextstart, Period[t])
             late == rtapi_timespec_less(nextstart, Timespec(now))
  <2>1. /\ threads[t].alive /\ UNCHANGED now
        /\ threads' = [threads EXCEPT ![t].nextstart = nextstart, ![t].passes = @ + 1, ![t].asleep = ~late]
    BY <1>5 DEF Posix_wait, Passing
  <2>2. threads[t].nextstart = Timespec(Due(t)) /\ Due(t) \in Nat
    BY <2>1, DueIsNat DEF ScheduleInv, Scheduled
  <2>3. nextstart = Timespec(due) /\ due \in Nat
    BY <1>0, <2>2, AdvanceIsPlus
  <2>4. late <=> due < now
    BY <1>0, <2>3, LessIsLess
  <2>5. due = threads[t].born + ((threads[t].passes + 1) + 1) * Period[t]
    <3> DEFINE b == threads[t].born
               n == threads[t].passes
               p == Period[t]
    <3>1. b \in Nat /\ n \in Nat /\ p \in Nat
      BY <1>0 DEF ScheduleInv, ThreadType
    <3> HIDE DEF b, n, p
    <3>2. b + (n + 1) * p + p = b + ((n + 1) + 1) * p
      BY <3>1
    <3>3. QED
      BY <3>2, Zenon DEF b, n, p, Due
  <2> HIDE DEF due, nextstart, late
  <2>6. /\ threads'[t].nextstart = Timespec(due) /\ threads'[t].passes = threads[t].passes + 1
        /\ threads'[t].born = threads[t].born
    BY <2>1, <2>3 DEF ScheduleInv, ThreadType
  <2>7. ~threads'[t].asleep => now' >= due
    <3>1. ~threads'[t].asleep => late
      BY <2>1 DEF ScheduleInv, ThreadType
    <3>2. QED
      BY <1>0, <2>1, <2>3, <2>4, <3>1
  <2>8. ThreadType'
    <3>1. Timespec(due) \in [sec : Int, nsec : Int] /\ threads[t].passes + 1 \in Nat
      BY <1>0, <2>3 DEF ScheduleInv, ThreadType
    <3>2. (~late) \in BOOLEAN
      OBVIOUS
    <3>3. QED
      BY <2>1, <2>3, <3>1, <3>2 DEF ScheduleInv, ThreadType
  <2>9. Due(t)' = due
    BY <2>5, <2>6 DEF Due
  <2>10. Scheduled(t)'
    BY <2>6, <2>7, <2>9 DEF Scheduled
  <2>11. ASSUME NEW v \in Threads, v # t PROVE Scheduled(v)'
    BY <2>1, <2>11 DEF ScheduleInv, ThreadType, Scheduled, Due
  <2>12. QED
    BY <2>8, <2>10, <2>11 DEF ScheduleInv
<1>6. ASSUME NEW t \in Threads, Wake(t) PROVE ScheduleInv'
  <2>1. threads' = [threads EXCEPT ![t].asleep = FALSE] /\ UNCHANGED now
    BY <1>6 DEF Wake
  <2>2. ThreadType'
    BY <2>1 DEF ScheduleInv, ThreadType
  <2>3. threads[t].alive => now >= Due(t)
    <3>1. SUFFICES ASSUME threads[t].alive PROVE now >= Due(t)
      OBVIOUS
    <3>2. threads[t].nextstart = Timespec(Due(t)) /\ Due(t) \in Nat
      BY <3>1, DueIsNat DEF ScheduleInv, Scheduled
    <3>3. ~rtapi_timespec_less(Timespec(now), threads[t].nextstart)
      BY <1>6 DEF Wake
    <3>4. QED
      BY <1>0, <3>2, <3>3, LessIsLess
  <2>4. /\ threads'[t].alive = threads[t].alive /\ threads'[t].nextstart = threads[t].nextstart
        /\ threads'[t].born = threads[t].born /\ threads'[t].passes = threads[t].passes
    BY <2>1 DEF ScheduleInv, ThreadType
  <2>5. Scheduled(t)'
    BY <2>1, <2>3, <2>4 DEF ScheduleInv, Scheduled, Due
  <2>6. ASSUME NEW v \in Threads, v # t PROVE Scheduled(v)'
    BY <2>1, <2>6 DEF ScheduleInv, ThreadType, Scheduled, Due
  <2>7. QED
    BY <2>2, <2>5, <2>6 DEF ScheduleInv
<1>7. CASE Main
  <2>1. CASE EnterInit \/ RefuseInit \/ rtapi_init \/ EnterHal \/ LeaveHal \/ StartThreads
    BY <1>1, <2>1 DEF EnterInit, RefuseInit, rtapi_init, EnterHal, LeaveHal, StartThreads
  <2>2. ASSUME NEW granted \in BOOLEAN, ModuleSegment(granted) PROVE ScheduleInv'
    BY <1>1, <2>2 DEF ModuleSegment
  <2>3. QED
    BY <1>4, <1>7, <2>1, <2>2 DEF Main
<1>8. CASE Exit \/ Kill
  BY <1>2, <1>8 DEF Exit, Kill, EndWith
<1>9. CASE \/ Quit \/ CancelReader \/ stopprintf \/ queue_function \/ Restart \/ UNCHANGED vars
           \/ (\E word \in Pointers : ecatthread(word))
  BY <1>1, <1>9 DEF Quit, CancelReader, stopprintf, queue_function, Restart, vars, ecatthread
<1>10. QED
  BY <1>3, <1>5, <1>6, <1>7, <1>8, <1>9 DEF Next

(* Threads keep their time: the start of every pass is counted from the start *)
(* of the thread, and none but the first begins early (Posix_wait, task_start *)
(* and rtapi_timespec_advance), whatever the clock does.                      *)
THEOREM ThreadsAreOnSchedule == Spec => []OnSchedule
<1>1. Init => ScheduleInv
  BY DEF Init, NoThread, ScheduleInv, ThreadType, Scheduled
<1>2. ScheduleInv => OnSchedule
  <2> SUFFICES ASSUME ScheduleInv, NEW t \in Threads, threads[t].alive
               PROVE  /\ threads[t].nextstart = Timespec(Due(t))
                      /\ threads[t].passes > 0 /\ ~threads[t].asleep => now >= Time(threads[t].nextstart)
    BY DEF OnSchedule, Due
  <2>1. /\ threads[t].nextstart = Timespec(Due(t))
        /\ threads[t].passes > 0 /\ ~threads[t].asleep => now >= Due(t)
    BY DEF ScheduleInv, Scheduled
  <2>2. Time(Timespec(Due(t))) = Due(t)
    BY DueIsNat, Parts DEF ScheduleInv
  <2>3. QED
    BY <2>1, <2>2
<1>3. QED
  BY <1>1, <1>2, ScheduleStep, PTL DEF Spec

------------------------------------------------------------------------------
(* Who has a segment when the start-up has reached its call n.                *)
Attaches(i, key) == Startup[i].op \in {"init", "new"} /\ Startup[i].key = key
Users(key, n) == {i \in 1 .. n : Attaches(i, key)}
Inits(n) == {i \in 1 .. n : Startup[i].op = "init"}

(* Where its handle is, and who asks for it first.                            *)
Home == [UUID |-> 0, HAL |-> 1, DEFAULT |-> 2]
First == [UUID |-> Sizes["uuid"], HAL |-> Sizes["hal"], DEFAULT |-> Sizes["socket"]]

Entries == [key : Keys \cup {"none"}, count : Int]

Entry(key, n) == IF Users(key, n) = {} THEN Free ELSE [key |-> key, count |-> Cardinality(Users(key, n))]

(* The table of handles when the start-up has reached its call n.             *)
LaidOut(handles, n) ==
  /\ handles \in [Handles -> Entries]
  /\ \A key \in Keys : handles[Home[key]] = Entry(key, n)
  /\ \A h \in Handles : h > 2 => handles[h] = Free

(* A key is at its place and no other, if it has users.                       *)
AtHome(handles, key, n) ==
  /\ Home[key] \in Handles
  /\ handles[Home[key]] = Entry(key, n)
  /\ \A h \in Handles : handles[h].key = key <=> (h = Home[key] /\ Users(key, n) # {})

(* The calls of the start-up.                                                 *)
LEMMA FirstCalls ==
  /\ Len(Startup) = 24
  /\ Startup[1] = Attach /\ Startup[2] = Segment("hal", "HAL") /\ Startup[3] = InHal
  /\ Startup[4] = Attach /\ Startup[5] = Segment("socket", "DEFAULT") /\ Startup[6] = Attach
  /\ Startup[7] = InHal /\ Startup[8] = Task("client_p") /\ Startup[9] = Attach /\ Startup[10] = InHal
  BY DEF Startup, hal_app_main, socket_thread_main, motion_thread_main, ecat_thread_main, hal_init

(* The rest.                                                                  *)
LEMMA LastCalls ==
  /\ Startup[11] = Task("client_s") /\ Startup[12] = Attach /\ Startup[13] = InHal
  /\ Startup[14] = Attach /\ Startup[15] = InHal /\ Startup[16] = Segment("motion", "DEFAULT")
  /\ Startup[17] = Task("motion-thread") /\ Startup[18] = Attach /\ Startup[19] = InHal
  /\ Startup[20] = Attach /\ Startup[21] = InHal
  /\ Startup[22] = Task("ecat-thread") /\ Startup[23] = Attach /\ Startup[24] = InHal
  BY DEF Startup, hal_app_main, socket_thread_main, motion_thread_main, ecat_thread_main, hal_init

(* Their order: the ids first, the HAL second, the socket module before the   *)
(* motion module.                                                             *)
LEMMA CallsInOrder ==
  /\ Attaches(1, "UUID") /\ Attaches(2, "HAL") /\ Attaches(5, "DEFAULT")
  /\ \A i \in 1 .. 24 :
       /\ Startup[i].op \in {"init", "new", "hal", "task"}
       /\ Startup[i].op = "init" => Startup[i].key = "UUID" /\ Startup[i].who = "uuid"
       /\ Startup[i].op = "new" => \/ i = 2 /\ Startup[i].key = "HAL" /\ Startup[i].who = "hal"
                                   \/ i = 5 /\ Startup[i].key = "DEFAULT" /\ Startup[i].who = "socket"
                                   \/ i = 16 /\ Startup[i].key = "DEFAULT" /\ Startup[i].who = "motion"
<1>1. /\ Attach.op = "init" /\ Attach.key = "UUID" /\ Attach.who = "uuid" /\ InHal.op = "hal"
      /\ \A w, k : Segment(w, k).op = "new" /\ Segment(w, k).key = k /\ Segment(w, k).who = w
      /\ \A t : Task(t).op = "task"
  BY DEF Attach, InHal, Segment, Task
<1>2. Attaches(1, "UUID") /\ Attaches(2, "HAL") /\ Attaches(5, "DEFAULT")
  BY <1>1, FirstCalls DEF Attaches
<1>3. ASSUME NEW i \in 1 .. 10
      PROVE  /\ Startup[i].op \in {"init", "new", "hal", "task"}
             /\ Startup[i].op = "init" => Startup[i].key = "UUID" /\ Startup[i].who = "uuid"
             /\ Startup[i].op = "new" => \/ i = 2 /\ Startup[i].key = "HAL" /\ Startup[i].who = "hal"
                                         \/ i = 5 /\ Startup[i].key = "DEFAULT" /\ Startup[i].who = "socket"
  <2>1. i \in {1, 2, 3, 4, 5, 6, 7, 8, 9, 10}
    OBVIOUS
  <2>2. QED
    BY <1>1, <2>1, FirstCalls
<1>4. ASSUME NEW i \in 11 .. 24
      PROVE  /\ Startup[i].op \in {"init", "new", "hal", "task"}
             /\ Startup[i].op = "init" => Startup[i].key = "UUID" /\ Startup[i].who = "uuid"
             /\ Startup[i].op = "new" => i = 16 /\ Startup[i].key = "DEFAULT" /\ Startup[i].who = "motion"
  <2>1. i \in {11, 12, 13, 14, 15, 16, 17, 18, 19, 20, 21, 22, 23, 24}
    OBVIOUS
  <2>2. QED
    BY <1>1, <2>1, LastCalls
<1>5. \A i \in 1 .. 24 : i \in 1 .. 10 \/ i \in 11 .. 24
  OBVIOUS
<1>6. QED
  BY <1>2, <1>3, <1>4, <1>5

(* The users of a segment grow by one at each call that attaches to it.       *)
LEMMA UsersGrow ==
  ASSUME NEW key, NEW n \in 0 .. 24
  PROVE  /\ IsFiniteSet(Users(key, n)) /\ Cardinality(Users(key, n)) \in Nat
         /\ Users(key, 0) = {}
         /\ n > 0 /\ ~Attaches(n, key) => Users(key, n) = Users(key, n - 1)
         /\ n > 0 /\ Attaches(n, key) =>
              /\ Users(key, n) # {} 
              /\ Users(key, n) = Users(key, n - 1) \cup {n}
              /\ Cardinality(Users(key, n)) = Cardinality(Users(key, n - 1)) + 1
<1>1. \A m \in 0 .. 24 : IsFiniteSet(Users(key, m)) /\ Cardinality(Users(key, m)) \in Nat
  <2> TAKE m \in 0 .. 24
  <2>1. IsFiniteSet(1 .. m) /\ Users(key, m) \subseteq 1 .. m
    BY FS_Interval DEF Users
  <2>2. QED
    BY <2>1, FS_Subset, FS_CardinalityType
<1>2. Users(key, 0) = {}
  BY DEF Users
<1>0. n > 0 => 1 .. n = (1 .. n - 1) \cup {n} /\ n \notin 1 .. n - 1
  OBVIOUS
<1>3. CASE n > 0 /\ ~Attaches(n, key)
  <2>1. Users(key, n) = Users(key, n - 1)
    BY <1>0, <1>3, Zenon DEF Users
  <2>2. QED
    BY <1>1, <1>2, <1>3, <2>1
<1>4. CASE n > 0 /\ Attaches(n, key)
  <2>1. Users(key, n) = Users(key, n - 1) \cup {n} /\ n \notin Users(key, n - 1)
    BY <1>0, <1>4, Zenon DEF Users
  <2>2. n - 1 \in 0 .. 24
    BY <1>4
  <2>3. Cardinality(Users(key, n)) = Cardinality(Users(key, n - 1)) + 1
    BY <1>1, <2>1, <2>2, FS_AddElement
  <2>4. QED
    BY <1>1, <1>2, <1>4, <2>1, <2>3
<1>5. QED
  BY <1>1, <1>2, <1>3, <1>4

(* So do the ids handed out.                                                  *)
LEMMA InitsGrow ==
  ASSUME NEW n \in 1 .. 24
  PROVE  /\ Inits(0) = {} /\ IsFiniteSet(Inits(n)) 
         /\ Startup[n].op # "init" => Inits(n) = Inits(n - 1)
         /\ Startup[n].op = "init" => Cardinality(Inits(n)) = Cardinality(Inits(n - 1)) + 1
<1>1. \A m \in 0 .. 24 : IsFiniteSet(Inits(m)) 
  <2> TAKE m \in 0 .. 24
  <2>1. IsFiniteSet(1 .. m) /\ Inits(m) \subseteq 1 .. m
    BY FS_Interval DEF Inits
  <2>2. QED
    BY <2>1, FS_Subset
<1>2. Inits(0) = {}
  BY DEF Inits
<1>0. 1 .. n = (1 .. n - 1) \cup {n} /\ n \notin 1 .. n - 1 /\ n - 1 \in 0 .. 24 /\ n \in 0 .. 24
  OBVIOUS
<1>3. CASE Startup[n].op # "init"
  <2>1. Inits(n) = Inits(n - 1)
    BY <1>0, <1>3, Zenon DEF Inits
  <2>2. QED
    BY <1>0, <1>1, <1>2, <1>3, <2>1
<1>4. CASE Startup[n].op = "init"
  <2>1. Inits(n) = Inits(n - 1) \cup {n} /\ n \notin Inits(n - 1) /\ n - 1 \in 0 .. 24
    BY <1>0, <1>4, Zenon DEF Inits
  <2>2. QED
    BY <1>0, <1>1, <1>2, <1>4, <2>1, FS_AddElement
<1>5. QED
  BY <1>3, <1>4

(* What has been attached by call n.                                          *)
LEMMA UsersInOrder ==
  ASSUME NEW n \in 0 .. 24
  PROVE  /\ n >= 1 => Users("UUID", n) # {}
         /\ n >= 2 => Users("HAL", n) # {}
         /\ n >= 5 => Users("DEFAULT", n) # {}
<1>1. n >= 1 => 1 \in Users("UUID", n)
  BY CallsInOrder DEF Users
<1>2. n >= 2 => 2 \in Users("HAL", n)
  BY CallsInOrder DEF Users
<1>3. n >= 5 => 5 \in Users("DEFAULT", n)
  BY CallsInOrder DEF Users
<1>4. QED
  BY <1>1, <1>2, <1>3

(* The table of a process that has done nothing.                              *)
LEMMA EmptyTable == LaidOut(NewProcess.handles, 0)
<1>1. \A key \in Keys : Entry(key, 0) = Free /\ Home[key] \in Handles
  BY UsersGrow, SegmentsFit, RtapiAssumption DEF Entry, Keys, Home, Handles
<1>2. Free \in Entries
  BY DEF Free, Entries
<1>3. NewProcess.handles = [h \in Handles |-> Free]
  BY DEF NewProcess
<1>4. QED
  BY <1>1, <1>2, <1>3 DEF LaidOut

(* A key is in the table from its first user on, at its place and no other.   *)
LEMMA KeysAtHome ==
  ASSUME NEW n \in 0 .. 24, NEW handles, LaidOut(handles, n), NEW key \in Keys
  PROVE  AtHome(handles, key, n)
<1>1. Home[key] \in Handles /\ Home[key] \in 0 .. 2
  BY SegmentsFit, RtapiAssumption DEF Keys, Home, Handles
<1>2. handles[Home[key]] = Entry(key, n)
  BY DEF LaidOut
<1>3. Free.key = "none" /\ "none" \notin Keys
  BY DEF Free, Keys
<1>4. \A k \in Keys : Users(k, n) # {} => Entry(k, n).key = k
  BY DEF Entry
<1>5. ASSUME NEW h \in Handles, handles[h].key = key
      PROVE  h = Home[key] /\ Users(key, n) # {}
  <2>1. handles[h] # Free
    BY <1>3, <1>5
  <2>2. h \in 0 .. 2
    BY <2>1, RtapiAssumption DEF LaidOut, Handles
  <2>3. PICK k \in Keys : h = Home[k]
    BY <2>2 DEF Home, Keys
  <2>4. handles[h] = Entry(k, n)
    BY <2>3 DEF LaidOut
  <2>5. Users(k, n) # {} /\ k = key
    BY <1>4, <1>5, <2>1, <2>4 DEF Entry
  <2>6. QED
    BY <2>3, <2>5
<1>6. Users(key, n) # {} => handles[Home[key]].key = key
  BY <1>2, <1>4
<1>7. QED
  BY <1>1, <1>2, <1>5, <1>6 DEF Entry, AtHome

FreeIn(handles) == {h \in Handles : handles[h] = Free}

(* The next free handle is the home of a key that comes for the first time,   *)
(* and it comes with the size that the segment will have.                     *)
LEMMA FirstFree ==
  ASSUME NEW m \in 0 .. 23, NEW n, n = m + 1, NEW handles, LaidOut(handles, m), NEW key \in Keys,
         Attaches(n, key), Users(key, m) = {}
  PROVE  /\ Min(FreeIn(handles)) = Home[key]
         /\ Sizes[Startup[n].who] = First[key]
<1> DEFINE S == FreeIn(handles)
<1>0. m \in 0 .. 24 /\ n \in 1 .. 24
  OBVIOUS
<1>1. Home[key] \in S
  <2>1. AtHome(handles, key, m)
    BY <1>0, KeysAtHome, Zenon
  <2>2. QED
    BY <2>1 DEF AtHome, Entry, FreeIn
<1>2. \/ key = "UUID" /\ n = 1 /\ Startup[n].who = "uuid"
      \/ key = "HAL" /\ n = 2 /\ Startup[n].who = "hal"
      \/ key = "DEFAULT" /\ n = 5 /\ Startup[n].who = "socket"
  <2>1. key = "UUID" => n < 2
    BY <1>0, UsersInOrder
  <2>2. key = "HAL" => n < 3
    BY <1>0, UsersInOrder
  <2>3. key = "DEFAULT" => n < 6
    BY <1>0, UsersInOrder
  <2>4. CASE Startup[n].op = "init"
    BY <2>1, <2>4, CallsInOrder DEF Attaches
  <2>5. CASE Startup[n].op = "new"
    <3>1. \/ n = 2 /\ key = "HAL" /\ Startup[n].who = "hal"
          \/ n = 5 /\ key = "DEFAULT" /\ Startup[n].who = "socket"
          \/ n = 16 /\ key = "DEFAULT"
      BY <2>5, CallsInOrder DEF Attaches
    <3>2. QED
      BY <2>3, <3>1
  <2>6. QED
    BY <2>4, <2>5 DEF Attaches
<1>3. ASSUME NEW h \in S PROVE Home[key] <= h
  <2>1. \A k \in Keys : Users(k, m) # {} => h # Home[k]
    <3> SUFFICES ASSUME NEW k \in Keys, Users(k, m) # {}, h = Home[k] PROVE FALSE
      OBVIOUS
    <3>1. handles[h].key = k
      <4>1. AtHome(handles, k, m)
        BY <1>0, KeysAtHome, Zenon
      <4>2. QED
        BY <4>1 DEF AtHome, FreeIn
    <3>2. handles[h] = Free /\ Free.key = "none" /\ "none" \notin Keys
      BY DEF Free, Keys, FreeIn
    <3>3. QED
      BY <3>1, <3>2
  <2>2. h \in Nat
    BY DEF Handles, FreeIn
  <2>3. n >= 2 => h # 0
    BY <1>0, <2>1, UsersInOrder DEF Home, Keys
  <2>4. n >= 3 => h # 1
    BY <1>0, <2>1, UsersInOrder DEF Home, Keys
  <2>5. QED
    BY <1>2, <2>2, <2>3, <2>4 DEF Home
<1>4. Min(S) = Home[key]
  <2>1. \A x \in S : (\A y \in S : x <= y) => x = Home[key]
    BY <1>1, <1>3 DEF Handles, FreeIn
  <2>2. QED
    BY <1>1, <1>3, <2>1 DEF Min
<1>5. Sizes[Startup[n].who] = First[key]
  BY <1>2 DEF First
<1>6. QED
  BY <1>4, <1>5

(* Every segment has a size.                                                  *)
LEMMA FirstIsNat ==
  ASSUME NEW key \in Keys
  PROVE  First[key] \in Nat /\ First[key] > 0
  BY SegmentsFit, RtapiAssumption DEF First, Keys

(* The table after one more user ...                                          *)
LEMMA Placed ==
  ASSUME NEW m \in 0 .. 23, NEW n, n = m + 1, NEW handles, LaidOut(handles, m), NEW key \in Keys,
         Attaches(n, key)
  PROVE  LaidOut([handles EXCEPT ![Home[key]] = Entry(key, n)], n)
<1> DEFINE new == [handles EXCEPT ![Home[key]] = Entry(key, n)]
<1>0. m \in 0 .. 24 /\ n \in 0 .. 24 /\ n > 0 /\ n - 1 = m
  OBVIOUS
<1>1. Entry(key, n) \in Entries
  BY <1>0, UsersGrow DEF Entry, Entries, Free
<1>2. handles \in [Handles -> Entries] /\ Home[key] \in Handles /\ Home[key] <= 2
  BY SegmentsFit, RtapiAssumption DEF LaidOut, Home, Keys, Handles
<1>3. ASSUME NEW k \in Keys, k # key
      PROVE  Entry(k, n) = Entry(k, m) /\ Home[k] # Home[key]
  <2>1. ~Attaches(n, k)
    BY <1>3 DEF Attaches
  <2>2. Users(k, n) = Users(k, m)
    BY <1>0, <2>1, UsersGrow
  <2>3. QED
    BY <1>3, <2>2 DEF Entry, Home, Keys
<1>4. new \in [Handles -> Entries]
  BY <1>1, <1>2
<1>5. ASSUME NEW k \in Keys PROVE new[Home[k]] = Entry(k, n)
  <2>1. CASE k = key
    BY <1>2, <2>1
  <2>2. CASE k # key
    <3>1. handles[Home[k]] = Entry(k, m)
      BY DEF LaidOut
    <3>2. new[Home[k]] = handles[Home[k]]
      <4>1. Home[k] \in Handles /\ Home[k] # Home[key]
        BY <1>3, <2>2, SegmentsFit, RtapiAssumption DEF Home, Keys, Handles
      <4>2. QED
        BY <1>2, <4>1
    <3>3. QED
      BY <1>3, <2>2, <3>1, <3>2
  <2>3. QED
    BY <2>1, <2>2
<1>6. ASSUME NEW h \in Handles, h > 2 PROVE new[h] = Free
  <2>1. h # Home[key]
    BY <1>6 DEF Home, Keys, Handles
  <2>2. new[h] = handles[h]
    BY <1>2, <2>1
  <2>3. QED
    BY <1>6, <2>2 DEF LaidOut
<1>7. QED
  BY <1>4, <1>5, <1>6 DEF LaidOut

(* ... and after a call that attaches nothing.                                *)
LEMMA NothingPlaced ==
  ASSUME NEW m \in 0 .. 23, NEW n, n = m + 1, NEW handles, LaidOut(handles, m),
         Startup[n].op \notin {"init", "new"}
  PROVE  LaidOut(handles, n) /\ \A key \in Keys : Users(key, n) = Users(key, m)
<1>1. n \in 0 .. 24 /\ n > 0 /\ n - 1 = m /\ \A key \in Keys : ~Attaches(n, key)
  BY DEF Attaches
<1>2. \A key \in Keys : Users(key, n) = Users(key, m)
  BY <1>1, UsersGrow
<1>3. \A key \in Keys : Entry(key, n) = Entry(key, m)
  BY <1>2 DEF Entry
<1>4. QED
  BY <1>2, <1>3 DEF LaidOut

------------------------------------------------------------------------------
(* The segments of the system.                                                *)
Segments == [size : [Keys -> Nat], taken : SUBSET Keys, uuid : Int]

(* A segment is not there or has the size its first user asked for, and it is *)
(* there if it has a user.                                                    *)
Sized(size, n) ==
  \A key \in Keys : size[key] \in {0, First[key]} /\ (Users(key, n) # {} => size[key] = First[key])

(* What rtapi_shmem_new does at call n to the segments o.                     *)
Counted(shm, o, n) ==
  /\ LaidOut(shm.handles, n) /\ shm.os \in Segments /\ Sized(shm.os.size, n)
  /\ shm.os.uuid = o.uuid

(* rtapi_shmem_new counts the caller, at the place of the key.                *)
LEMMA NewCounts ==
  ASSUME NEW m \in 0 .. 23, NEW n, n = m + 1, NEW handles, LaidOut(handles, m), NEW key \in Keys,
         Attaches(n, key), NEW o, o \in Segments, Sized(o.size, m), NEW shm,
         shm = rtapi_shmem_new([os |-> o, handles |-> handles], key, Sizes[Startup[n].who])
  PROVE  Counted(shm, o, n)
<1> DEFINE s == [os |-> o, handles |-> handles]
           size == Sizes[Startup[n].who]
<1>0. m \in 0 .. 24 /\ n \in 0 .. 24 /\ n > 0 /\ n - 1 = m
  OBVIOUS
<1>1. AtHome(handles, key, m)
  BY <1>0, KeysAtHome, Zenon
<1>2. LaidOut([handles EXCEPT ![Home[key]] = Entry(key, n)], n)
  BY Placed
<1>3. s.handles = handles /\ s.os = o /\ handles \in [Handles -> Entries]
  BY DEF LaidOut
<1>4. /\ \A k \in Keys : k # key => Users(k, n) = Users(k, m)
      /\ Users(key, n) # {} /\ Cardinality(Users(key, n)) = Cardinality(Users(key, m)) + 1
  <2>1. \A k \in Keys : k # key => ~Attaches(n, k)
    BY DEF Attaches
  <2>2. QED
    BY <1>0, <2>1, UsersGrow
<1>5. CASE Users(key, m) # {}
  <2>1. Holds(s, key) /\ HandleOf(s, key) = Home[key]
    BY <1>1, <1>3, <1>5 DEF AtHome, Holds, HandleOf
  <2>2. shm = [s EXCEPT !.handles[Home[key]].count = @ + 1]
    BY <2>1 DEF rtapi_shmem_new
  <2>3. shm.os = o /\ shm.handles = [handles EXCEPT ![Home[key]].count = @ + 1]
    BY <2>2
  <2>4. handles[Home[key]] = [key |-> key, count |-> Cardinality(Users(key, m))] /\ Home[key] \in Handles
    BY <1>1, <1>5 DEF AtHome, Entry
  <2>5. Entry(key, n) = [key |-> key, count |-> Cardinality(Users(key, m)) + 1]
    BY <1>4 DEF Entry
  <2>6. shm.handles = [handles EXCEPT ![Home[key]] = Entry(key, n)]
    <3>1. [handles[Home[key]] EXCEPT !.count = @ + 1] = Entry(key, n)
      BY <2>4, <2>5
    <3>2. QED
      BY <1>3, <2>3, <2>4, <3>1
  <2>7. Sized(o.size, n)
    BY <1>4, <1>5 DEF Sized
  <2>8. QED
    BY <1>2, <2>3, <2>6, <2>7 DEF Counted
<1>6. CASE Users(key, m) = {}
  <2>1. ~Holds(s, key)
    BY <1>1, <1>3, <1>6 DEF AtHome, Holds
  <2>2. Min({h \in Handles : s.handles[h] = Free}) = Home[key] /\ size = First[key]
    <3>1. Min(FreeIn(handles)) = Home[key] /\ size = First[key]
      BY <1>6, FirstFree, Zenon
    <3>2. QED
      BY <1>3, <3>1, Zenon DEF FreeIn
  <2>3. Entry(key, n) = [key |-> key, count |-> 1]
    <3>1. Cardinality(Users(key, m)) = 0
      BY <1>6, FS_EmptySet
    <3>2. QED
      BY <1>4, <3>1 DEF Entry
  <2>4. shm = [s EXCEPT !.handles[Home[key]] = [key |-> key, count |-> 1],
                        !.os.size[key] = IF @ = 0 THEN First[key] ELSE @]
    BY <2>1, <2>2 DEF rtapi_shmem_new
  <2>5. shm.handles = [handles EXCEPT ![Home[key]] = Entry(key, n)]
    BY <2>3, <2>4
  <2>6. shm.os = [o EXCEPT !.size[key] = IF @ = 0 THEN First[key] ELSE @]
    BY <2>4
  <2>7. shm.os.size = [o.size EXCEPT ![key] = First[key]] /\ shm.os.uuid = o.uuid /\ shm.os.taken = o.taken
    <3>1. o.size[key] \in {0, First[key]} /\ o.size \in [Keys -> Nat]
      BY DEF Sized, Segments
    <3>2. QED
      BY <2>6, <3>1 DEF Segments
  <2>8. shm.os \in Segments
    BY <2>6, FirstIsNat DEF Segments
  <2>9. Sized(shm.os.size, n)
    BY <1>4, <2>7 DEF Sized, Segments
  <2>10. QED
    BY <1>2, <2>5, <2>7, <2>8, <2>9 DEF Counted
<1>7. QED
  BY <1>5, <1>6

(* rtapi_exit leaves the segments of the size they were or removes one.       *)
LEMMA ExitRemoves ==
  ASSUME NEW handles \in [Handles -> Entries], NEW o \in Segments, NEW n, Sized(o.size, n), NEW shm,
         shm = rtapi_exit([os |-> o, handles |-> handles])
  PROVE  /\ shm.handles \in [Handles -> Entries] /\ shm.os \in Segments
         /\ \A key \in Keys : shm.os.size[key] \in {0, First[key]}
<1> DEFINE s == [os |-> o, handles |-> handles]
<1>1. PICK handle : handle = HandleOf(s, "UUID")
  OBVIOUS
<1>2. PICK key : key = handles[handle].key
  OBVIOUS
<1>3. s.handles = handles /\ s.os = o /\ shm = rtapi_shmem_delete(s, handle)
  BY <1>1 DEF rtapi_exit
<1>4. CASE handles[handle].count > 1
  <2>1. shm = [s EXCEPT !.handles[handle].count = @ - 1]
    BY <1>3, <1>4 DEF rtapi_shmem_delete
  <2>2. shm.os = o /\ shm.handles = [handles EXCEPT ![handle].count = @ - 1]
    BY <2>1
  <2>3. shm.handles \in [Handles -> Entries]
    <3>1. CASE handle \in Handles
      <4>1. [handles[handle] EXCEPT !.count = @ - 1] \in Entries
        BY <3>1 DEF Entries
      <4>2. QED
        BY <2>2, <3>1, <4>1
    <3>2. CASE handle \notin Handles
      BY <2>2, <3>2
    <3>3. QED
      BY <3>1, <3>2
  <2>4. QED
    BY <2>2, <2>3 DEF Sized
<1>5. CASE ~(handles[handle].count > 1)
  <2>1. shm = [handles |-> [handles EXCEPT ![handle] = Free],
               os |-> [o EXCEPT !.size[key] = 0, !.taken = @ \ {key}, !.uuid = IF key = "UUID" THEN 0 ELSE @]]
    BY <1>2, <1>3, <1>5 DEF rtapi_shmem_delete
  <2>2. shm.handles \in [Handles -> Entries]
    BY <2>1 DEF Entries, Free
  <2>3. shm.os = [size |-> [o.size EXCEPT ![key] = 0], taken |-> o.taken \ {key},
                  uuid |-> IF key = "UUID" THEN 0 ELSE o.uuid]
    <3>1. PICK w : w = IF key = "UUID" THEN 0 ELSE o.uuid
      OBVIOUS
    <3>2. shm.os = [o EXCEPT !.size[key] = 0, !.taken = @ \ {key}, !.uuid = w]
      BY <2>1, <3>1
    <3>3. o = [size |-> o.size, taken |-> o.taken, uuid |-> o.uuid]
      BY DEF Segments
    <3>4. shm.os = [size |-> [o.size EXCEPT ![key] = 0], taken |-> o.taken \ {key}, uuid |-> w]
      BY <3>2, <3>3
    <3>5. QED
      BY <3>1, <3>4
  <2>4. shm.os \in Segments
    BY <2>3 DEF Segments
  <2>5. \A k \in Keys : shm.os.size[k] \in {0, First[k]}
    BY <2>3 DEF Sized, Segments
  <2>6. QED
    BY <2>2, <2>4, <2>5
<1>6. QED
  BY <1>4, <1>5

------------------------------------------------------------------------------
(* The invariant.                                                             *)
Phases == {"starting", "running", "failed", "stopping", "leaving", "ended"}

Processes == [handles : [Handles -> Entries], ids : SUBSET Int, phase : Phases, step : 1 .. 25,
              inside : BOOLEAN, motors : BOOLEAN]

(* The last call that has attached to its segment.                            *)
Reached(p) == IF p.inside THEN p.step ELSE p.step - 1

(* The table and the segments are those of the calls made, and so are the ids,*)
(* each of which is at most the counter while more are to come.               *)
UpTo(o, p, n) ==
  /\ LaidOut(p.handles, n) /\ Sized(o.size, n)
  /\ IsFiniteSet(p.ids) /\ Cardinality(p.ids) = Cardinality(Inits(p.step - 1))
  /\ p.phase = "starting" => \A id \in p.ids : id <= o.uuid

(* A mutex is held only within a call that is not of a module's own segment.  *)
Within(p) == p.inside => p.phase = "starting" /\ p.step <= 24 /\ Startup[p.step].op # "new"

HandleType ==
  /\ os \in Segments /\ \A key \in Keys : os.size[key] \in {0, First[key]}
  /\ process \in Processes /\ Within(process)

HandleInv == HandleType /\ (Running => UpTo(os, process, Reached(process)))

(* A start-up that gives up keeps the types, and nothing more is asked of it. *)
LEMMA GivesUp ==
  ASSUME NEW p \in Processes
  PROVE  /\ GiveUp(p) \in Processes /\ Within(GiveUp(p)) /\ GiveUp(p).phase = "failed"
         /\ \A h \in [Handles -> Entries] : GiveUp([p EXCEPT !.handles = h]) \in Processes
         /\ \A h : Within(GiveUp([p EXCEPT !.handles = h])) /\ GiveUp([p EXCEPT !.handles = h]).phase = "failed"
  BY DEF GiveUp, Processes, Within, Phases

(* The call that the start-up is at.                                          *)
LEMMA AtCall ==
  ASSUME HandleInv, NEW op, Calls(op)
  PROVE  /\ process.step \in 1 .. 24 /\ process.step - 1 \in 0 .. 23 /\ Call = Startup[process.step]
         /\ Startup[process.step].op = op /\ Running /\ process.phase = "starting"
         /\ UpTo(os, process, Reached(process)) /\ process \in Processes /\ os \in Segments
         /\ process.ids \subseteq Int /\ process.handles \in [Handles -> Entries]
<1>1. process.step \in 1 .. 25 /\ process \in Processes /\ os \in Segments
  BY DEF HandleInv, HandleType, Processes
<1>2. process.step <= 24 /\ process.phase = "starting" /\ Call.op = op
  BY FirstCalls DEF Calls
<1>3. process.step \in 1 .. 24 /\ process.step - 1 \in 0 .. 23
  BY <1>1, <1>2
<1>4. Running /\ UpTo(os, process, Reached(process))
  BY <1>2 DEF Running, HandleInv
<1>5. QED
  BY <1>1, <1>2, <1>3, <1>4 DEF Call, Processes

(* rtapi_init attaches to the segment of the ids and takes its mutex ...      *)
LEMMA EnterInitKeeps == HandleInv /\ EnterInit => HandleInv'
<1> SUFFICES ASSUME HandleInv, EnterInit PROVE HandleInv'
  OBVIOUS
<1> DEFINE n == process.step
           m == n - 1
<1>1. Calls("init") /\ ~process.inside
  BY DEF EnterInit
<1>2. /\ n \in 1 .. 24 /\ m \in 0 .. 23 /\ Startup[n].op = "init" /\ process.phase = "starting"
      /\ UpTo(os, process, Reached(process)) /\ process \in Processes /\ os \in Segments
  BY <1>1, AtCall
<1>3. Reached(process) = m /\ n = m + 1
  BY <1>1, <1>2 DEF Reached
<1>4. Attaches(n, "UUID") /\ Startup[n].who = "uuid" /\ "UUID" \in Keys
  BY <1>2, CallsInOrder DEF Attaches, Keys
<1>5. PICK shm : shm = rtapi_shmem_new([os |-> os, handles |-> process.handles], "UUID", Sizes[Startup[n].who])
  OBVIOUS
<1>6. LaidOut(process.handles, m) /\ Sized(os.size, m)
  BY <1>2, <1>3, Zenon DEF UpTo
<1> HIDE DEF m
<1>7. /\ LaidOut(shm.handles, n) /\ shm.os \in Segments /\ Sized(shm.os.size, n)
      /\ shm.os.uuid = os.uuid
  <2>1. Counted(shm, os, n)
    BY <1>2, <1>3, <1>4, <1>5, <1>6, NewCounts, Zenon
  <2>2. QED
    BY <2>1 DEF Counted
<1>8. /\ os' = [shm.os EXCEPT !.taken = @ \cup {"UUID"}]
      /\ process' = [process EXCEPT !.handles = shm.handles, !.inside = TRUE]
  BY <1>4, <1>5 DEF EnterInit, Shm
<1>9. /\ os' \in Segments /\ os'.size = shm.os.size /\ os'.uuid = os.uuid
  BY <1>4, <1>7, <1>8 DEF Segments
<1>10. /\ process' \in Processes /\ process'.handles = shm.handles /\ process'.inside /\ process'.step = n
       /\ process'.ids = process.ids /\ process'.phase = process.phase
  <2>1. shm.handles \in [Handles -> Entries]
    BY <1>7 DEF LaidOut
  <2>2. QED
    BY <1>2, <1>8, <2>1 DEF Processes
<1>11. Reached(process') = n
  BY <1>10 DEF Reached
<1>12. UpTo(os', process', n)
  BY <1>2, <1>7, <1>9, <1>10 DEF UpTo
<1>13. Within(process')
  BY <1>2, <1>10 DEF Within
<1>14. \A key \in Keys : os'.size[key] \in {0, First[key]}
  BY <1>7, <1>9 DEF Sized
<1>15. QED
  BY <1>9, <1>10, <1>11, <1>12, <1>13, <1>14 DEF HandleInv, HandleType

(* ... and hands out an id that nobody has, as no counter of the session was  *)
(* beyond it.                                                                 *)
LEMMA rtapi_initKeeps == HandleInv /\ rtapi_init => HandleInv'
<1> SUFFICES ASSUME HandleInv, rtapi_init PROVE HandleInv'
  OBVIOUS
<1> DEFINE n == process.step
<1>1. Calls("init") /\ process.inside
  BY DEF rtapi_init
<1>2. /\ n \in 1 .. 24 /\ Startup[n].op = "init" /\ process.phase = "starting"
      /\ UpTo(os, process, Reached(process)) /\ process \in Processes /\ os \in Segments
  BY <1>1, AtCall
<1>3. Reached(process) = n
  BY <1>1 DEF Reached
<1>4. PICK id : id = IF os.uuid + 1 = WordLimit THEN -WordLimit ELSE os.uuid + 1
  OBVIOUS
<1>5. /\ os' = [os EXCEPT !.uuid = id, !.taken = @ \ {"UUID"}]
      /\ process' = IF id < 0 THEN GiveUp(process) ELSE GoOn([process EXCEPT !.ids = @ \cup {id}])
  BY <1>4 DEF rtapi_init
<1>6. id \in Int /\ os.uuid \in Int /\ (id >= 0 => id = os.uuid + 1)
  BY <1>2, <1>4, RtapiAssumption DEF Segments
<1>7. os' \in Segments /\ os'.size = os.size /\ os'.uuid = id
  BY <1>2, <1>5, <1>6 DEF Segments
<1>8. \A key \in Keys : os'.size[key] \in {0, First[key]}
  BY <1>7 DEF HandleInv, HandleType
<1>9. CASE id < 0
  <2>1. process' \in Processes /\ Within(process') /\ process'.phase = "failed"
    BY <1>2, <1>5, <1>9, GivesUp
  <2>2. QED
    BY <1>7, <1>8, <2>1 DEF HandleInv, HandleType, Running
<1>10. CASE ~(id < 0)
  <2>1. process' = [process EXCEPT !.ids = process.ids \cup {id}, !.step = n + 1, !.inside = FALSE]
    BY <1>2, <1>5, <1>10 DEF GoOn, Processes
  <2>2. /\ process' \in Processes /\ process'.handles = process.handles /\ process'.inside = FALSE
        /\ process'.step = n + 1 /\ process'.ids = process.ids \cup {id} /\ process'.phase = process.phase
    <3>1. n + 1 \in 1 .. 25 /\ process.ids \cup {id} \in SUBSET Int
      BY <1>2, <1>6 DEF Processes
    <3>2. PICK new, k : new = process.ids \cup {id} /\ k = n + 1
      OBVIOUS
    <3>3. process' = [process EXCEPT !.ids = new, !.step = k, !.inside = FALSE]
      BY <2>1, <3>2
    <3>4. new \in SUBSET Int /\ k \in 1 .. 25
      BY <3>1, <3>2
    <3>5. /\ process' \in Processes /\ process'.handles = process.handles /\ process'.inside = FALSE
          /\ process'.step = k /\ process'.ids = new /\ process'.phase = process.phase
      BY <1>2, <3>3, <3>4 DEF Processes
    <3>6. QED
      BY <3>2, <3>5
  <2>3. id = os.uuid + 1 /\ \A i \in process.ids : i <= os.uuid /\ i \in Int
    BY <1>2, <1>3, <1>6, <1>10 DEF UpTo, Processes
  <2>4. id \notin process.ids /\ \A i \in process'.ids : i <= os'.uuid
    BY <1>6, <1>7, <2>2, <2>3
  <2>5. IsFiniteSet(process'.ids) /\ Cardinality(process'.ids) = Cardinality(process.ids) + 1
    <3>1. IsFiniteSet(process.ids)
      BY <1>2 DEF UpTo
    <3>2. /\ IsFiniteSet(process.ids \cup {id})
          /\ Cardinality(process.ids \cup {id}) = Cardinality(process.ids) + 1
      BY <2>4, <3>1, FS_AddElement
    <3>3. QED
      BY <2>2, <3>2, Zenon
  <2>6. Cardinality(process'.ids) = Cardinality(Inits(n))
    <3>1. Cardinality(process.ids) = Cardinality(Inits(n - 1))
      BY <1>2 DEF UpTo
    <3>2. QED
      BY <1>2, <2>5, <3>1, InitsGrow
  <2>7. process'.step - 1 = n /\ Reached(process') = n
    BY <1>2, <2>2 DEF Reached
  <2>8. LaidOut(process'.handles, n) /\ Sized(os'.size, n)
    BY <1>2, <1>3, <1>7, <2>2, Zenon DEF UpTo
  <2>9. UpTo(os', process', n)
    BY <2>4, <2>5, <2>6, <2>7, <2>8 DEF UpTo
  <2>10. Within(process')
    BY <2>2 DEF Within
  <2>11. QED
    BY <1>7, <1>8, <2>2, <2>7, <2>9, <2>10 DEF HandleInv, HandleType
<1>11. QED
  BY <1>9, <1>10

(* A call that attaches nothing leaves table and segments in step with the    *)
(* calls made; whoever holds the mutex.                                       *)
LEMMA NothingAttached ==
  ASSUME NEW m \in 0 .. 23, NEW n, n = m + 1, NEW o, NEW p, UpTo(o, p, m),
         Startup[n].op \notin {"init", "new"}
  PROVE  LaidOut(p.handles, n) /\ Sized(o.size, n)
<1>1. LaidOut(p.handles, m) /\ Sized(o.size, m)
  BY Zenon DEF UpTo
<1>2. LaidOut(p.handles, n) /\ \A key \in Keys : Users(key, n) = Users(key, m)
  BY <1>1, NothingPlaced
<1>3. QED
  BY <1>1, <1>2 DEF Sized

(* The start-up goes on after call n, in which no id was handed out.          *)
LEMMA GoesOn ==
  ASSUME NEW n \in 1 .. 24, NEW p \in Processes, p.step = n, p.phase = "starting",
         NEW handles, NEW o, NEW o2,
         LaidOut(handles, n), Sized(o2.size, n), o2.uuid = o.uuid,
         Startup[n].op # "init", NEW k, UpTo(o, p, k), NEW q, q = GoOn([p EXCEPT !.handles = handles])
  PROVE  q \in Processes /\ Within(q) /\ UpTo(o2, q, Reached(q))
<1>1. handles \in [Handles -> Entries] /\ n + 1 \in 1 .. 25
  BY DEF LaidOut
<1>2. q = [p EXCEPT !.handles = handles, !.step = n + 1, !.inside = FALSE]
  BY DEF GoOn, Processes
<1>3. /\ q \in Processes /\ q.handles = handles /\ q.step = n + 1 /\ q.inside = FALSE
      /\ q.ids = p.ids /\ q.phase = p.phase
  <2>1. PICK j : j = n + 1
    OBVIOUS
  <2>2. q = [p EXCEPT !.handles = handles, !.step = j, !.inside = FALSE] /\ j \in 1 .. 25
    BY <1>1, <1>2, <2>1
  <2>3. QED
    BY <1>1, <2>1, <2>2 DEF Processes
<1>4. Reached(q) = n /\ q.step - 1 = n
  BY <1>3 DEF Reached
<1>5. /\ IsFiniteSet(p.ids) /\ Cardinality(p.ids) = Cardinality(Inits(n - 1))
      /\ \A id \in p.ids : id <= o.uuid
  BY Zenon DEF UpTo
<1>6. Inits(n) = Inits(n - 1)
  BY InitsGrow
<1>7. UpTo(o2, q, n)
  BY <1>3, <1>4, <1>5, <1>6 DEF UpTo
<1>8. QED
  BY <1>3, <1>4, <1>7 DEF Within

(* A module gets its segment, or gives its handle of the ids back.            *)
LEMMA ModuleSegmentKeeps ==
  ASSUME HandleInv, NEW granted \in BOOLEAN, ModuleSegment(granted)
  PROVE  HandleInv'
<1> DEFINE n == process.step
           m == n - 1
<1>1. Calls("new")
  BY DEF ModuleSegment
<1>2. /\ n \in 1 .. 24 /\ m \in 0 .. 23 /\ Startup[n].op = "new" /\ process.phase = "starting"
      /\ UpTo(os, process, Reached(process)) /\ process \in Processes /\ os \in Segments
      /\ Call = Startup[n] /\ process.handles \in [Handles -> Entries]
  BY <1>1, AtCall
<1>3. Reached(process) = m /\ n = m + 1
  BY <1>2 DEF Reached, HandleInv, HandleType, Within
<1>4. LaidOut(process.handles, m) /\ Sized(os.size, m)
  BY <1>2, <1>3, Zenon DEF UpTo
<1>5. PICK key : key = Startup[n].key /\ key \in Keys /\ Attaches(n, key)
  BY <1>2, CallsInOrder DEF Attaches, Keys
<1> HIDE DEF m
<1>6. CASE granted
  <2>1. PICK shm : shm = rtapi_shmem_new([os |-> os, handles |-> process.handles], key, Sizes[Startup[n].who])
    OBVIOUS
  <2>2. Counted(shm, os, n)
    BY <1>2, <1>3, <1>4, <1>5, <2>1, NewCounts, Zenon
  <2>3. os' = shm.os /\ process' = GoOn([process EXCEPT !.handles = shm.handles])
    BY <1>2, <1>5, <1>6, <2>1, Zenon DEF ModuleSegment, Shm
  <2>4. LaidOut(shm.handles, n) /\ shm.os \in Segments /\ Sized(shm.os.size, n) /\ shm.os.uuid = os.uuid
    BY <2>2 DEF Counted
  <2>5. process' \in Processes /\ Within(process') /\ UpTo(shm.os, process', Reached(process'))
    <3>1. UpTo(os, process, m) /\ Startup[n].op # "init"
      BY <1>2, <1>3
    <3>2. PICK o2, handles : o2 = shm.os /\ handles = shm.handles
      OBVIOUS
    <3>3. LaidOut(handles, n) /\ Sized(o2.size, n) /\ o2.uuid = os.uuid
      BY <2>4, <3>2
    <3>4. process' = GoOn([process EXCEPT !.handles = handles])
      BY <2>3, <3>2, Zenon
    <3>5. process' \in Processes /\ Within(process') /\ UpTo(o2, process', Reached(process'))
      BY <1>2, <3>1, <3>3, <3>4, GoesOn, Zenon
    <3>6. QED
      BY <3>2, <3>5
  <2>6. \A k \in Keys : shm.os.size[k] \in {0, First[k]}
    BY <2>4 DEF Sized
  <2>7. QED
    BY <2>3, <2>4, <2>5, <2>6 DEF HandleInv, HandleType
<1>7. CASE ~granted
  <2>1. PICK shm : shm = rtapi_exit([os |-> os, handles |-> process.handles])
    OBVIOUS
  <2>2. os' = shm.os /\ process' = GiveUp([process EXCEPT !.handles = shm.handles])
    BY <1>7, <2>1, Zenon DEF ModuleSegment, Shm
  <2>3. /\ shm.handles \in [Handles -> Entries] /\ shm.os \in Segments
        /\ \A k \in Keys : shm.os.size[k] \in {0, First[k]}
    BY <1>2, <1>4, <2>1, ExitRemoves
  <2>4. process' \in Processes /\ Within(process') /\ process'.phase = "failed"
    BY <1>2, <2>2, <2>3, GivesUp
  <2>5. QED
    BY <2>2, <2>3, <2>4 DEF HandleInv, HandleType, Running
<1>8. QED
  BY <1>6, <1>7

(* Into the mutex of the HAL ...                                              *)
LEMMA EnterHalKeeps ==
  ASSUME HandleInv, EnterHal
  PROVE  HandleInv'
<1> DEFINE n == process.step
           m == n - 1
<1>1. PICK op \in {"hal", "task"} : Calls(op)
  BY DEF EnterHal
<1>2. /\ n \in 1 .. 24 /\ m \in 0 .. 23 /\ Startup[n].op = op /\ process.phase = "starting"
      /\ UpTo(os, process, Reached(process)) /\ process \in Processes /\ os \in Segments
  BY <1>1, AtCall
<1>3. Reached(process) = m /\ n = m + 1
  BY <1>2 DEF Reached, EnterHal
<1>4. Startup[n].op \notin {"init", "new"}
  BY <1>2
<1>5. /\ os' = [os EXCEPT !.taken = @ \cup {"HAL"}] /\ process' = [process EXCEPT !.inside = TRUE]
  BY DEF EnterHal
<1>6. LaidOut(process.handles, n) /\ Sized(os.size, n)
  <2>1. UpTo(os, process, m)
    BY <1>2, <1>3
  <2> HIDE DEF m
  <2>2. QED
    BY <1>2, <1>3, <1>4, <2>1, NothingAttached, Zenon
<1>7. os' \in Segments /\ os'.size = os.size /\ os'.uuid = os.uuid
  BY <1>2, <1>5 DEF Segments, Keys
<1>8. /\ process' \in Processes /\ process'.handles = process.handles /\ process'.inside /\ process'.step = n
      /\ process'.ids = process.ids /\ process'.phase = process.phase
  BY <1>2, <1>5 DEF Processes
<1>9. Reached(process') = n
  BY <1>8 DEF Reached
<1>10. UpTo(os', process', n)
  BY <1>2, <1>6, <1>7, <1>8 DEF UpTo
<1>11. Within(process')
  BY <1>2, <1>4, <1>8 DEF Within
<1>12. \A key \in Keys : os'.size[key] \in {0, First[key]}
  BY <1>7 DEF HandleInv, HandleType
<1>13. QED
  BY <1>7, <1>8, <1>9, <1>10, <1>11, <1>12 DEF HandleInv, HandleType

(* ... out of it, and on to the next call.                                    *)
LEMMA LeaveHalKeeps ==
  ASSUME HandleInv, NEW op \in {"hal", "task"}, Calls(op), process.inside,
         os' = [os EXCEPT !.taken = @ \ {"HAL"}], process' = GoOn(process)
  PROVE  HandleInv'
<1> DEFINE n == process.step
<1>1. /\ n \in 1 .. 24 /\ Startup[n].op = op /\ process.phase = "starting"
      /\ UpTo(os, process, Reached(process)) /\ process \in Processes /\ os \in Segments
  BY AtCall
<1>2. Reached(process) = n /\ Startup[n].op # "init"
  BY <1>1 DEF Reached
<1>3. os' \in Segments /\ os'.size = os.size /\ os'.uuid = os.uuid
  BY <1>1 DEF Segments
<1>4. process = [process EXCEPT !.handles = process.handles]
  BY <1>1 DEF Processes
<1>5. LaidOut(process.handles, n) /\ Sized(os'.size, n)
  BY <1>1, <1>2, <1>3, Zenon DEF UpTo
<1>6. process' \in Processes /\ Within(process') /\ UpTo(os', process', Reached(process'))
  <2>1. PICK o2, handles : o2 = os' /\ handles = process.handles
    OBVIOUS
  <2>2. LaidOut(handles, n) /\ Sized(o2.size, n) /\ o2.uuid = os.uuid /\ UpTo(os, process, n)
    BY <1>1, <1>2, <1>3, <1>5, <2>1
  <2>3. process' = GoOn([process EXCEPT !.handles = handles])
    BY <1>4, <2>1, Zenon
  <2>4. process' \in Processes /\ Within(process') /\ UpTo(o2, process', Reached(process'))
    BY <1>1, <1>2, <2>2, <2>3, GoesOn, Zenon
  <2>5. QED
    BY <2>1, <2>4
<1>7. \A key \in Keys : os'.size[key] \in {0, First[key]}
  BY <1>3 DEF HandleInv, HandleType
<1>8. QED
  BY <1>3, <1>6, <1>7 DEF HandleInv, HandleType

(* A thread is started in the mutex, or the module gives up.                  *)
LEMMA TaskStartKeeps ==
  ASSUME HandleInv, NEW granted \in BOOLEAN, rtapi_task_start(granted)
  PROVE  HandleInv'
<1>1. Calls("task") /\ process.inside
  BY DEF rtapi_task_start
<1>2. /\ UpTo(os, process, Reached(process)) /\ process \in Processes /\ os \in Segments
      /\ process.handles \in [Handles -> Entries]
  BY <1>1, AtCall
<1>3. CASE granted
  <2>1. Shm.os = os /\ Shm.handles = process.handles /\ process = [process EXCEPT !.handles = process.handles]
    BY <1>2 DEF Shm, Processes
  <2>2. os' = [os EXCEPT !.taken = @ \ {"HAL"}] /\ process' = GoOn([process EXCEPT !.handles = process.handles])
    BY <1>3, <2>1 DEF rtapi_task_start
  <2>3. process' = GoOn(process)
    BY <2>1, <2>2, Zenon
  <2>4. "task" \in {"hal", "task"}
    OBVIOUS
  <2>5. QED
    BY <1>1, <2>2, <2>3, <2>4, LeaveHalKeeps
<1>4. CASE ~granted
  <2>1. PICK shm : shm = rtapi_exit([os |-> os, handles |-> process.handles])
    OBVIOUS
  <2>2. os' = [shm.os EXCEPT !.taken = @ \ {"HAL"}] /\ process' = GiveUp([process EXCEPT !.handles = shm.handles])
    BY <1>4, <2>1, Zenon DEF rtapi_task_start, Shm
  <2>3. /\ shm.handles \in [Handles -> Entries] /\ shm.os \in Segments
        /\ \A k \in Keys : shm.os.size[k] \in {0, First[k]}
    <3>1. Sized(os.size, Reached(process))
      BY <1>2 DEF UpTo
    <3>2. QED
      BY <1>2, <2>1, <3>1, ExitRemoves
  <2>4. process' \in Processes /\ Within(process') /\ process'.phase = "failed"
    BY <1>2, <2>2, <2>3, GivesUp
  <2>5. os' \in Segments /\ os'.size = shm.os.size
    BY <2>2, <2>3 DEF Segments
  <2>6. QED
    BY <2>3, <2>4, <2>5 DEF HandleInv, HandleType, Running
<1>5. QED
  BY <1>3, <1>4

(* A process that starts has the segments that are there, and no user.        *)
LEMMA StartsAnew ==
  /\ NewProcess \in Processes /\ Within(NewProcess) /\ NewProcess.phase = "starting"
  /\ Ended \in Processes /\ Within(Ended) /\ Ended.phase = "ended"
  /\ \A o : (\A key \in Keys : o.size[key] \in {0, First[key]}) => UpTo(o, NewProcess, Reached(NewProcess))
<1>1. /\ NewProcess.ids = {} /\ NewProcess.step = 1 /\ NewProcess.inside = FALSE
      /\ NewProcess.phase = "starting" /\ Reached(NewProcess) = 0
  BY DEF NewProcess, Reached
<1>2. LaidOut(NewProcess.handles, 0)
  BY EmptyTable
<1>3. NewProcess.handles \in [Handles -> Entries]
  BY <1>2 DEF LaidOut
<1>4. NewProcess \in Processes
  BY <1>3 DEF NewProcess, Processes, Phases
<1>5. /\ Ended \in Processes /\ Ended.inside = FALSE /\ Ended.phase = "ended"
  BY <1>1, <1>4 DEF Ended, Processes, Phases
<1>6. \A key \in Keys : Users(key, 0) = {}
  BY UsersGrow
<1>7. Cardinality({}) = 0 /\ IsFiniteSet({}) /\ Inits(0) = {}
  BY FS_EmptySet, InitsGrow
<1>8. ASSUME NEW o, \A key \in Keys : o.size[key] \in {0, First[key]}
      PROVE  UpTo(o, NewProcess, 0)
  <2>1. Sized(o.size, 0)
    BY <1>6, <1>8 DEF Sized
  <2>2. QED
    BY <1>1, <1>2, <1>7, <2>1 DEF UpTo
<1>9. QED
  BY <1>1, <1>4, <1>5, <1>8 DEF Within

(* It holds at the first start.                                               *)
LEMMA HandleInit == Init => HandleInv
<1> SUFFICES ASSUME Init PROVE HandleInv
  OBVIOUS
<1>1. os = [size |-> [k \in Keys |-> 0], taken |-> {}, uuid |-> 0] /\ process = NewProcess
  BY DEF Init
<1>2. os \in Segments /\ \A key \in Keys : os.size[key] \in {0, First[key]}
  BY <1>1 DEF Segments
<1>3. QED
  BY <1>1, <1>2, StartsAnew DEF HandleInv, HandleType

(* A step that leaves the segments and the table alone, and no call is made.  *)
LEMMA ElsewhereKeeps ==
  ASSUME HandleInv, os'.size = os.size, os' \in Segments, process' \in Processes,
         process'.handles = process.handles, process'.ids = process.ids, process'.step = process.step,
         process'.inside = process.inside, process'.phase # "starting", ~process.inside,
         Running' => Running
  PROVE  HandleInv'
<1>1. HandleType'
  BY DEF HandleInv, HandleType, Within
<1>2. Reached(process') = Reached(process)
  BY DEF Reached
<1>3. ASSUME Running PROVE UpTo(os', process', Reached(process))
  BY <1>3 DEF HandleInv, UpTo
<1>4. QED
  BY <1>1, <1>2, <1>3 DEF HandleInv

(* Every step keeps the invariant.                                            *)
LEMMA HandleStep == HandleInv /\ [Next]_vars => HandleInv'
<1> SUFFICES ASSUME HandleInv, [Next]_vars PROVE HandleInv'
  OBVIOUS
<1>0. os \in Segments /\ process \in Processes /\ Within(process)
  BY DEF HandleInv, HandleType
<1>1. CASE UNCHANGED <<os, process>>
  BY <1>1 DEF HandleInv, HandleType, Running
<1>2. CASE RefuseInit
  <2>1. process' \in Processes /\ Within(process') /\ process'.phase = "failed" /\ UNCHANGED os
    BY <1>0, <1>2, GivesUp DEF RefuseInit
  <2>2. QED
    BY <2>1 DEF HandleInv, HandleType, Running
<1>3. CASE LeaveHal
  <2>1. "hal" \in {"hal", "task"}
    OBVIOUS
  <2>2. QED
    BY <1>3, <2>1, LeaveHalKeeps DEF LeaveHal
<1>4. CASE StartThreads
  <2>1. ~process.inside
    BY <1>0, <1>4, FirstCalls DEF StartThreads, Within, Processes
  <2>2. /\ process' \in Processes /\ process'.phase = "running" /\ UNCHANGED os
        /\ process'.handles = process.handles /\ process'.ids = process.ids
        /\ process'.step = process.step /\ process'.inside = process.inside
    BY <1>0, <1>4 DEF StartThreads, Processes, Phases
  <2>3. Running
    BY <1>4 DEF StartThreads, Running
  <2>4. QED
    BY <1>0, <2>1, <2>2, <2>3, ElsewhereKeeps
<1>5. CASE Main
  BY <1>2, <1>3, <1>4, <1>5, EnterInitKeeps, rtapi_initKeeps, EnterHalKeeps, ModuleSegmentKeeps,
     TaskStartKeeps DEF Main
<1>6. ASSUME NEW word \in Pointers, ecatthread(word) PROVE HandleInv'
  <2>1. process.phase = "running" /\ ~process.inside
    BY <1>0, <1>6 DEF ecatthread, Within
  <2>2. os' \in Segments /\ os'.size = os.size
    BY <1>0, <1>6, RtapiAssumption DEF ecatthread, Segments
  <2>3. /\ process' \in Processes /\ process'.phase = "running"
        /\ process'.handles = process.handles /\ process'.ids = process.ids
        /\ process'.step = process.step /\ process'.inside = process.inside
    BY <1>0, <1>6, <2>1 DEF ecatthread, Processes
  <2>4. Running
    BY <2>1 DEF Running
  <2>5. QED
    BY <2>1, <2>2, <2>3, <2>4, ElsewhereKeeps
<1>7. CASE Quit \/ stopprintf
  <2>1. UNCHANGED os /\ (process' = [process EXCEPT !.phase = "stopping"] \/ process' = [process EXCEPT !.phase = "leaving"])
    BY <1>7 DEF Quit, stopprintf
  <2>2. process' \in Processes /\ process'.phase \in {"stopping", "leaving"}
    BY <1>0, <2>1 DEF Processes, Phases
  <2>3. process'.inside = process.inside /\ process.phase \in {"running", "failed", "stopping"}
    BY <1>0, <1>7, <2>1 DEF Quit, stopprintf, Processes
  <2>4. Within(process')
    BY <1>0, <2>3 DEF Within
  <2>5. QED
    BY <2>1, <2>2, <2>4 DEF HandleInv, HandleType, Running
<1>8. CASE Exit \/ Kill
  <2>1. UNCHANGED os /\ process' = Ended
    BY <1>8 DEF Exit, Kill, EndWith
  <2>2. QED
    BY <2>1, StartsAnew DEF HandleInv, HandleType, Running
<1>9. CASE Restart
  <2>1. UNCHANGED os /\ process' = NewProcess
    BY <1>9 DEF Restart
  <2>2. \A key \in Keys : os.size[key] \in {0, First[key]}
    BY DEF HandleInv, HandleType
  <2>3. UpTo(os, NewProcess, Reached(NewProcess))
    BY <2>2, StartsAnew
  <2>4. QED
    BY <2>1, <2>3, StartsAnew DEF HandleInv, HandleType
<1>10. CASE CancelReader \/ queue_function \/ Tick \/ UNCHANGED vars
            \/ (\E t \in Threads : Posix_wait(t) \/ Wake(t))
  BY <1>1, <1>10 DEF CancelReader, queue_function, Tick, vars, Posix_wait, Wake
<1>11. QED
  BY <1>5, <1>6, <1>7, <1>8, <1>9, <1>10 DEF Next

------------------------------------------------------------------------------
(* What the invariant says.                                                   *)

(* Whole pages hold what is in them.                                          *)
LEMMA PagesHold ==
  ASSUME NEW size \in Nat
  PROVE  size <= Mapped(size)
<1>1. PICK p \in Nat \ {0} : p = Page
  BY RtapiAssumption
<1>2. size + p - 1 \in Nat /\ size + p - 1 = ((size + p - 1) \div p) * p + ((size + p - 1) % p)
      /\ (size + p - 1) % p \in 0 .. p - 1 /\ (size + p - 1) \div p \in Nat
  BY <1>1
<1>3. PICK q \in Nat, r \in 0 .. p - 1 : q = (size + p - 1) \div p /\ size + p - 1 = q * p + r
  BY <1>2
<1>4. q * p = p * q
  BY <1>1, <1>3
<1>5. PICK x \in Int : x = p * q
  BY <1>1, <1>3
<1>6. size <= x
  BY <1>1, <1>3, <1>4, <1>5
<1>7. QED
  BY <1>1, <1>3, <1>5, <1>6 DEF Mapped

(* The pages of a segment hold what every user of it asks for.                *)
LEMMA UsersFit ==
  ASSUME NEW i \in 1 .. 24, NEW key \in Keys, Attaches(i, key)
  PROVE  Sizes[Startup[i].who] <= Mapped(First[key])
<1>1. \/ key = "UUID" /\ Startup[i].who = "uuid"
      \/ key = "HAL" /\ Startup[i].who = "hal"
      \/ key = "DEFAULT" /\ Startup[i].who \in {"socket", "motion"}
  BY CallsInOrder DEF Attaches
<1>2. Sizes["uuid"] \in Nat /\ Sizes["hal"] \in Nat /\ Sizes["socket"] \in Nat
  BY SegmentsFit, RtapiAssumption
<1>3. First["UUID"] = Sizes["uuid"] /\ First["HAL"] = Sizes["hal"] /\ First["DEFAULT"] = Sizes["socket"]
  BY DEF First
<1>4. /\ Sizes["uuid"] <= Mapped(Sizes["uuid"]) /\ Sizes["hal"] <= Mapped(Sizes["hal"])
      /\ Sizes["socket"] <= Mapped(Sizes["socket"]) /\ Sizes["motion"] <= Mapped(Sizes["socket"])
  BY <1>2, PagesHold, SegmentsFit
<1>5. QED
  BY <1>1, <1>3, <1>4, Zenon

(* The users that HandlesSound counts are those of the calls made.            *)
LEMMA DoneIsUsers ==
  ASSUME HandleType, NEW key
  PROVE  /\ Reached(process) \in 0 .. 24 /\ Done(key) = Users(key, Reached(process))
         /\ {i \in 1 .. process.step - 1 : Startup[i].op = "init"} = Inits(process.step - 1)
<1>1. process.step \in 1 .. 25 /\ process.inside \in BOOLEAN /\ (process.inside => process.step <= 24)
  BY DEF HandleType, Processes, Within
<1>2. Reached(process) \in 0 .. 24
  BY <1>1 DEF Reached
<1>3. \A i : /\ i \in 1 .. 24 /\ (i < process.step \/ (i = process.step /\ process.inside))
              <=> i \in 1 .. Reached(process)
  BY <1>1 DEF Reached
<1>4. Done(key) = Users(key, Reached(process))
  BY <1>3, FirstCalls, Zenon DEF Done, Users, Attaches
<1>5. QED
  BY <1>2, <1>4 DEF Inits

(* The handles are sound in every session, whatever a kill at any moment left *)
(* in the segments (rtapi_shmem_new, rtapi_init, hal_init and the modules     *)
(* that call them).                                                           *)
THEOREM HandlesAreSound == Spec => []HandlesSound
<1>1. HandleInv => HandlesSound
  <2> SUFFICES ASSUME HandleInv, Running PROVE HandlesSound
    BY DEF HandlesSound
  <2>1. PICK n : n = Reached(process)
    OBVIOUS
  <2>2. /\ n \in 0 .. 24 /\ \A key : Done(key) = Users(key, n)
        /\ {i \in 1 .. process.step - 1 : Startup[i].op = "init"} = Inits(process.step - 1)
    BY <2>1, DoneIsUsers DEF HandleInv
  <2>3. UpTo(os, process, n)
    BY <2>1 DEF HandleInv
  <2>4. /\ LaidOut(process.handles, n) /\ Sized(os.size, n)
        /\ Cardinality(process.ids) = Cardinality(Inits(process.step - 1))
    BY <2>3, Zenon DEF UpTo
  <2>5. ASSUME NEW key \in Keys PROVE AtHome(process.handles, key, n)
    BY <2>2, <2>4, KeysAtHome, Zenon
  <2>6. ASSUME NEW key \in Keys PROVE (Done(key) # {}) <=> Holds(Shm, key)
    <3>1. Done(key) = Users(key, n) /\ Shm.handles = process.handles
      BY <2>2 DEF Shm
    <3>2. QED
      BY <2>5, <3>1 DEF AtHome, Holds
  <2>7. ASSUME NEW h \in Handles, process.handles[h] # Free
        PROVE  /\ process.handles[h].key \in Keys /\ Users(process.handles[h].key, n) # {}
               /\ h = Home[process.handles[h].key]
               /\ process.handles[h].count = Cardinality(Users(process.handles[h].key, n))
    <3>1. h \in 0 .. 2
      BY <2>4, <2>7, RtapiAssumption DEF LaidOut, Handles
    <3>2. PICK k \in Keys : h = Home[k]
      BY <3>1 DEF Home, Keys
    <3>3. process.handles[h] = Entry(k, n)
      BY <2>5, <3>2 DEF AtHome
    <3>4. Users(k, n) # {} /\ process.handles[h] = [key |-> k, count |-> Cardinality(Users(k, n))]
      BY <2>7, <3>3 DEF Entry
    <3>5. QED
      BY <3>2, <3>4
  <2>8. ASSUME NEW h \in Handles, process.handles[h] # Free, NEW key, key = process.handles[h].key
        PROVE  /\ process.handles[h].count = Cardinality(Done(key)) /\ os.size[key] > 0
               /\ \A i \in Done(key) : Sizes[Startup[i].who] <= Mapped(os.size[key])
    <3>1. key \in Keys /\ Users(key, n) # {} /\ process.handles[h].count = Cardinality(Users(key, n))
      BY <2>7, <2>8
    <3>2. os.size[key] = First[key] /\ First[key] > 0
      BY <2>4, <3>1, FirstIsNat DEF Sized
    <3>3. ASSUME NEW i \in Users(key, n) PROVE Sizes[Startup[i].who] <= Mapped(First[key])
      <4>1. i \in 1 .. 24 /\ Attaches(i, key)
        BY <2>2 DEF Users
      <4>2. QED
        BY <3>1, <4>1, UsersFit, Zenon
    <3>4. Done(key) = Users(key, n)
      BY <2>2
    <3>5. QED
      BY <3>1, <3>2, <3>3, <3>4, Zenon
  <2>9. process.handles[0].key \in {"UUID", "none"}
    <3>1. 0 = Home["UUID"] /\ "UUID" \in Keys
      BY DEF Home, Keys
    <3>2. process.handles[0] = Entry("UUID", n)
      BY <2>5, <3>1 DEF AtHome
    <3>3. QED
      BY <3>2 DEF Entry, Free
  <2>10. QED
    BY <2>2, <2>4, <2>6, <2>8, <2>9, Zenon DEF HandlesSound
<1>2. QED
  BY <1>1, HandleInit, HandleStep, PTL DEF Spec
=============================================================================
