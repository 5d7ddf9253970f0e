--------------------------------- MODULE Rtapi ---------------------------------
(* The services under the HAL, src/rtapi: shared memory, periodic tasks and   *)
(* the log, used as the program uses them from its start-up to its exit.  The *)
(* program may be killed at any moment and started again; the segments of the *)
(* operating system outlive it, with what was written in them.                *)
(*                                                                            *)
(* Time and sizes are whole numbers.  A timespec is [sec, nsec], a second     *)
(* being OneSec units.  Of what a segment holds the model keeps the mutex at  *)
(* its start and, in the segment of the ids, the counter: the drive thread's  *)
(* structure is laid over that segment too, ecat_shmem_id being never set,    *)
(* and its first field over the counter.                                      *)
(* A definition named D_Something is a mutated form of D.                     *)
EXTENDS Integers, Sequences, FiniteSets, FiniteSetsExt

CONSTANTS OneSec,       \* ONE_SEC_IN_NS
          Period,       \* the period of each thread
          Sizes,        \* what each user of a segment asks for
          Page,         \* segments are mapped in whole pages
          MAX_SHM,      \* entries of shmem_array (64)
          Capacity,     \* messages the log holds (128)
          WordLimit,    \* an int is in -WordLimit .. WordLimit - 1
          Pointers,     \* low halves of the address the drive thread stores
          MaxTime,      \* bound on the clock
          ClockRuns,    \* bound on the sessions in which the clock runs
          MaxSessions   \* bound on the starts of the program

ASSUME RtapiAssumption ==
  /\ OneSec \in Nat \ {0} /\ Page \in Nat \ {0} /\ MAX_SHM \in Nat /\ Capacity \in Nat
  /\ \A t \in DOMAIN Period : Period[t] \in Nat \ {0}
  /\ \A who \in DOMAIN Sizes : Sizes[who] \in Nat \ {0}
  /\ WordLimit \in Nat \ {0} /\ Pointers \subseteq -WordLimit .. WordLimit - 1

(* What a segment of that size occupies.                                      *)
Mapped(size) == Page * ((size + Page - 1) \div Page)

(* shmem_array has room for the three segments, and the motion structure fits *)
(* in the pages that the socket structure takes (1728 and 128 bytes in pages  *)
(* of 4096).                                                                  *)
ASSUME SegmentsFit ==
  /\ MAX_SHM >= 3
  /\ {"uuid", "hal", "socket", "motion"} \subseteq DOMAIN Sizes
  /\ Sizes["motion"] <= Mapped(Sizes["socket"])

VARIABLES os,       \* segments by key: size (0 is none), those whose mutex is taken, and uuid
          process,  \* shmem_array, the ids handed out, the main thread (phase, step, in a mutex),
                    \* and whether the drive thread has its table of motors
          threads,  \* the threads of the process
          now,      \* the clock
          log,      \* messages queued, in the reader's hand, accepted and not printed; the reader;
                    \* whether a delay has been reported
          session,  \* starts of the program
          orphans   \* mutexes a killed session left taken

vars == <<os, process, threads, now, log, session, orphans>>

Threads == DOMAIN Period
Handles == 0 .. MAX_SHM - 1
Keys == {"UUID", "HAL", "DEFAULT"}
Free == [key |-> "none", count |-> 0]

------------------------------------------------------------------------------
(* The calls of emctask_startup that reach RTAPI, in order: rtapi_init, a     *)
(* segment, a section under the mutex of the HAL, the task of a thread in     *)
(* such a section.  hal_create_thread makes a component after the task.       *)

Attach == [op |-> "init", key |-> "UUID", who |-> "uuid"]
InHal == [op |-> "hal", key |-> "HAL", who |-> "hal"]
Segment(who, key) == [op |-> "new", key |-> key, who |-> who]
Task(t) == [op |-> "task", key |-> "HAL", who |-> t]

hal_init == <<Attach, InHal>>

hal_app_main == <<Attach, Segment("hal", "HAL"), InHal>>

socket_thread_main ==
  <<Attach, Segment("socket", "DEFAULT")>>
  \o hal_init \o <<Task("client_p")>> \o hal_init \o <<Task("client_s")>> \o hal_init

motion_thread_main == hal_init \o <<Segment("motion", "DEFAULT"), Task("motion-thread")>> \o hal_init

ecat_thread_main == hal_init \o <<Task("ecat-thread")>> \o hal_init

Startup == hal_app_main \o socket_thread_main \o motion_thread_main \o ecat_thread_main

------------------------------------------------------------------------------
(* A process that has done nothing yet; printfMaster has started the reader.  *)

NewProcess == [handles |-> [h \in Handles |-> Free], ids |-> {}, phase |-> "starting", step |-> 1,
               inside |-> FALSE, motors |-> FALSE]
NoThread == [alive |-> FALSE, asleep |-> FALSE, born |-> 0, passes |-> 0, nextstart |-> [sec |-> 0, nsec |-> 0]]
NewLog == [queued |-> 0, hand |-> 0, owed |-> 0, reader |-> "test", cancelled |-> FALSE, complained |-> FALSE]

Init ==
  /\ os = [size |-> [k \in Keys |-> 0], taken |-> {}, uuid |-> 0]
  /\ process = NewProcess /\ threads = [t \in Threads |-> NoThread] /\ now = 0 /\ log = NewLog
  /\ session = 1 /\ orphans = {}

Call == Startup[process.step]
Calls(op) == process.phase = "starting" /\ process.step <= Len(Startup) /\ Call.op = op
GoOn(p) == [p EXCEPT !.step = @ + 1, !.inside = FALSE]
GiveUp(p) == [p EXCEPT !.phase = "failed", !.inside = FALSE]

------------------------------------------------------------------------------
(* The log.  A queue of fixed capacity; a message that finds it full is       *)
(* dropped without notice.                                                    *)

rtapi_print_msg(l) ==
  IF l.queued < Capacity THEN [l EXCEPT !.queued = @ + 1, !.owed = @ + 1] ELSE l

(* Mutant: the reader can be cancelled while it prints.                       *)
fputs_Cancelled(l) ==
  IF l.cancelled THEN [l EXCEPT !.reader = "gone", !.hand = 0] ELSE [l EXCEPT !.owed = @ - 1, !.hand = 0]

fputs(l) == [l EXCEPT !.owed = @ - 1, !.hand = 0]

(* queue_function: pthread_testcancel, then consume_all with cancellation     *)
(* disabled, until the queue is found empty.                                  *)
queue_function ==
  /\ process.phase # "ended"
  /\ \/ log.reader = "test" /\ log' = [log EXCEPT !.reader = IF log.cancelled THEN "gone" ELSE "consume"]
     \/ /\ log.reader = "consume" /\ log.hand = 0 /\ log.queued > 0
        /\ log' = [log EXCEPT !.hand = 1, !.queued = @ - 1]
     \/ log.reader = "consume" /\ log.hand = 1 /\ log' = fputs(log)
     \/ log.reader = "consume" /\ log.hand = 0 /\ log.queued = 0 /\ log' = [log EXCEPT !.reader = "test"]
  /\ UNCHANGED <<os, process, threads, now, session, orphans>>

(* stopprintf: cancel and join the reader, and print what is left.            *)
CancelReader ==
  /\ process.phase \in {"failed", "stopping"} /\ ~log.cancelled
  /\ log' = [log EXCEPT !.cancelled = TRUE]
  /\ UNCHANGED <<os, process, threads, now, session, orphans>>

stopprintf ==
  /\ process.phase \in {"failed", "stopping"} /\ log.reader = "gone"
  /\ log' = [log EXCEPT !.queued = 0, !.owed = @ - log.queued]
  /\ process' = [process EXCEPT !.phase = "leaving"]
  /\ UNCHANGED <<os, threads, now, session, orphans>>

------------------------------------------------------------------------------
(* Shared memory: shm is [os, handles].                                       *)

Holds(shm, key) == \E h \in Handles : shm.handles[h].key = key
HandleOf(shm, key) == CHOOSE h \in Handles : shm.handles[h].key = key

(* Mutant: a second caller in the process is not counted.                     *)
rtapi_shmem_new_Uncounted(shm, key, size) ==
  IF Holds(shm, key) THEN shm
  ELSE [shm EXCEPT !.handles[Min({h \in Handles : shm.handles[h] = Free})] = [key |-> key, count |-> 1],
                   !.os.size[key] = IF @ = 0 THEN size ELSE @]

(* A key this process has is counted; otherwise the system makes the segment  *)
(* or gives the one that is there, whatever its size.                         *)
rtapi_shmem_new(shm, key, size) ==
  IF Holds(shm, key) THEN [shm EXCEPT !.handles[HandleOf(shm, key)].count = @ + 1]
  ELSE [shm EXCEPT !.handles[Min({h \in Handles : shm.handles[h] = Free})] = [key |-> key, count |-> 1],
                   !.os.size[key] = IF @ = 0 THEN size ELSE @]

(* The last user in the process unmaps the segment, and removes it: no other  *)
(* process has it.                                                            *)
rtapi_shmem_delete(shm, handle) ==
  LET key == shm.handles[handle].key
  IN  IF shm.handles[handle].count > 1 THEN [shm EXCEPT !.handles[handle].count = @ - 1]
      ELSE [handles |-> [shm.handles EXCEPT ![handle] = Free],
            os |-> [shm.os EXCEPT !.size[key] = 0, !.taken = @ \ {key}, !.uuid = IF key = "UUID" THEN 0 ELSE @]]

rtapi_exit(shm) == rtapi_shmem_delete(shm, HandleOf(shm, "UUID"))

Shm == [os |-> os, handles |-> process.handles]

(* shmget may refuse a segment that is not there.                             *)
Refusable(key) == ~Holds(Shm, key) /\ os.size[key] = 0

(* rtapi_init: attach to the segment of the ids and take its mutex ...        *)
EnterInit ==
  /\ Calls("init") /\ ~process.inside /\ "UUID" \notin os.taken
  /\ LET shm == rtapi_shmem_new(Shm, "UUID", Sizes["uuid"])
     IN  /\ os' = [shm.os EXCEPT !.taken = @ \cup {"UUID"}]
         /\ process' = [process EXCEPT !.handles = shm.handles, !.inside = TRUE]
  /\ UNCHANGED <<threads, now, log, session, orphans>>

RefuseInit ==
  /\ Calls("init") /\ ~process.inside /\ Refusable("UUID")
  /\ process' = GiveUp(process) /\ log' = rtapi_print_msg(log)
  /\ UNCHANGED <<os, threads, now, session, orphans>>

(* Mutant: the mutex is not given back.                                       *)
rtapi_init_KeepsMutex ==
  /\ Calls("init") /\ process.inside
  /\ LET id == IF os.uuid + 1 = WordLimit THEN -WordLimit ELSE os.uuid + 1
     IN  /\ os' = [os EXCEPT !.uuid = id]
         /\ process' = IF id < 0 THEN GiveUp(process) ELSE GoOn([process EXCEPT !.ids = @ \cup {id}])
  /\ UNCHANGED <<threads, now, log, session, orphans>>

(* ... and count.  Every caller takes a negative id for a failure.            *)
rtapi_init ==
  /\ Calls("init") /\ process.inside
  /\ LET id == IF os.uuid + 1 = WordLimit THEN -WordLimit ELSE os.uuid + 1
     IN  /\ os' = [os EXCEPT !.uuid = id, !.taken = @ \ {"UUID"}]
         /\ process' = IF id < 0 THEN GiveUp(process) ELSE GoOn([process EXCEPT !.ids = @ \cup {id}])
  /\ UNCHANGED <<threads, now, log, session, orphans>>

(* A module's own segment; without it the module calls rtapi_exit.            *)
ModuleSegment(granted) ==
  /\ Calls("new")
  /\ granted \/ Refusable(Call.key)
  /\ LET shm == IF granted THEN rtapi_shmem_new(Shm, Call.key, Sizes[Call.who]) ELSE rtapi_exit(Shm)
         new == [process EXCEPT !.handles = shm.handles]
     IN  /\ os' = shm.os
         /\ process' = IF granted THEN GoOn(new) ELSE GiveUp(new)
  /\ log' = IF granted THEN log ELSE rtapi_print_msg(log)
  /\ UNCHANGED <<threads, now, session, orphans>>

(* The lists of the HAL, under the mutex at the start of its segment.         *)
EnterHal ==
  /\ Calls("hal") \/ Calls("task")
  /\ ~process.inside /\ "HAL" \notin os.taken
  /\ os' = [os EXCEPT !.taken = @ \cup {"HAL"}]
  /\ process' = [process EXCEPT !.inside = TRUE]
  /\ UNCHANGED <<threads, now, log, session, orphans>>

LeaveHal ==
  /\ Calls("hal") /\ process.inside
  /\ os' = [os EXCEPT !.taken = @ \ {"HAL"}]
  /\ process' = GoOn(process)
  /\ UNCHANGED <<threads, now, log, session, orphans>>

------------------------------------------------------------------------------
(* Periodic tasks.                                                            *)

Time(t) == t.sec * OneSec + t.nsec
Timespec(n) == [sec |-> n \div OneSec, nsec |-> n % OneSec]

(* rtapi_timespec_advance: whole seconds are taken off the increment, and one *)
(* more if the rest overflows.                                                *)
rtapi_timespec_advance(src, nsec) ==
  LET rest == (nsec % OneSec) + src.nsec
      carry == IF rest >= OneSec THEN 1 ELSE 0
  IN  [sec |-> src.sec + nsec \div OneSec + carry, nsec |-> rest - carry * OneSec]

rtapi_timespec_less(ta, tb) == ta.sec < tb.sec \/ (ta.sec = tb.sec /\ ta.nsec < tb.nsec)

(* rtapi_task_new and rtapi_task_start; the thread's wrapper sets nextstart   *)
(* and begins its first pass at once.  The system may refuse a thread, and    *)
(* the module then calls hal_exit.                                            *)
rtapi_task_start(granted) ==
  /\ Calls("task") /\ process.inside
  /\ LET shm == IF granted THEN Shm ELSE rtapi_exit(Shm)
         new == [process EXCEPT !.handles = shm.handles]
     IN  /\ os' = [shm.os EXCEPT !.taken = @ \ {"HAL"}]
         /\ process' = IF granted THEN GoOn(new) ELSE GiveUp(new)
  /\ threads' = IF granted
                THEN [threads EXCEPT ![Call.who] =
                        [alive |-> TRUE, asleep |-> FALSE, born |-> now, passes |-> 0,
                         nextstart |-> rtapi_timespec_advance(Timespec(now), Period[Call.who])]]
                ELSE threads
  /\ log' = rtapi_print_msg(log)
  /\ UNCHANGED <<now, session, orphans>>

Passing(t) == process.phase # "ended" /\ threads[t].alive /\ ~threads[t].asleep

(* Mutant: the next start is counted from now.                                *)
Posix_wait_FromNow(t) ==
  LET nextstart == rtapi_timespec_advance(Timespec(now), Period[t])
  IN  /\ Passing(t)
      /\ threads' = [threads EXCEPT ![t].nextstart = nextstart, ![t].passes = @ + 1, ![t].asleep = TRUE]
      /\ UNCHANGED <<os, process, now, log, session, orphans>>

(* Reported the first time in a session.                                      *)
unexpected_realtime_delay(l) == IF l.complained THEN l ELSE [rtapi_print_msg(l) EXCEPT !.complained = TRUE]

(* wait, at the end of a pass: nextstart is advanced from where it was.  When *)
(* it has gone by, the next pass begins at once; otherwise the thread sleeps. *)
Posix_wait(t) ==
  LET nextstart == rtapi_timespec_advance(threads[t].nextstart, Period[t])
      late == rtapi_timespec_less(nextstart, Timespec(now))
  IN  /\ Passing(t)
      /\ threads' = [threads EXCEPT ![t].nextstart = nextstart, ![t].passes = @ + 1, ![t].asleep = ~late]
      /\ log' = IF late THEN unexpected_realtime_delay(log) ELSE log
      /\ UNCHANGED <<os, process, now, session, orphans>>

(* As built, nanosleep for the time that is left by the clock: the thread may *)
(* wake later than nextstart, never before it.                                *)
Wake(t) ==
  /\ process.phase # "ended" /\ threads[t].asleep
  /\ ~rtapi_timespec_less(Timespec(now), threads[t].nextstart)
  /\ threads' = [threads EXCEPT ![t].asleep = FALSE]
  /\ UNCHANGED <<os, process, now, log, session, orphans>>

Tick ==
  /\ process.phase # "ended" /\ now < MaxTime /\ session <= ClockRuns
  /\ \E t \in Threads : threads[t].alive
  /\ now' = now + 1
  /\ UNCHANGED <<os, process, threads, log, session, orphans>>

------------------------------------------------------------------------------
(* The program as a whole.                                                    *)

(* hal_start_threads.                                                         *)
StartThreads ==
  /\ process.phase = "starting" /\ process.step > Len(Startup)
  /\ process' = [process EXCEPT !.phase = "running"]
  /\ UNCHANGED <<os, threads, now, log, session, orphans>>

(* The first pass of ecatthread stores the address of its table of motors in  *)
(* emcecatStatus->motoro, over the counter of the ids.                        *)
ecatthread(word) ==
  /\ process.phase = "running" /\ Passing("ecat-thread") /\ ~process.motors
  /\ os' = [os EXCEPT !.uuid = word]
  /\ process' = [process EXCEPT !.motors = TRUE]
  /\ UNCHANGED <<threads, now, log, session, orphans>>

(* A signal ends the main loop; exit gives nothing back.                      *)
Quit ==
  /\ process.phase = "running"
  /\ process' = [process EXCEPT !.phase = "stopping"]
  /\ UNCHANGED <<os, threads, now, log, session, orphans>>

Ended == [NewProcess EXCEPT !.phase = "ended"]

EndWith(left) ==
  /\ process' = Ended /\ threads' = [t \in Threads |-> NoThread] /\ now' = 0 /\ log' = NewLog
  /\ orphans' = left
  /\ UNCHANGED <<os, session>>

Exit == process.phase = "leaving" /\ EndWith(orphans)

Kill == process.phase # "ended" /\ EndWith(os.taken)

Restart ==
  /\ process.phase = "ended" /\ session < MaxSessions
  /\ process' = NewProcess /\ session' = session + 1
  /\ UNCHANGED <<os, threads, now, log, orphans>>

Main == EnterInit \/ RefuseInit \/ rtapi_init \/ EnterHal \/ LeaveHal \/ StartThreads
        \/ \E granted \in BOOLEAN : ModuleSegment(granted) \/ rtapi_task_start(granted)

Next ==
  \/ Main \/ Quit \/ CancelReader \/ stopprintf \/ Exit
  \/ queue_function
  \/ \E t \in Threads : Posix_wait(t) \/ Wake(t)
  \/ \E word \in Pointers : ecatthread(word)
  \/ Tick \/ Kill \/ Restart

(* The main thread runs on: nothing but a taken mutex stops it.  The reader   *)
(* never blocks.                                                              *)
Spec == Init /\ [][Next]_vars /\ WF_vars(Main) /\ WF_vars(queue_function)

------------------------------------------------------------------------------
(* Properties.                                                                *)

Running == process.phase \in {"starting", "running"}
Done(key) == {i \in 1 .. Len(Startup) : Startup[i].op \in {"init", "new"} /\ Startup[i].key = key
                /\ (i < process.step \/ (i = process.step /\ process.inside))}

(* The handles are sound in every session, whatever the last one left behind: *)
(* each counts the users that attached through it, so that none can remove a  *)
(* segment another still uses; the segment is there, and its pages hold what  *)
(* every user of it asked for, although the socket module asks first and for  *)
(* less; handle 0, which hal_init takes for no segment, is not the HAL's; and *)
(* no id is handed out twice.                                                 *)
HandlesSound ==
  Running =>
    /\ \A key \in Keys : (Done(key) # {}) <=> Holds(Shm, key)
    /\ \A h \in Handles : process.handles[h] # Free =>
         LET key == process.handles[h].key
         IN  /\ process.handles[h].count = Cardinality(Done(key))
             /\ os.size[key] > 0
             /\ \A i \in Done(key) : Sizes[Startup[i].who] <= Mapped(os.size[key])
    /\ process.handles[0].key \in {"UUID", "none"}
    /\ Cardinality(process.ids) = Cardinality({i \in 1 .. process.step - 1 : Startup[i].op = "init"})

(* A start-up ends, one way or the other, unless an earlier session was       *)
(* killed with a mutex of a segment taken: rtapi_mutex_get has no way to find *)
(* that its holder is dead.                                                   *)
StartEnds == (process.phase = "starting" /\ orphans = {}) ~> (process.phase # "starting")

(* Threads keep their time: a late pass moves no later one, the start of each *)
(* being counted from the start of the thread, in seconds and nanoseconds     *)
(* that stay normal; and no pass but the first begins before its time.        *)
OnSchedule ==
  \A t \in Threads : threads[t].alive =>
    /\ threads[t].nextstart = Timespec(threads[t].born + (threads[t].passes + 1) * Period[t])
    /\ threads[t].passes > 0 /\ ~threads[t].asleep => now >= Time(threads[t].nextstart)

(* The log loses no message it accepted, through the cancellation of its      *)
(* reader and the last messages printed by the main thread: each that is not  *)
(* printed is in the queue or in the reader's hand.                           *)
LogKept == log.owed = log.queued + log.hand
=============================================================================
