----------------------------- MODULE HalRegistry -----------------------------
(* The registry of src/hal/hal_lib.c: components, the realtime functions they *)
(* export, the threads, and per thread a doubly linked list of function       *)
(* entries, which thread_task walks WITHOUT the mutex of the registry.        *)
(*                                                                            *)
(* One client calls the library (the task's main thread, in this program);    *)
(* every thread of the registry runs thread_task.  Singly linked lists        *)
(* (components, functions, threads, pins), touched only under the mutex, are  *)
(* sets and sequences; the entry lists keep their next and prev fields, and   *)
(* the stores a walking thread can see are steps of their own.  A call the    *)
(* library refuses changes nothing and is no step, except where a refusal     *)
(* comes after a change.  The client unlinks functions only after             *)
(* hal_stop_threads, as the three ..._thread_exit functions do.               *)
EXTENDS Integers, Sequences, SequencesExt, FiniteSets, TLC

CONSTANTS
  Threads,    \* names of threads; a thread also stands for the root of its list
  Functs,     \* names of functions
  Reentrant,  \* the functions exported as reentrant
  Entries,    \* the function entries the shared memory has room for
  FreeRoot,   \* funct_entry_free
  None,       \* a null pointer
  MaxUuid     \* bound on the ids handed out

ASSUME Bounds == IsFiniteSet(Entries) /\ MaxUuid \in Nat
ASSUME ReentrantAreFuncts == Reentrant \subseteq Functs
ASSUME NodesDiffer ==
  /\ Entries \cap Threads = {} /\ FreeRoot \notin Entries \cup Threads
  /\ None \notin Entries \cup Functs

VARIABLES
  uuid,             \* last id handed out by rtapi_init
  comps,            \* ids of the components of modules
  ready,            \* those that called hal_ready
  functs,           \* exported functions: [owner, users] by name
  thread_list,      \* threads, newest first
  threads_running,
  next, prev,       \* links of the entry lists
  funct,            \* function an entry calls, None when cleared
  mutex,
  client,           \* the call in progress
  phase,            \* what thread_task does: "none", "wait", "call"
  pos,              \* the entry thread_task stands at
  running,          \* the function it is in
  walked, linked,   \* entries called in this pass; entries linked since it began
  dirty             \* an entry was unlinked during this pass

registry == <<uuid, comps, ready, functs, thread_list>>
lists == <<next, prev, funct>>
walk == <<phase, pos, running, walked, linked, dirty>>
vars == <<registry, threads_running, lists, mutex, client, walk>>

(* Threads and entries only name what is shared out.                          *)
Symmetry == Permutations(Threads) \cup Permutations(Entries)

(* Positions asked for in a list: first and last.                            *)
Positions == {1, -1}

Node == Entries \cup Threads \cup {FreeRoot}

(* The entries of a list, walking nx from its root.                           *)
ChainOf(nx, root) ==
  LET Walk[n \in 0 .. Cardinality(Entries)] ==
        IF n = 0 THEN <<>>
        ELSE LET s == Walk[n - 1]
                 e == nx[IF Len(s) = 0 THEN root ELSE s[Len(s)]]
             IN  IF e \in Entries THEN Append(s, e) ELSE s
  IN  Walk[Cardinality(Entries)]

Chain(root) == ChainOf(next, root)

Linked(t) == Range(Chain(t))
Callers(f) == {e \in UNION {Linked(t) : t \in Threads} : funct[e] = f}
HomesOf(e) == {r \in Threads \cup {FreeRoot} : e \in Linked(r)}

(* The nodes after and before a node, round the nodes s.                      *)
At(s, n) == CHOOSE i \in DOMAIN s : s[i] = n
Following(s, n) == s[(At(s, n) % Len(s)) + 1]
Preceding(s, n) == s[((At(s, n) + Len(s) - 2) % Len(s)) + 1]

Idle == [op |-> "idle"]

(* rtapi_mutex_get spins while the bit is set.                                *)
Begin(call) == /\ client = Idle /\ ~mutex
               /\ mutex' = TRUE /\ client' = call
(* A whole call under the mutex that no walking thread can see inside of.     *)
Atomic == client = Idle /\ ~mutex /\ UNCHANGED <<mutex, client>>

Init ==
  /\ uuid = 0 /\ comps = {} /\ ready = {}
  /\ functs = <<>> /\ thread_list = <<>>
  /\ threads_running = FALSE /\ mutex = FALSE /\ client = Idle
  \* every entry the heap can still give, as a list of free ones
  /\ \E order \in SetToSeqs(Entries) :
       LET s == <<FreeRoot>> \o order IN
         /\ next = [n \in Node |-> IF n \in Threads THEN n ELSE Following(s, n)]
         /\ prev = [n \in Node |-> IF n \in Threads THEN n ELSE Preceding(s, n)]
  /\ funct = [e \in Entries |-> None]
  /\ phase = [t \in Threads |-> "none"] /\ pos = [t \in Threads |-> t]
  /\ walked = [t \in Threads |-> <<>>] /\ linked = [t \in Threads |-> {}]
  /\ running = [t \in Threads |-> None] /\ dirty = [t \in Threads |-> FALSE]

-----------------------------------------------------------------------------
(* Components.                                                                *)

(* The name of a component is never stored, so the test that it is unique     *)
(* never fails.                                                               *)
hal_init ==
  /\ Atomic
  /\ uuid < MaxUuid /\ uuid' = uuid + 1
  /\ comps' = comps \cup {uuid'}
  /\ UNCHANGED <<ready, functs, thread_list, threads_running, lists, walk>>

hal_ready(id) ==
  /\ Atomic
  /\ id \in comps \ ready
  /\ ready' = ready \cup {id}
  /\ UNCHANGED <<uuid, comps, functs, thread_list, threads_running, lists, walk>>

hal_unready(id) ==
  /\ Atomic
  /\ id \in ready
  /\ ready' = ready \ {id}
  /\ UNCHANGED <<uuid, comps, functs, thread_list, threads_running, lists, walk>>

(* The call then makes the pin of the function's run time, and fails if one   *)
(* of that name is left from an exited component: the function stays.         *)
hal_export_funct(f, id) ==
  /\ Atomic
  /\ id \in comps \ ready
  /\ f \notin DOMAIN functs
  /\ functs' = [g \in DOMAIN functs \cup {f} |->
                  IF g = f THEN [owner |-> id, users |-> 0] ELSE functs[g]]
  /\ UNCHANGED <<uuid, comps, ready, thread_list, threads_running, lists, walk>>

-----------------------------------------------------------------------------
(* Threads.                                                                   *)

(* The task starts before the thread is in the list; a refusal of RTAPI       *)
(* leaves everything but the structure (lost) as it was.  The thread becomes  *)
(* a component of its own, whose id nothing but hal_thread_delete reads and   *)
(* which the model leaves out.                                                *)
hal_create_thread(t) ==
  /\ Atomic
  /\ ~Contains(thread_list, t)
  /\ thread_list' = <<t>> \o thread_list
  /\ phase' = [phase EXCEPT ![t] = "wait"]
  /\ UNCHANGED <<uuid, comps, ready, functs, threads_running, lists,
                 pos, running, walked, linked, dirty>>

hal_start_threads ==
  /\ client = Idle
  /\ threads_running' = TRUE
  /\ UNCHANGED <<registry, lists, mutex, client, walk>>

hal_stop_threads ==
  /\ client = Idle
  /\ threads_running' = FALSE
  /\ UNCHANGED <<registry, lists, mutex, client, walk>>

(* With the mutex held it calls hal_exit for the thread's component, which    *)
(* waits for the mutex: the call never returns.                               *)
hal_thread_delete(t) ==
  /\ Begin([op |-> "thread_delete"])
  /\ Contains(thread_list, t)
  /\ UNCHANGED <<registry, threads_running, lists, walk>>

-----------------------------------------------------------------------------
(* Function entries.                                                          *)

(* The node after which position p inserts: p > 0 counts from the root,       *)
(* p < 0 from the end.                                                        *)
InsertAfter(t, p) ==
  LET s == <<t>> \o Chain(t)
      i == IF p > 0 THEN p ELSE Len(s) + p + 1
  IN  IF i \in DOMAIN s THEN s[i] ELSE None

(* list_remove_entry on the free list, as the first stores of an add.         *)
Taken(e) == [next EXCEPT ![FreeRoot] = next[e]]
TakenPrev(e) == [prev EXCEPT ![next[e]] = FreeRoot]

(* Mutants: the list points at the entry before the entry points into the     *)
(* list; no test that a function in use is reentrant.                         *)
hal_add_funct_to_thread_LinksFirst(f, t, p) ==
  LET e == next[FreeRoot]
      after == InsertAfter(t, p)
  IN  /\ Contains(thread_list, t) /\ f \in DOMAIN functs
      /\ functs[f].users > 0 => f \in Reentrant
      /\ after # None /\ e # FreeRoot
      /\ Begin([op |-> "add", entry |-> e, after |-> after, funct |-> f, thread |-> t])
      /\ funct' = [funct EXCEPT ![e] = f]
      /\ next' = [Taken(e) EXCEPT ![after] = e]
      /\ prev' = [TakenPrev(e) EXCEPT ![e] = after]
      /\ UNCHANGED <<registry, threads_running, walk>>

hal_add_funct_to_thread_AnyUser(f, t, p) ==
  LET e == next[FreeRoot]
      after == InsertAfter(t, p)
  IN  /\ Contains(thread_list, t) /\ f \in DOMAIN functs
      /\ after # None /\ e # FreeRoot
      /\ Begin([op |-> "add", entry |-> e, after |-> after, funct |-> f, thread |-> t])
      /\ funct' = [funct EXCEPT ![e] = f]
      /\ next' = [Taken(e) EXCEPT ![e] = next[after]]
      /\ prev' = [TakenPrev(e) EXCEPT ![e] = after]
      /\ UNCHANGED <<registry, threads_running, walk>>

(* Up to the second store of list_add_after: the new entry points into the    *)
(* list, the list not yet at the entry.                                       *)
hal_add_funct_to_thread(f, t, p) ==
  LET e == next[FreeRoot]
      after == InsertAfter(t, p)
  IN  /\ Contains(thread_list, t)
      /\ f \in DOMAIN functs
      /\ functs[f].users > 0 => f \in Reentrant
      /\ after # None
      /\ e # FreeRoot
      /\ Begin([op |-> "add", entry |-> e, after |-> after, funct |-> f, thread |-> t])
      /\ funct' = [funct EXCEPT ![e] = f]
      /\ next' = [Taken(e) EXCEPT ![e] = next[after]]
      /\ prev' = [TakenPrev(e) EXCEPT ![e] = after]
      /\ UNCHANGED <<registry, threads_running, walk>>

(* With no room for an entry, alloc_funct_entry_struct links a null pointer   *)
(* before it is tested: the process is gone, with the mutex.                  *)
AddWithoutRoom(f, t, p) ==
  /\ Contains(thread_list, t) /\ f \in DOMAIN functs
  /\ functs[f].users > 0 => f \in Reentrant
  /\ InsertAfter(t, p) # None /\ next[FreeRoot] = FreeRoot
  /\ Begin([op |-> "gone"])
  /\ UNCHANGED <<registry, threads_running, lists, walk>>

(* Mutant: the count of users is not raised.                                  *)
LinkEntry_Uncounted ==
  /\ client.op = "add"
  /\ next' = [next EXCEPT ![client.after] = client.entry]
  /\ prev' = [prev EXCEPT ![next[client.after]] = client.entry]
  /\ mutex' = FALSE /\ client' = Idle
  /\ UNCHANGED <<registry, threads_running, funct, walk>>

(* The third store makes the entry visible; the rest of the call.             *)
LinkEntry ==
  /\ client.op = "add"
  /\ next' = [next EXCEPT ![client.after] = client.entry]
  /\ prev' = [prev EXCEPT ![next[client.after]] = client.entry]
  /\ functs' = [functs EXCEPT ![client.funct].users = @ + 1]
  /\ mutex' = FALSE /\ client' = Idle
  /\ UNCHANGED <<uuid, comps, ready, thread_list, threads_running, funct, walk>>

(* The first entry of the thread's list that calls the function.              *)
FirstUse(f, t) ==
  LET c == Chain(t) IN c[SelectInSeq(c, LAMBDA e : funct[e] = f)]

Uses(f, t) == \E e \in Linked(t) : funct[e] = f

hal_del_funct_from_thread(f, t) ==
  /\ ~threads_running
  /\ Contains(thread_list, t)
  /\ f \in DOMAIN functs /\ functs[f].users > 0
  /\ Uses(f, t)
  /\ Begin([op |-> "del", entry |-> FirstUse(f, t), stage |-> "linked"])
  /\ UNCHANGED <<registry, threads_running, lists, walk>>

(* free_comp_struct frees the functions of the component, and                 *)
(* free_funct_struct unlinks their entries from every thread, if it has users.*)
hal_exit(id) ==
  /\ ~threads_running
  /\ id \in comps
  /\ Begin([op |-> "exit", id |-> id, entry |-> None, stage |-> "linked"])
  /\ UNCHANGED <<registry, threads_running, lists, walk>>

InUse(id) == {f \in DOMAIN functs : functs[f].owner = id /\ functs[f].users > 0}

(* The first thread of the list that calls the function.                      *)
FirstUser(f) == thread_list[SelectInSeq(thread_list, LAMBDA t : Uses(f, t))]

(* The next entry that hal_exit unlinks: of one function after the other, in  *)
(* the order of their names, the first in the threads, newest first.          *)
NextOfExit(id) == LET f == CHOOSE f \in InUse(id) : TRUE IN FirstUse(f, FirstUser(f))

Unlinking ==
  \/ client.op = "del" /\ client.stage # "done"
  \/ client.op = "exit" /\ (client.stage = "detached" \/ InUse(client.id) # {})

(* list_remove_entry: the list skips the entry, and the entry points at       *)
(* itself.                                                                    *)
Detach ==
  LET e == IF client.op = "del" THEN client.entry ELSE NextOfExit(client.id) IN
  /\ Unlinking /\ client.stage = "linked"
  /\ next' = [next EXCEPT ![prev[e]] = next[e], ![e] = e]
  /\ prev' = [prev EXCEPT ![next[e]] = prev[e], ![e] = e]
  /\ client' = [client EXCEPT !.entry = e, !.stage = "detached"]
  /\ dirty' = [t \in Threads |-> dirty[t] \/ (e \in Linked(t) /\ phase[t] = "call")]
  /\ linked' = [t \in Threads |-> linked[t] \ {e}]
  /\ UNCHANGED <<registry, threads_running, funct, mutex, phase, pos, running, walked>>

(* hal_del_funct_from_thread is done with one entry, hal_exit when no         *)
(* function of the component is in use.                                       *)
free_funct_entry_struct ==
  LET e == client.entry IN
  /\ Unlinking /\ client.stage = "detached"
  /\ functs' = [functs EXCEPT ![funct[e]].users = @ - 1]
  /\ funct' = [funct EXCEPT ![e] = None]
  /\ next' = [next EXCEPT ![e] = next[FreeRoot], ![FreeRoot] = e]
  /\ prev' = [prev EXCEPT ![e] = FreeRoot, ![next[FreeRoot]] = e]
  /\ client' = [client EXCEPT !.entry = None,
                              !.stage = IF client.op = "del" THEN "done" ELSE "linked"]
  /\ UNCHANGED <<uuid, comps, ready, thread_list, threads_running, mutex, walk>>

(* What is left when nothing is to unlink; its pins stay in their list.      *)
FinishUnlink ==
  /\ client.op \in {"del", "exit"} /\ ~Unlinking
  /\ IF client.op = "del" THEN UNCHANGED <<comps, ready, functs>>
     ELSE /\ functs' = [f \in {g \in DOMAIN functs : functs[g].owner # client.id} |-> functs[f]]
          /\ comps' = comps \ {client.id} /\ ready' = ready \ {client.id}
  /\ mutex' = FALSE /\ client' = Idle
  /\ UNCHANGED <<uuid, thread_list, threads_running, lists, walk>>

-----------------------------------------------------------------------------
(* thread_task: from the root, per entry the call of its function, then the   *)
(* load of next together with the next call.  A cleared entry, or a node that *)
(* is no entry, is a call of no function: the process ends.                   *)

Enter(t, n) ==
  LET f == IF n \in Entries THEN funct[n] ELSE None IN
  /\ pos' = [pos EXCEPT ![t] = n]
  /\ phase' = [phase EXCEPT ![t] = IF n = t THEN "wait"
                                   ELSE IF f = None THEN "crashed" ELSE "call"]
  /\ running' = [running EXCEPT ![t] = f]
  \* a walk that may have strayed, perhaps for ever, is not recorded
  /\ walked' = [walked EXCEPT ![t] = IF n = t \/ dirty[t] THEN <<>> ELSE Append(@, n)]
  /\ UNCHANGED <<registry, threads_running, lists, mutex, client>>

BeginPass(t) ==
  /\ phase[t] = "wait" /\ threads_running
  /\ next[t] # t
  /\ Enter(t, next[t])
  /\ linked' = [linked EXCEPT ![t] = Linked(t)]
  /\ UNCHANGED dirty

(* An entry cleared during the call ends the pass.                            *)
Advance(t) ==
  LET n == IF funct[pos[t]] = None THEN t ELSE next[pos[t]] IN
  /\ phase[t] = "call"
  /\ Enter(t, n)
  /\ linked' = [linked EXCEPT ![t] = IF n = t THEN {} ELSE @]
  /\ dirty' = [dirty EXCEPT ![t] = n # t /\ @]

(* hal_app_exit: rtapi_task_delete cancels the task and waits for it to end,  *)
(* which it does in rtapi_wait, before the entries of the thread are freed.   *)
hal_app_exit ==
  /\ Begin([op |-> "app_exit"])
  /\ threads_running' = (threads_running /\ thread_list = <<>>)
  /\ UNCHANGED <<registry, lists, walk>>

free_thread_struct ==
  LET t == Head(thread_list)
      s == <<FreeRoot>> \o Reverse(Chain(t)) \o Chain(FreeRoot)
      gone == {e \in Linked(t) : funct[e] \in DOMAIN functs}
  IN  /\ client.op = "app_exit" /\ thread_list # <<>>
      /\ phase[t] = "wait"
      /\ phase' = [phase EXCEPT ![t] = "none"]
      /\ thread_list' = Tail(thread_list)
      /\ functs' = [f \in DOMAIN functs |->
                      [functs[f] EXCEPT !.users = @ - Cardinality({e \in gone : funct[e] = f})]]
      /\ funct' = [e \in Entries |-> IF e \in Linked(t) THEN None ELSE funct[e]]
      /\ next' = [n \in Node |-> IF n = t THEN t
                                 ELSE IF n \in Range(s) THEN Following(s, n) ELSE next[n]]
      /\ prev' = [n \in Node |-> IF n = t THEN t
                                 ELSE IF n \in Range(s) THEN Preceding(s, n) ELSE prev[n]]
      /\ UNCHANGED <<uuid, comps, ready, threads_running, mutex, client,
                     pos, running, walked, linked, dirty>>

(* The mutex is given and the memory released: no call follows.               *)
Released ==
  /\ client.op = "app_exit" /\ thread_list = <<>>
  /\ mutex' = FALSE /\ client' = [op |-> "released"]
  /\ UNCHANGED <<registry, threads_running, lists, walk>>

-----------------------------------------------------------------------------
Client ==
  \/ hal_init
  \/ \E id \in comps : hal_ready(id) \/ hal_unready(id) \/ hal_exit(id)
  \/ \E id \in comps, f \in Functs : hal_export_funct(f, id)
  \/ \E t \in Threads : hal_create_thread(t) \/ hal_thread_delete(t)
  \/ hal_start_threads \/ hal_stop_threads \/ hal_app_exit
  \/ \E f \in Functs, t \in Threads, p \in Positions :
       hal_add_funct_to_thread(f, t, p) \/ AddWithoutRoom(f, t, p)
  \/ \E f \in Functs, t \in Threads : hal_del_funct_from_thread(f, t)

InCall == LinkEntry \/ Detach \/ free_funct_entry_struct \/ FinishUnlink
          \/ free_thread_struct \/ Released

thread_task(t) == BeginPass(t) \/ Advance(t)

(* After a call of no function, or an entry at a null pointer, the process is *)
(* gone; while hal_thread_delete waits for itself the registry changes no     *)
(* more.                                                                      *)
Alive == client.op \notin {"thread_delete", "gone"} /\ \A t \in Threads : phase[t] # "crashed"

Next == Alive /\ (Client \/ InCall \/ \E t \in Threads : thread_task(t))

Spec == Init /\ [][Next]_vars

-----------------------------------------------------------------------------
TypeOK ==
  /\ uuid \in 0 .. MaxUuid
  /\ comps \subseteq 1 .. MaxUuid
  /\ ready \subseteq comps
  /\ DOMAIN functs \subseteq Functs
  /\ \A f \in DOMAIN functs : functs[f] \in [owner : 1 .. MaxUuid, users : Nat]
  /\ thread_list \in Seq(Threads) /\ IsInjective(thread_list)
  /\ next \in [Node -> Node] /\ prev \in [Node -> Node]
  /\ funct \in [Entries -> Functs \cup {None}]
  /\ threads_running \in BOOLEAN /\ mutex \in BOOLEAN
  /\ phase \in [Threads -> {"none", "wait", "call", "crashed"}]
  /\ pos \in [Threads -> Node] /\ dirty \in [Threads -> BOOLEAN]
  /\ running \in [Threads -> Functs \cup {None}]

(* Between calls the registry agrees with itself.  The user count of a        *)
(* function is the number of entries that call it, over all threads:          *)
(* free_funct_struct looks for entries only when the count says there are     *)
(* some, and hal_add_funct_to_thread refuses a second thread by it.  Nothing  *)
(* refers to what is gone: a linked entry calls an exported function, whose   *)
(* component is in the list, and each entry is in one list, whose prev fields *)
(* reverse its next fields.                                                   *)
RegistryConsistent ==
  /\ TypeOK
  /\ client = Idle =>
       /\ \A f \in DOMAIN functs : /\ functs[f].users = Cardinality(Callers(f))
                                 /\ functs[f].owner \in comps
       /\ \A t \in Threads : \A e \in Linked(t) :
            funct[e] \in DOMAIN functs /\ Contains(thread_list, t)
       /\ \A e \in Entries :
            /\ Cardinality(HomesOf(e)) = 1
            /\ prev[next[e]] = e /\ next[prev[e]] = e
            /\ (funct[e] = None) <=> (e \in Linked(FreeRoot))

(* The place of an entry in a list, 0 if it is not in it.                     *)
PlaceIn(c, e) == SelectInSeq(c, LAMBDA d : d = e)

(* A pass during which nothing was unlinked, but functions may have been      *)
(* added, calls only functions, and when it ends it has called every entry    *)
(* linked since it began exactly once, in the order of the list.              *)
PassSound ==
  \A t \in Threads : ~dirty[t] =>
    /\ phase[t] # "crashed"
    /\ phase[t] = "call" =>
         LET c == Chain(t)
             k == PlaceIn(c, pos[t])
             whole == walked[t] \o SubSeq(c, k + 1, Len(c))
         IN  k > 0 /\ IsInjective(whole) /\ linked[t] \subseteq Range(whole)

(* A function that is not reentrant is never in execution in two threads,     *)
(* unless one of them is in a pass it was unlinked from.                      *)
NotReentered ==
  \A t, u \in Threads :
    /\ t # u /\ running[t] # None /\ running[t] = running[u]
    /\ ~dirty[t] /\ ~dirty[u]
    => running[t] \in Reentrant
=============================================================================
