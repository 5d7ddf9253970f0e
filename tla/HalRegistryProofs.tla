-------------------------- MODULE HalRegistryProofs --------------------------
(* Proofs about the registry of src/hal/hal_lib.c, for any threads, functions *)
(* and entries and any order of calls and walks.                              *)
(*                                                                            *)
(* Between two stores of a call the lists do not agree with the counts, so    *)
(* the invariant says what is in hand: every entry is in exactly one ring, or *)
(* it is the one that the call in progress has taken off and not put back.    *)
(* The count of a function leaves out the entry that is being added and still *)
(* has the one that is being freed.  A pass is followed by the place it       *)
(* stands at in its list, from which the entries it has yet to call are read. *)
EXTENDS HalRegistry, FiniteSetTheorems, SequenceTheorems, WellFoundedInduction, TLAPS

Roots == Threads \cup {FreeRoot}

(* Place i of a list: its root at 0, then its entries; and the place after.   *)
Place(r, s, i) == IF i = 0 THEN r ELSE s[i]
After(s, i) == IF i = Len(s) THEN 0 ELSE i + 1

Distinct(s) == \A i, j \in 1 .. Len(s) : s[i] = s[j] => i = j

(* The entries s, from the root r and back to it: next leads round the ring,  *)
(* prev back.                                                                 *)
Ring(nx, pv, r, s) ==
  /\ s \in Seq(Entries)
  /\ Distinct(s)
  /\ \A i \in 0 .. Len(s) : /\ nx[Place(r, s, i)] = Place(r, s, After(s, i))
                            /\ pv[Place(r, s, After(s, i))] = Place(r, s, i)

Has(s, e) == \E i \in 1 .. Len(s) : s[i] = e

(* Every entry is in exactly one of the rings, or in hand.                    *)
Layout(nx, pv, ch, hand) ==
  /\ DOMAIN ch = Roots
  /\ \A r \in Roots : Ring(nx, pv, r, ch[r])
  /\ \A e \in Entries : e \in hand \/ \E r \in Roots : Has(ch[r], e)
  /\ \A e \in hand, r \in Roots : ~Has(ch[r], e)
  /\ \A e \in Entries : \A r, q \in Roots : Has(ch[r], e) /\ Has(ch[q], e) => r = q

Chains == [r \in Roots |-> Chain(r)]

(* The entry that is being added, which its function does not count, and the  *)
(* entry that is being freed, which it counts still.                          *)
Pending == IF client.op = "add" THEN {client.entry} ELSE {}
Freeing == IF client.op \in {"del", "exit"} /\ client.stage = "detached" THEN {client.entry} ELSE {}

ListsSound == Layout(next, prev, Chains, Pending \cup Freeing)

Calls(fn, f, but) == {e \in Entries \ but : fn[e] = f}

FunctsSound ==
  /\ \A e \in Entries : (funct[e] = None) <=> Has(Chain(FreeRoot), e)
  /\ \A e \in Entries : funct[e] # None => funct[e] \in DOMAIN functs
  /\ \A f \in DOMAIN functs :
       /\ functs[f].owner \in comps
       /\ functs[f].users = Cardinality(Calls(funct, f, Pending))
  /\ \A d, e \in Entries :
       funct[d] = funct[e] /\ funct[d] # None /\ funct[d] \notin Reentrant => d = e

ThreadsSound ==
  /\ \A t \in Threads : (phase[t] = "none") <=> ~Contains(thread_list, t)
  /\ \A t \in Threads, e \in Entries : Has(Chain(t), e) => Contains(thread_list, t)

AddSound ==
  client.op = "add" =>
    /\ client.entry \in Entries /\ client.thread \in Threads
    /\ Contains(thread_list, client.thread)
    /\ client.after = client.thread \/ Has(Chain(client.thread), client.after)
    /\ next[client.entry] = next[client.after] /\ prev[client.entry] = client.after
    /\ client.funct \in DOMAIN functs /\ funct[client.entry] = client.funct

ClientSound ==
  /\ client \in {Idle, [op |-> "thread_delete"], [op |-> "gone"], [op |-> "app_exit"], [op |-> "released"]}
        \cup [op : {"add"}, entry : Entries, after : Node, funct : Functs, thread : Threads]
        \cup [op : {"del"}, entry : Entries \cup {None}, stage : {"linked", "detached", "done"}]
        \cup [op : {"exit"}, id : 1 .. MaxUuid, entry : Entries \cup {None},
              stage : {"linked", "detached"}]
  /\ AddSound
  /\ client.op = "del" /\ client.stage = "linked" => \E t \in Threads : Has(Chain(t), client.entry)
  /\ client.op \in {"del", "exit"} /\ client.stage = "detached" => client.entry \in Entries
  /\ client.op \in {"del", "exit"} /\ client.stage = "detached" => funct[client.entry] # None
  /\ client.op = "exit" => client.id \in comps

(* A pass that stands at place k of the list c: it has called entries up to   *)
(* there, each once, and of those linked since it began it has not called     *)
(* only later ones.                                                           *)
InPass(c, p, w, l) ==
  \E k \in 1 .. Len(c) :
    /\ c[k] = p
    /\ w \in Seq(Entries)
    /\ Distinct(w)
    /\ \A i \in 1 .. Len(w) : \E j \in 1 .. k : c[j] = w[i]
    /\ \A e \in l : Has(w, e) \/ \E j \in k + 1 .. Len(c) : c[j] = e

WalkOf(t) ==
  /\ phase[t] = "call" => pos[t] \in Entries
  /\ ~dirty[t] => /\ phase[t] # "crashed"
                  /\ phase[t] # "call" => running[t] = None /\ walked[t] = <<>>
                  /\ phase[t] = "call" => /\ running[t] = funct[pos[t]]
                                          /\ InPass(Chain(t), pos[t], walked[t], linked[t])

WalkSound ==
  /\ DOMAIN walked = Threads /\ DOMAIN linked = Threads
  /\ \A t \in Threads : WalkOf(t)

HalInv == /\ TypeOK /\ ListsSound /\ FunctsSound /\ ThreadsSound /\ ClientSound /\ WalkSound

------------------------------------------------------------------------------
(* Induction.                                                                 *)

(* A set of naturals that is not empty has a least element.                   *)
LEMMA HasLeast ==
  ASSUME NEW T, T \subseteq Nat, T # {}
  PROVE  \E x \in T : \A y \in T : x <= y
<1>1. PICK R : R = OpToRel(<, Nat)  OBVIOUS
<1>2. IsWellFoundedOn(R, Nat)  BY <1>1, NatLessThanWellFounded
<1>3. \E x \in T : \A y \in T : ~ (<<y, x>> \in R)  BY <1>2, WFMin
<1>4. \A x \in Nat, y \in Nat : y < x => <<y, x>> \in R  BY <1>1 DEF OpToRel
<1>5. PICK x \in T : \A y \in T : ~ (<<y, x>> \in R)  BY <1>3
<1>6. ASSUME NEW y \in T PROVE x <= y
  <2>1. x \in Nat /\ y \in Nat /\ ~(y < x)  BY <1>4, <1>5, <1>6
  <2> QED  BY <2>1
<1> QED  BY <1>6

(* A set with 0 in it, and with every n the number after it, holds every      *)
(* natural number.                                                            *)
LEMMA SetInduction ==
  ASSUME NEW S, 0 \in S, \A n \in Nat : n \in S => n + 1 \in S
  PROVE  Nat \subseteq S
<1> SUFFICES ASSUME Nat \ S # {} PROVE FALSE  OBVIOUS
<1>1. PICK x \in Nat \ S : \A y \in Nat \ S : x <= y  BY HasLeast
<1>2. x - 1 \in Nat  BY <1>1
<1> QED  BY <1>1, <1>2

------------------------------------------------------------------------------
(* Rings.                                                                     *)

(* The nodes of the model are told apart.                                     *)
LEMMA RootsDiffer ==
  /\ FreeRoot \in Roots /\ Threads \subseteq Roots /\ FreeRoot \notin Threads
  /\ \A r \in Roots : r \notin Entries
  /\ Node = Entries \cup Roots /\ None \notin Entries /\ None \notin Functs
BY NodesDiffer DEF Roots, Node

(* The places of a list: each is a node, and no node has two.                 *)
PlacesOf(r, s) ==
  /\ Len(s) \in Nat
  /\ \A i \in 0 .. Len(s) : Place(r, s, i) \in Node /\ After(s, i) \in 0 .. Len(s)
  /\ \A i, j \in 0 .. Len(s) : Place(r, s, i) = Place(r, s, j) => i = j
  /\ \A i, j \in 0 .. Len(s) : After(s, i) = After(s, j) => i = j

(* So it is with a ring.                                                      *)
LEMMA PlacesDiffer ==
  ASSUME NEW nx, NEW pv, NEW r \in Roots, NEW s, Ring(nx, pv, r, s)
  PROVE  PlacesOf(r, s)
<1>1. s \in Seq(Entries) /\ (\A i, j \in 1 .. Len(s) : s[i] = s[j] => i = j)
  BY DEF Ring, Distinct
<1>2. Len(s) \in Nat /\ \A i \in 1 .. Len(s) : s[i] \in Entries
  BY <1>1
<1>3. r \notin Entries /\ r \in Node
  BY RootsDiffer
<1>4. \A i \in 0 .. Len(s) : i # 0 => i \in 1 .. Len(s)
  BY <1>2
<1>5. \A i \in 0 .. Len(s) : Place(r, s, i) \in Node
  BY <1>2, <1>3, <1>4, RootsDiffer DEF Place
<1>6. \A i, j \in 0 .. Len(s) : Place(r, s, i) = Place(r, s, j) => i = j
  BY <1>1, <1>2, <1>3, <1>4 DEF Place
<1>7. \A i \in 0 .. Len(s) : After(s, i) \in 0 .. Len(s)
  BY <1>2 DEF After
<1>8. \A i, j \in 0 .. Len(s) : After(s, i) = After(s, j) => i = j
  BY <1>2 DEF After
<1>9. QED
  BY <1>2, <1>5, <1>6, <1>7, <1>8 DEF PlacesOf

(* A ring is no longer than there are entries.                                *)
LEMMA RingFits ==
  ASSUME NEW nx, NEW pv, NEW r, NEW s, Ring(nx, pv, r, s)
  PROVE  Cardinality(Entries) \in Nat /\ Len(s) <= Cardinality(Entries)
<1>1. s \in Seq(Entries) /\ (\A i, j \in 1 .. Len(s) : s[i] = s[j] => i = j)
  BY DEF Ring, Distinct
<1>2. PICK n \in Nat : n = Len(s)
  BY <1>1
<1>3. s \in [1 .. n -> Entries] /\ (\A i, j \in 1 .. n : s[i] = s[j] => i = j)
  BY <1>1, <1>2
<1>4. s \in Injection(1 .. n, Entries)
  BY <1>3 DEF Injection, IsInjective
<1>5. IsFiniteSet(Entries)
  BY Bounds
<1>6. Cardinality(1 .. n) <= Cardinality(Entries)
  BY <1>4, <1>5, FS_Injection
<1>7. Cardinality(1 .. n) = n
  <2>1. 1 \in Int /\ n \in Int
    OBVIOUS
  <2>2. Cardinality(1 .. n) = IF 1 > n THEN 0 ELSE n - 1 + 1
    BY <2>1, FS_Interval
  <2>3. QED
    BY <2>2
<1>8. Cardinality(Entries) \in Nat
  BY <1>5, FS_CardinalityType
<1>9. QED
  BY <1>2, <1>6, <1>7, <1>8

(* Walking next finds the entries of the ring.                                *)
LEMMA ChainOfRing ==
  ASSUME NEW nx, NEW pv, NEW r \in Roots, NEW s, Ring(nx, pv, r, s)
  PROVE  ChainOf(nx, r) = s
<1>1. PICK N \in Nat : N = Cardinality(Entries) /\ Len(s) <= N
  BY RingFits
<1>2. PICK L \in Nat : L = Len(s)
  BY PlacesDiffer DEF PlacesOf
<1>3. s \in Seq(Entries) /\ s \in [1 .. L -> Entries]
  BY <1>2 DEF Ring
<1>4. \A i \in 0 .. L : nx[Place(r, s, i)] = Place(r, s, After(s, i))
  BY <1>2 DEF Ring
<1> DEFINE Upto(n) == IF n <= L THEN n ELSE L
           Step(u) == LET e == nx[IF Len(u) = 0 THEN r ELSE u[Len(u)]]
                      IN  IF e \in Entries THEN Append(u, e) ELSE u
<1>5. PICK f : f = [n \in 0 .. N |-> [i \in 1 .. Upto(n) |-> s[i]]]
  OBVIOUS
<1>6. \A n \in 0 .. N : f[n] = [i \in 1 .. Upto(n) |-> s[i]]
  BY <1>5
<1>7. f[0] = <<>>
  <2>1. 0 \in 0 .. N /\ Upto(0) = 0
    OBVIOUS
  <2>2. f[0] = [i \in 1 .. 0 |-> s[i]]
    BY <1>6, <2>1, Zenon
  <2>3. QED
    BY <2>2
<1>8. ASSUME NEW n \in 1 .. N PROVE f[n] = Step(f[n - 1])
  <2>1. PICK m \in 0 .. N : m = n - 1 /\ n = m + 1
    <3>1. n - 1 \in 0 .. N /\ n = (n - 1) + 1
      OBVIOUS
    <3>2. QED
      BY <3>1
  <2>2. PICK u : u = f[m]
    OBVIOUS
  <2>3. PICK k \in 0 .. L : k = Upto(m)
    OBVIOUS
  <2>4. u = [i \in 1 .. k |-> s[i]]
    BY <1>6, <2>2, <2>3, Zenon
  <2>5. u \in Seq(Entries) /\ Len(u) = k
    <3>1. \A i \in 1 .. k : s[i] \in Entries
      BY <1>3
    <3>2. QED
      BY <2>4, <3>1
  <2>6. (IF Len(u) = 0 THEN r ELSE u[Len(u)]) = Place(r, s, k)
    BY <2>4, <2>5 DEF Place
  <2>7. PICK e : e = nx[IF Len(u) = 0 THEN r ELSE u[Len(u)]]
    OBVIOUS
  <2>8. e = Place(r, s, After(s, k))
    BY <1>4, <2>6, <2>7
  <2>9. Step(u) = IF e \in Entries THEN Append(u, e) ELSE u
    BY <2>7
  <2>10. CASE m < L
    <3>1. k = m /\ After(s, k) = n /\ n # 0 /\ n \in 1 .. L /\ Upto(n) = n
      BY <1>2, <2>1, <2>3, <2>10 DEF After
    <3>2. e = s[n] /\ e \in Entries
      BY <1>3, <2>8, <3>1 DEF Place
    <3>3. Step(u) = Append(u, e)
      BY <2>9, <3>2
    <3>4. Append(u, e) = [i \in 1 .. n |-> s[i]]
      BY <2>1, <2>4, <2>5, <3>1, <3>2
    <3>5. f[n] = [i \in 1 .. n |-> s[i]]
      BY <1>6, <3>1
    <3>6. QED
      BY <2>1, <2>2, <3>3, <3>4, <3>5
  <2>11. CASE ~(m < L)
    <3>1. k = L /\ After(s, k) = 0 /\ Upto(n) = L
      BY <1>2, <2>1, <2>3, <2>11 DEF After
    <3>2. e = r /\ e \notin Entries
      BY <2>8, <3>1, RootsDiffer DEF Place
    <3>3. Step(u) = u
      BY <2>9, <3>2
    <3>4. f[n] = [i \in 1 .. L |-> s[i]] /\ u = [i \in 1 .. L |-> s[i]]
      BY <1>6, <2>4, <3>1
    <3>5. QED
      BY <2>1, <2>2, <3>3, <3>4
  <2>12. QED
    BY <2>10, <2>11
<1>9. f = [n \in 0 .. N |-> IF n = 0 THEN <<>> ELSE Step(f[n - 1])]
  <2>1. \A n \in 0 .. N : n # 0 => n \in 1 .. N
    OBVIOUS
  <2>2. \A n \in 0 .. N : f[n] = IF n = 0 THEN <<>> ELSE Step(f[n - 1])
    BY <1>7, <1>8, <2>1, Zenon
  <2>3. f = [n \in 0 .. N |-> f[n]]
    BY <1>5
  <2>4. QED
    BY <2>2, <2>3, Zenon
<1> DEFINE W == CHOOSE h : h = [n \in 0 .. N |-> IF n = 0 THEN <<>> ELSE Step(h[n - 1])]
<1>10. W = [n \in 0 .. N |-> IF n = 0 THEN <<>> ELSE Step(W[n - 1])]
  BY <1>9, Zenon
<1>11. ChainOf(nx, r) = W[N]
  BY <1>1, Zenon DEF ChainOf
<1> HIDE DEF W, Step
<1>12. W[0] = <<>> /\ \A n \in 1 .. N : W[n] = Step(W[n - 1])
  <2>1. 0 \in 0 .. N
    OBVIOUS
  <2>2. \A n \in 1 .. N : n \in 0 .. N /\ n # 0
    OBVIOUS
  <2>3. QED
    BY <1>10, <2>1, <2>2, Zenon
<1>13. PICK T : T = {n \in Nat : n <= N => W[n] = f[n]}
  OBVIOUS
<1>14. 0 \in T
  BY <1>7, <1>12, <1>13
<1>15. ASSUME NEW n \in Nat, n \in T PROVE n + 1 \in T
  <2>1. CASE n + 1 <= N
    <3>1. n + 1 \in 1 .. N /\ (n + 1) - 1 = n /\ n <= N
      BY <1>1, <2>1
    <3>2. W[n + 1] = Step(W[n]) /\ f[n + 1] = Step(f[n])
      BY <1>8, <1>12, <3>1, Zenon
    <3>3. W[n] = f[n]
      BY <1>13, <1>15, <3>1
    <3>4. QED
      BY <1>13, <3>2, <3>3
  <2>2. CASE ~(n + 1 <= N)
    BY <1>13, <2>2
  <2>3. QED
    BY <2>1, <2>2
<1>16. Nat \subseteq T
  BY <1>14, <1>15, SetInduction
<1>17. W[N] = f[N]
  BY <1>1, <1>13, <1>16
<1>18. f[N] = s
  <2>1. Upto(N) = L /\ N \in 0 .. N
    BY <1>1, <1>2
  <2>2. f[N] = [i \in 1 .. L |-> s[i]]
    BY <1>6, <2>1, Zenon
  <2>3. QED
    BY <1>3, <2>2
<1>19. QED
  BY <1>11, <1>17, <1>18

(* The entry e put at place k of a list, and place k taken out of it.         *)
Inserted(s, k, e) ==
  [i \in 1 .. Len(s) + 1 |-> IF i < k THEN s[i] ELSE IF i = k THEN e ELSE s[i - 1]]
Removed(s, k) == [i \in 1 .. Len(s) - 1 |-> IF i < k THEN s[i] ELSE s[i + 1]]

IsInserted(u, s, k, e) ==
  /\ u \in Seq(Entries) /\ Len(u) = Len(s) + 1
  /\ \A i \in 1 .. Len(s) + 1 :
       u[i] = IF i < k THEN s[i] ELSE IF i = k THEN e ELSE s[i - 1]
  /\ \A d : Has(u, d) <=> (Has(s, d) \/ d = e)
IsRemoved(u, s, k) ==
  /\ u \in Seq(Entries) /\ Len(u) = Len(s) - 1
  /\ \A i \in 1 .. Len(s) - 1 : u[i] = IF i < k THEN s[i] ELSE s[i + 1]
  /\ \A d : Has(u, d) <=> (Has(s, d) /\ d # s[k])

(* What is in a list into which an entry was put.                             *)
LEMMA InsertedHas ==
  ASSUME NEW s \in Seq(Entries), NEW e \in Entries, NEW k \in 1 .. Len(s) + 1, NEW u,
         u = Inserted(s, k, e)
  PROVE  IsInserted(u, s, k, e)
<1>1. PICK L \in Nat : L = Len(s)
  OBVIOUS
<1>2. u = [i \in 1 .. L + 1 |-> IF i < k THEN s[i] ELSE IF i = k THEN e ELSE s[i - 1]]
  BY <1>1 DEF Inserted
<1>3. k \in 1 .. L + 1 /\ \A i \in 1 .. L : s[i] \in Entries
  BY <1>1
<1>4. \A i \in 1 .. L + 1 : u[i] = IF i < k THEN s[i] ELSE IF i = k THEN e ELSE s[i - 1]
  BY <1>2
<1>5. \A i \in 1 .. L + 1 : u[i] \in Entries
  BY <1>3, <1>4
<1>6. u \in Seq(Entries) /\ Len(u) = L + 1
  <2>1. u \in [1 .. L + 1 -> Entries]
    BY <1>2, <1>5
  <2>2. u \in Seq(Entries)
    BY <2>1
  <2>3. Len(u) = L + 1
    BY <1>2
  <2>4. QED
    BY <2>2, <2>3
<1>7. ASSUME NEW d PROVE Has(u, d) <=> (Has(s, d) \/ d = e)
  <2>1. ASSUME NEW i \in 1 .. L + 1, u[i] = d PROVE Has(s, d) \/ d = e
    <3>1. CASE i < k
      <4>1. i \in 1 .. L /\ s[i] = d
        BY <1>3, <1>4, <2>1, <3>1
      <4>2. QED
        BY <1>1, <4>1 DEF Has
    <3>2. CASE i = k
      BY <1>4, <2>1, <3>2
    <3>3. CASE i > k
      <4>1. i - 1 \in 1 .. L /\ s[i - 1] = d
        BY <1>3, <1>4, <2>1, <3>3
      <4>2. QED
        BY <1>1, <4>1 DEF Has
    <3>4. QED
      BY <1>3, <3>1, <3>2, <3>3
  <2>2. ASSUME NEW i \in 1 .. L, s[i] = d PROVE Has(u, d)
    <3>1. CASE i < k
      <4>1. i \in 1 .. L + 1 /\ u[i] = d
        BY <1>4, <2>2, <3>1
      <4>2. QED
        BY <1>6, <4>1 DEF Has
    <3>2. CASE ~(i < k)
      <4>1. i + 1 \in 1 .. L + 1 /\ u[i + 1] = d
        <5>1. i + 1 \in 1 .. L + 1 /\ ~(i + 1 < k) /\ i + 1 # k /\ (i + 1) - 1 = i
          BY <1>3, <3>2
        <5>2. u[i + 1] = s[(i + 1) - 1]
          BY <1>4, <5>1, Zenon
        <5>3. QED
          BY <2>2, <5>1, <5>2
      <4>2. QED
        BY <1>6, <4>1 DEF Has
    <3>3. QED
      BY <3>1, <3>2
  <2>3. ASSUME d = e PROVE Has(u, d)
    <3>1. u[k] = d
      BY <1>3, <1>4, <2>3
    <3>2. QED
      BY <1>3, <1>6, <3>1 DEF Has
  <2>4. QED
    BY <1>1, <1>6, <2>1, <2>2, <2>3 DEF Has
<1>8. QED
  BY <1>1, <1>4, <1>6, <1>7 DEF IsInserted

(* What is in a list from which a place was taken.                            *)
LEMMA RemovedHas ==
  ASSUME NEW s \in Seq(Entries), NEW k \in 1 .. Len(s), NEW u, u = Removed(s, k),
         Distinct(s)
  PROVE  IsRemoved(u, s, k)
<1>1. PICK L \in Nat : L = Len(s) /\ L - 1 \in Nat
  OBVIOUS
<1>2. u = [i \in 1 .. L - 1 |-> IF i < k THEN s[i] ELSE s[i + 1]]
  BY <1>1 DEF Removed
<1>3. /\ k \in 1 .. L /\ \A i \in 1 .. L : s[i] \in Entries
      /\ \A i, j \in 1 .. L : s[i] = s[j] => i = j
  BY <1>1 DEF Distinct
<1>4. \A i \in 1 .. L - 1 : u[i] = IF i < k THEN s[i] ELSE s[i + 1]
  BY <1>2
<1>5. \A i \in 1 .. L - 1 : u[i] \in Entries
  BY <1>3, <1>4
<1>6. u \in Seq(Entries) /\ Len(u) = L - 1
  <2>1. u \in [1 .. L - 1 -> Entries]
    BY <1>2, <1>5
  <2>2. u \in Seq(Entries)
    BY <1>1, <2>1
  <2>3. Len(u) = L - 1
    BY <1>1, <1>2
  <2>4. QED
    BY <2>2, <2>3
<1>7. ASSUME NEW d PROVE Has(u, d) <=> (Has(s, d) /\ d # s[k])
  <2>1. ASSUME NEW i \in 1 .. L - 1, u[i] = d PROVE Has(s, d) /\ d # s[k]
    <3>1. CASE i < k
      <4>1. i \in 1 .. L /\ s[i] = d /\ i # k
        BY <1>3, <1>4, <2>1, <3>1
      <4>2. QED
        BY <1>1, <1>3, <4>1 DEF Has
    <3>2. CASE ~(i < k)
      <4>1. i + 1 \in 1 .. L /\ s[i + 1] = d /\ i + 1 # k
        BY <1>3, <1>4, <2>1, <3>2
      <4>2. QED
        BY <1>1, <1>3, <4>1 DEF Has
    <3>3. QED
      BY <3>1, <3>2
  <2>2. ASSUME NEW i \in 1 .. L, s[i] = d, d # s[k] PROVE Has(u, d)
    <3>1. CASE i < k
      <4>1. i \in 1 .. L - 1 /\ u[i] = d
        BY <1>3, <1>4, <2>2, <3>1
      <4>2. QED
        BY <1>6, <4>1 DEF Has
    <3>2. CASE i > k
      <4>1. i - 1 \in 1 .. L - 1 /\ ~(i - 1 < k) /\ (i - 1) + 1 = i
        BY <1>3, <3>2
      <4>2. u[i - 1] = d
        <5>1. u[i - 1] = s[(i - 1) + 1]
          BY <1>4, <4>1, Zenon
        <5>2. QED
          BY <2>2, <4>1, <5>1
      <4>3. QED
        BY <1>6, <4>1, <4>2 DEF Has
    <3>3. QED
      BY <1>3, <2>2, <3>1, <3>2
  <2>3. QED
    BY <1>1, <1>6, <2>1, <2>2 DEF Has
<1>8. QED
  BY <1>1, <1>4, <1>6, <1>7 DEF IsRemoved

(* The links between the places of a list are the same, but for the links     *)
(* from the places K.                                                         *)
SameBut(nx, pv, nx2, pv2, r, s, K) ==
  \A i \in (0 .. Len(s)) \ K :
    /\ nx2[Place(r, s, i)] = nx[Place(r, s, i)]
    /\ pv2[Place(r, s, After(s, i))] = pv[Place(r, s, After(s, i))]

(* A ring whose nodes keep their links.                                       *)
LEMMA RingKept ==
  ASSUME NEW nx, NEW pv, NEW nx2, NEW pv2, NEW r \in Roots, NEW s, Ring(nx, pv, r, s),
         SameBut(nx, pv, nx2, pv2, r, s, {})
  PROVE  Ring(nx2, pv2, r, s)
BY DEF Ring, SameBut

(* An entry put between two nodes of a ring.                                  *)
LEMMA RingInserted ==
  ASSUME NEW nx, NEW pv, NEW nx2, NEW pv2, NEW r \in Roots, NEW s, Ring(nx, pv, r, s),
         NEW e \in Entries, ~Has(s, e), NEW k \in 0 .. Len(s),
         nx2[Place(r, s, k)] = e, nx2[e] = Place(r, s, After(s, k)),
         pv2[Place(r, s, After(s, k))] = e, pv2[e] = Place(r, s, k),
         SameBut(nx, pv, nx2, pv2, r, s, {k})
  PROVE  Ring(nx2, pv2, r, Inserted(s, k + 1, e))
<1>1. PICK L \in Nat : L = Len(s)
  BY PlacesDiffer DEF PlacesOf
<1>2. PICK u : u = Inserted(s, k + 1, e)
  OBVIOUS
<1>3. s \in Seq(Entries) /\ k + 1 \in 1 .. Len(s) + 1
  BY <1>1 DEF Ring, Distinct
<1>4. /\ u \in Seq(Entries) /\ Len(u) = L + 1
      /\ \A i \in 1 .. L + 1 : u[i] = IF i < k + 1 THEN s[i] ELSE IF i = k + 1 THEN e ELSE s[i - 1]
  <2>1. /\ u \in Seq(Entries) /\ Len(u) = Len(s) + 1
        /\ \A i \in 1 .. Len(s) + 1 :
             u[i] = IF i < k + 1 THEN s[i] ELSE IF i = k + 1 THEN e ELSE s[i - 1]
    <3>1. IsInserted(u, s, k + 1, e)
      BY <1>2, <1>3, InsertedHas, Zenon
    <3>2. QED
      BY <3>1 DEF IsInserted
  <2>2. QED
    BY <1>1, <2>1
<1>5. \A i, j \in 1 .. L : s[i] = s[j] => i = j
  BY <1>1 DEF Ring, Distinct
<1>6. \A i \in 1 .. L : s[i] # e
  BY <1>1 DEF Has
<1>7. \A i, j \in 1 .. L + 1 : u[i] = u[j] => i = j
  <2> TAKE i, j \in 1 .. L + 1
  <2> HAVE u[i] = u[j]
  <2>1. \A x \in 1 .. L + 1 : \/ x < k + 1 /\ x \in 1 .. L /\ u[x] = s[x]
                              \/ x = k + 1 /\ u[x] = e
                              \/ x > k + 1 /\ x - 1 \in 1 .. L /\ u[x] = s[x - 1]
    BY <1>1, <1>4
  <2>2. QED
    BY <1>5, <1>6, <2>1
<1>8. ASSUME NEW i \in 0 .. L + 1
      PROVE  /\ nx2[Place(r, u, i)] = Place(r, u, After(u, i))
             /\ pv2[Place(r, u, After(u, i))] = Place(r, u, i)
  <2> USE DEF SameBut
  <2>1. \A j \in 0 .. L : /\ nx[Place(r, s, j)] = Place(r, s, After(s, j))
                          /\ pv[Place(r, s, After(s, j))] = Place(r, s, j)
    BY <1>1 DEF Ring, Distinct
  <2>2. \A j \in 0 .. k : Place(r, u, j) = Place(r, s, j)
    BY <1>1, <1>4 DEF Place
  <2>3. Place(r, u, k + 1) = e
    BY <1>1, <1>4 DEF Place
  <2>4. \A j \in k + 1 .. L : Place(r, u, j + 1) = Place(r, s, j)
    <3> TAKE j \in k + 1 .. L
    <3>1. j + 1 \in 1 .. L + 1 /\ ~(j + 1 < k + 1) /\ j + 1 # k + 1 /\ (j + 1) - 1 = j /\ j # 0 /\ j + 1 # 0
      BY <1>1
    <3>2. u[j + 1] = s[(j + 1) - 1]
      BY <1>4, <3>1, Zenon
    <3>3. QED
      BY <3>1, <3>2 DEF Place
  <2>5. CASE i < k
    <3>1. i \in 0 .. k /\ i + 1 \in 0 .. k /\ i \in 0 .. L /\ i # k
      BY <1>1, <2>5
    <3>2. After(u, i) = i + 1 /\ After(s, i) = i + 1
      BY <1>1, <1>4, <2>5 DEF After
    <3>3. QED
      BY <1>1, <2>1, <2>2, <3>1, <3>2
  <2>6. CASE i = k
    <3>1. After(u, i) = k + 1 /\ i \in 0 .. k
      BY <1>1, <1>4, <2>6 DEF After
    <3>2. QED
      BY <2>2, <2>3, <2>6, <3>1
  <2>7. CASE i = k + 1
    <3>1. Place(r, u, After(u, i)) = Place(r, s, After(s, k))
      <4>1. CASE k = L
        <5>1. After(u, i) = 0 /\ After(s, k) = 0
          BY <1>1, <1>4, <2>7, <4>1 DEF After
        <5>2. QED
          BY <5>1 DEF Place
      <4>2. CASE k # L
        <5>1. After(u, i) = (k + 1) + 1 /\ After(s, k) = k + 1 /\ k + 1 \in k + 1 .. L
          BY <1>1, <1>4, <2>7, <4>2 DEF After
        <5>2. QED
          BY <2>4, <5>1
      <4>3. QED
        BY <4>1, <4>2
    <3>2. QED
      BY <2>3, <2>7, <3>1
  <2>8. CASE i > k + 1
    <3>1. PICK j \in k + 1 .. L : i = j + 1 /\ j # k /\ j \in 0 .. L
      <4>1. i - 1 \in k + 1 .. L /\ i = (i - 1) + 1 /\ i - 1 # k /\ i - 1 \in 0 .. L
        BY <1>1, <2>8
      <4>2. QED
        BY <4>1
    <3>2. Place(r, u, After(u, i)) = Place(r, s, After(s, j))
      <4>1. CASE j = L
        <5>1. After(u, i) = 0 /\ After(s, j) = 0
          BY <1>1, <1>4, <3>1, <4>1 DEF After
        <5>2. QED
          BY <5>1 DEF Place
      <4>2. CASE j # L
        <5>1. After(u, i) = (j + 1) + 1 /\ After(s, j) = j + 1 /\ j + 1 \in k + 1 .. L
          BY <1>1, <1>4, <3>1, <4>2 DEF After
        <5>2. QED
          BY <2>4, <5>1
      <4>3. QED
        BY <4>1, <4>2
    <3>3. Place(r, u, i) = Place(r, s, j)
      BY <2>4, <3>1
    <3>4. nx2[Place(r, s, j)] = Place(r, s, After(s, j)) /\ pv2[Place(r, s, After(s, j))] = Place(r, s, j)
      BY <1>1, <2>1, <3>1
    <3>5. QED
      BY <3>2, <3>3, <3>4
  <2>9. QED
    BY <1>1, <2>5, <2>6, <2>7, <2>8
<1>9. Ring(nx2, pv2, r, u)
  BY <1>4, <1>7, <1>8 DEF Ring, Distinct
<1>10. QED
  BY <1>2, <1>9

(* A node taken out of a ring.                                                *)
LEMMA RingRemoved ==
  ASSUME NEW nx, NEW pv, NEW nx2, NEW pv2, NEW r \in Roots, NEW s, Ring(nx, pv, r, s),
         NEW k \in 1 .. Len(s),
         nx2[Place(r, s, k - 1)] = Place(r, s, After(s, k)),
         pv2[Place(r, s, After(s, k))] = Place(r, s, k - 1),
         SameBut(nx, pv, nx2, pv2, r, s, {k - 1, k})
  PROVE  Ring(nx2, pv2, r, Removed(s, k))
<1>1. PICK L \in Nat : L = Len(s) /\ L - 1 \in Nat /\ k \in 1 .. L
  BY PlacesDiffer DEF PlacesOf
<1>2. PICK u : u = Removed(s, k)
  OBVIOUS
<1>3. s \in Seq(Entries) /\ \A i, j \in 1 .. L : s[i] = s[j] => i = j
  BY <1>1 DEF Ring, Distinct
<1>4. /\ u \in Seq(Entries) /\ Len(u) = L - 1
      /\ \A i \in 1 .. L - 1 : u[i] = IF i < k THEN s[i] ELSE s[i + 1]
  <2>1. Distinct(s)
    BY DEF Ring
  <2>2. /\ u \in Seq(Entries) /\ Len(u) = Len(s) - 1
        /\ \A i \in 1 .. Len(s) - 1 : u[i] = IF i < k THEN s[i] ELSE s[i + 1]
    <3>1. IsRemoved(u, s, k)
      BY <1>2, <1>3, <2>1, RemovedHas, Zenon
    <3>2. QED
      BY <3>1 DEF IsRemoved
  <2>3. QED
    BY <1>1, <2>2
<1>5. \A i, j \in 1 .. L - 1 : u[i] = u[j] => i = j
  <2> TAKE i, j \in 1 .. L - 1
  <2> HAVE u[i] = u[j]
  <2>1. \A x \in 1 .. L - 1 : \/ x < k /\ x \in 1 .. L /\ u[x] = s[x]
                              \/ ~(x < k) /\ x + 1 \in 1 .. L /\ u[x] = s[x + 1]
    BY <1>1, <1>4
  <2>2. QED
    BY <1>1, <1>3, <2>1
<1>6. ASSUME NEW i \in 0 .. L - 1
      PROVE  /\ nx2[Place(r, u, i)] = Place(r, u, After(u, i))
             /\ pv2[Place(r, u, After(u, i))] = Place(r, u, i)
  <2> USE DEF SameBut
  <2>1. \A j \in 0 .. L : /\ nx[Place(r, s, j)] = Place(r, s, After(s, j))
                          /\ pv[Place(r, s, After(s, j))] = Place(r, s, j)
    BY <1>1 DEF Ring, Distinct
  <2>2. \A j \in 0 .. k - 1 : Place(r, u, j) = Place(r, s, j)
    BY <1>1, <1>4 DEF Place
  <2>3. \A j \in k .. L - 1 : Place(r, u, j) = Place(r, s, j + 1)
    BY <1>1, <1>4 DEF Place
  <2>4. CASE i < k - 1
    <3>1. i \in 0 .. k - 1 /\ i + 1 \in 0 .. k - 1 /\ i \in 0 .. L /\ i # k - 1 /\ i # k
      BY <1>1, <2>4
    <3>2. After(u, i) = i + 1 /\ After(s, i) = i + 1
      BY <1>1, <1>4, <2>4 DEF After
    <3>3. QED
      BY <1>1, <2>1, <2>2, <3>1, <3>2
  <2>5. CASE i = k - 1
    <3>1. Place(r, u, After(u, i)) = Place(r, s, After(s, k))
      <4>1. CASE k = L
        <5>1. After(u, i) = 0 /\ After(s, k) = 0
          BY <1>1, <1>4, <2>5, <4>1 DEF After
        <5>2. QED
          BY <5>1 DEF Place
      <4>2. CASE k # L
        <5>1. After(u, i) = k /\ After(s, k) = k + 1 /\ k \in k .. L - 1
          BY <1>1, <1>4, <2>5, <4>2 DEF After
        <5>2. QED
          BY <2>3, <5>1
      <4>3. QED
        BY <4>1, <4>2
    <3>2. Place(r, u, i) = Place(r, s, k - 1)
      BY <1>1, <2>2, <2>5
    <3>3. QED
      BY <3>1, <3>2
  <2>6. CASE i > k - 1
    <3>1. i \in k .. L - 1 /\ i + 1 \in 0 .. L /\ i + 1 # k - 1 /\ i + 1 # k
      BY <1>1, <2>6
    <3>2. Place(r, u, After(u, i)) = Place(r, s, After(s, i + 1))
      <4>1. CASE i = L - 1
        <5>1. After(u, i) = 0 /\ After(s, i + 1) = 0
          BY <1>1, <1>4, <4>1 DEF After
        <5>2. QED
          BY <5>1 DEF Place
      <4>2. CASE i # L - 1
        <5>1. After(u, i) = i + 1 /\ After(s, i + 1) = (i + 1) + 1 /\ i + 1 \in k .. L - 1
          BY <1>1, <1>4, <3>1, <4>2 DEF After
        <5>2. QED
          BY <2>3, <5>1
      <4>3. QED
        BY <4>1, <4>2
    <3>3. Place(r, u, i) = Place(r, s, i + 1)
      BY <2>3, <3>1
    <3>4. /\ nx2[Place(r, s, i + 1)] = Place(r, s, After(s, i + 1))
          /\ pv2[Place(r, s, After(s, i + 1))] = Place(r, s, i + 1)
      BY <1>1, <2>1, <3>1
    <3>5. QED
      BY <3>2, <3>3, <3>4
  <2>7. QED
    BY <1>1, <2>4, <2>5, <2>6
<1>7. Ring(nx2, pv2, r, u)
  BY <1>4, <1>5, <1>6 DEF Ring, Distinct
<1>8. QED
  BY <1>2, <1>7

------------------------------------------------------------------------------
(* Layouts: all the rings.                                                    *)

(* The rings of a layout are the chains found by walking next.                *)
LEMMA LayoutChains ==
  ASSUME NEW nx, NEW pv, NEW ch, NEW hand, Layout(nx, pv, ch, hand)
  PROVE  \A r \in Roots : ChainOf(nx, r) = ch[r]
BY ChainOfRing DEF Layout

(* A list of a layout and its root.                                           *)
LEMMA LayoutRing ==
  ASSUME NEW nx, NEW pv, NEW ch, NEW hand, Layout(nx, pv, ch, hand), NEW r \in Roots
  PROVE  Ring(nx, pv, r, ch[r]) /\ ch[r] \in Seq(Entries) /\ Len(ch[r]) \in Nat
BY DEF Layout, Ring

(* No node is in two rings.                                                   *)
PlacesApart(q, s, r, u) ==
  \A i \in 0 .. Len(s), j \in 0 .. Len(u) : Place(q, s, i) # Place(r, u, j)

(* So it is with two lists of a layout.                                       *)
LEMMA RingsApart ==
  ASSUME NEW nx, NEW pv, NEW ch, NEW hand, Layout(nx, pv, ch, hand),
         NEW q \in Roots, NEW r \in Roots, q # r
  PROVE  PlacesApart(q, ch[q], r, ch[r])
<1> SUFFICES ASSUME NEW i \in 0 .. Len(ch[q]), NEW j \in 0 .. Len(ch[r])
             PROVE  Place(q, ch[q], i) # Place(r, ch[r], j)
  BY DEF PlacesApart
<1>1. Len(ch[q]) \in Nat /\ Len(ch[r]) \in Nat /\ ch[q] \in Seq(Entries) /\ ch[r] \in Seq(Entries)
  BY LayoutRing
<1>2. q \notin Entries /\ r \notin Entries
  BY RootsDiffer
<1>3. i # 0 => i \in 1 .. Len(ch[q]) /\ ch[q][i] \in Entries /\ Has(ch[q], ch[q][i])
  BY <1>1 DEF Has
<1>4. j # 0 => j \in 1 .. Len(ch[r]) /\ ch[r][j] \in Entries /\ Has(ch[r], ch[r][j])
  BY <1>1 DEF Has
<1>5. \A d \in Entries : ~(Has(ch[q], d) /\ Has(ch[r], d))
  BY DEF Layout
<1>6. QED
  BY <1>2, <1>3, <1>4, <1>5 DEF Place

(* An entry that is in no list, or not in this one, is at no place of it.     *)
LEMMA NotPlaced ==
  ASSUME NEW r \in Roots, NEW s, Len(s) \in Nat, NEW e \in Entries, ~Has(s, e),
         NEW i \in 0 .. Len(s)
  PROVE  Place(r, s, i) # e
<1>1. i # 0 => i \in 1 .. Len(s)
  OBVIOUS
<1>2. QED
  BY <1>1, RootsDiffer DEF Place, Has

(* The links after an entry was put between a and b, and after it was taken   *)
(* from between them.                                                         *)
LinksIn(nx, pv, nx2, pv2, e, a, b) ==
  /\ \A n \in Node : nx2[n] = IF n = a THEN e ELSE IF n = e THEN b ELSE nx[n]
  /\ \A n \in Node : pv2[n] = IF n = b THEN e ELSE IF n = e THEN a ELSE pv[n]
LinksOut(nx, pv, nx2, pv2, e, a, b) ==
  /\ \A n \in Node \ {e} : nx2[n] = IF n = a THEN b ELSE nx[n]
  /\ \A n \in Node \ {e} : pv2[n] = IF n = b THEN a ELSE pv[n]

(* An entry in hand is put into a list.                                       *)
LEMMA LayoutInserted ==
  ASSUME NEW nx, NEW pv, NEW nx2, NEW pv2, NEW ch, NEW ch2,
         NEW e \in Entries, Layout(nx, pv, ch, {e}),
         NEW r \in Roots, NEW k \in 0 .. Len(ch[r]),
         NEW a, a = Place(r, ch[r], k), NEW b, b = Place(r, ch[r], After(ch[r], k)),
         LinksIn(nx, pv, nx2, pv2, e, a, b),
         ch2 = [ch EXCEPT ![r] = Inserted(ch[r], k + 1, e)]
  PROVE  Layout(nx2, pv2, ch2, {})
<1> SUFFICES ASSUME \A n \in Node : nx2[n] = IF n = a THEN e ELSE IF n = e THEN b ELSE nx[n],
                    \A n \in Node : pv2[n] = IF n = b THEN e ELSE IF n = e THEN a ELSE pv[n]
             PROVE  Layout(nx2, pv2, ch2, {})
  BY Zenon DEF LinksIn
<1>1. PICK s : s = ch[r]
  OBVIOUS
<1>2. Ring(nx, pv, r, s) /\ s \in Seq(Entries) /\ Len(s) \in Nat /\ k \in 0 .. Len(s)
  BY <1>1, LayoutRing
<1>3. ~Has(s, e) /\ \A q \in Roots : ~Has(ch[q], e)
  BY <1>1 DEF Layout
<1>4. DOMAIN ch = Roots /\ DOMAIN ch2 = Roots /\ ch2[r] = Inserted(s, k + 1, e)
      /\ \A q \in Roots : q # r => ch2[q] = ch[q]
  BY <1>1 DEF Layout
<1>5. /\ a = Place(r, s, k) /\ b = Place(r, s, After(s, k))
      /\ \A i \in 0 .. Len(s) : Place(r, s, i) \in Node /\ After(s, i) \in 0 .. Len(s)
      /\ \A i, j \in 0 .. Len(s) : Place(r, s, i) = Place(r, s, j) => i = j
      /\ \A i, j \in 0 .. Len(s) : After(s, i) = After(s, j) => i = j
  <2>1. PlacesOf(r, s)
    BY <1>2, PlacesDiffer, Zenon
  <2>2. QED
    BY <1>1, <2>1 DEF PlacesOf
<1>6. a \in Node /\ b \in Node /\ e \in Node /\ a # e /\ b # e
  BY <1>2, <1>3, <1>5, NotPlaced, RootsDiffer
<1>7. Ring(nx2, pv2, r, ch2[r])
  <2>1. nx2[a] = e /\ nx2[e] = b /\ pv2[b] = e /\ pv2[e] = a
    BY <1>6
  <2>2. \A i \in 0 .. Len(s) : i # k => Place(r, s, i) # a /\ Place(r, s, After(s, i)) # b
    BY <1>2, <1>5
  <2>3. \A i \in 0 .. Len(s) : Place(r, s, i) # e /\ Place(r, s, After(s, i)) # e
    BY <1>2, <1>3, <1>5, NotPlaced
  <2>4. ASSUME NEW i \in 0 .. Len(s), i # k
        PROVE  /\ nx2[Place(r, s, i)] = nx[Place(r, s, i)]
               /\ pv2[Place(r, s, After(s, i))] = pv[Place(r, s, After(s, i))]
    BY <1>5, <2>2, <2>3, <2>4
  <2>5. Ring(nx2, pv2, r, Inserted(s, k + 1, e))
    <3>1. SameBut(nx, pv, nx2, pv2, r, s, {k})
      BY <2>4 DEF SameBut
    <3>2. QED
      BY <1>2, <1>3, <1>5, <2>1, <3>1, RingInserted
  <2>6. QED
    BY <1>4, <2>5
<1>8. ASSUME NEW q \in Roots, q # r PROVE Ring(nx2, pv2, q, ch2[q])
  <2>1. Ring(nx, pv, q, ch[q]) /\ Len(ch[q]) \in Nat
    BY LayoutRing
  <2>2. After(s, k) \in 0 .. Len(s)
    BY <1>2, <1>5
  <2>3. PlacesApart(q, ch[q], r, s) /\ PlacesOf(q, ch[q])
    BY <1>1, <1>8, <2>1, RingsApart, PlacesDiffer, Zenon
  <2>30. ASSUME NEW i \in 0 .. Len(ch[q])
         PROVE  /\ nx2[Place(q, ch[q], i)] = nx[Place(q, ch[q], i)]
                /\ pv2[Place(q, ch[q], i)] = pv[Place(q, ch[q], i)]
    <3>1. Place(q, ch[q], i) \in Node
      BY <2>3 DEF PlacesOf
    <3>2. Place(q, ch[q], i) # a /\ Place(q, ch[q], i) # b
      BY <1>2, <1>5, <2>2, <2>3 DEF PlacesApart
    <3>4. Place(q, ch[q], i) # e
      BY <1>3, <2>1, NotPlaced
    <3>5. QED
      BY <3>1, <3>2, <3>4
  <2>31. SameBut(nx, pv, nx2, pv2, q, ch[q], {})
    BY <2>3, <2>30 DEF SameBut, PlacesOf
  <2>4. Ring(nx2, pv2, q, ch[q])
    BY <2>1, <2>31, RingKept, Zenon
  <2>5. QED
    BY <1>4, <1>8, <2>4
<1>9. \A d : Has(ch2[r], d) <=> (Has(s, d) \/ d = e)
  <2>1. k + 1 \in 1 .. Len(s) + 1
    BY <1>2
  <2>2. IsInserted(ch2[r], s, k + 1, e)
    BY <1>2, <1>4, <2>1, InsertedHas, Zenon
  <2>3. QED
    BY <2>2 DEF IsInserted
<1>10. \A d \in Entries : \E q \in Roots : Has(ch2[q], d)
  <2> TAKE d \in Entries
  <2>1. d = e \/ \E q \in Roots : Has(ch[q], d)
    BY DEF Layout
  <2>2. QED
    BY <1>1, <1>4, <1>9, <2>1
<1>11. \A d \in Entries : \A p, q \in Roots : Has(ch2[p], d) /\ Has(ch2[q], d) => p = q
  <2>1. \A d \in Entries : \A p, q \in Roots : Has(ch[p], d) /\ Has(ch[q], d) => p = q
    BY DEF Layout
  <2>2. QED
    BY <1>1, <1>3, <1>4, <1>9, <2>1
<1>12. \A q \in Roots : Ring(nx2, pv2, q, ch2[q])
  BY <1>7, <1>8
<1>13. QED
  BY <1>4, <1>10, <1>11, <1>12 DEF Layout

(* An entry is taken out of its list, into the hand; its own links may be     *)
(* anything.                                                                  *)
LEMMA LayoutRemoved ==
  ASSUME NEW nx, NEW pv, NEW nx2, NEW pv2, NEW ch, NEW ch2, Layout(nx, pv, ch, {}),
         NEW r \in Roots, NEW k \in 1 .. Len(ch[r]), NEW e, e = ch[r][k],
         NEW a, a = Place(r, ch[r], k - 1), NEW b, b = Place(r, ch[r], After(ch[r], k)),
         LinksOut(nx, pv, nx2, pv2, e, a, b),
         ch2 = [ch EXCEPT ![r] = Removed(ch[r], k)]
  PROVE  Layout(nx2, pv2, ch2, {e})
<1> SUFFICES ASSUME \A n \in Node \ {e} : nx2[n] = IF n = a THEN b ELSE nx[n],
                    \A n \in Node \ {e} : pv2[n] = IF n = b THEN a ELSE pv[n]
             PROVE  Layout(nx2, pv2, ch2, {e})
  BY Zenon DEF LinksOut
<1>1. PICK s : s = ch[r]
  OBVIOUS
<1>2. Ring(nx, pv, r, s) /\ s \in Seq(Entries) /\ Len(s) \in Nat /\ k \in 1 .. Len(s)
      /\ k \in 0 .. Len(s) /\ k - 1 \in 0 .. Len(s)
  BY <1>1, LayoutRing
<1>3. e \in Entries /\ e = Place(r, s, k) /\ Has(s, e)
  BY <1>1, <1>2 DEF Place, Has
<1>4. DOMAIN ch = Roots /\ DOMAIN ch2 = Roots /\ ch2[r] = Removed(s, k)
      /\ \A q \in Roots : q # r => ch2[q] = ch[q]
  BY <1>1 DEF Layout
<1>5. /\ a = Place(r, s, k - 1) /\ b = Place(r, s, After(s, k))
      /\ \A i \in 0 .. Len(s) : Place(r, s, i) \in Node /\ After(s, i) \in 0 .. Len(s)
      /\ \A i, j \in 0 .. Len(s) : Place(r, s, i) = Place(r, s, j) => i = j
      /\ \A i, j \in 0 .. Len(s) : After(s, i) = After(s, j) => i = j
  <2>1. PlacesOf(r, s)
    BY <1>2, PlacesDiffer, Zenon
  <2>2. QED
    BY <1>1, <2>1 DEF PlacesOf
<1>6. After(s, k - 1) = k /\ After(s, k) # k
  BY <1>2 DEF After
<1>7. a \in Node /\ b \in Node /\ e \in Node /\ a # e /\ b # e
  <2>1. k - 1 # k
    BY <1>2
  <2>2. QED
    BY <1>2, <1>3, <1>5, <1>6, <2>1
<1>8. Ring(nx2, pv2, r, ch2[r])
  <2>1. nx2[a] = b /\ pv2[b] = a
    BY <1>7
  <2>2. \A i \in 0 .. Len(s) : i # k - 1 /\ i # k => Place(r, s, i) # a /\ Place(r, s, After(s, i)) # b
    BY <1>2, <1>5
  <2>3. \A i \in 0 .. Len(s) : i # k - 1 /\ i # k => Place(r, s, i) # e /\ Place(r, s, After(s, i)) # e
    <3> TAKE i \in 0 .. Len(s)
    <3> HAVE i # k - 1 /\ i # k
    <3>1. After(s, i) # k
      BY <1>2, <1>5, <1>6
    <3>2. QED
      BY <1>2, <1>3, <1>5, <3>1
  <2>4. ASSUME NEW i \in 0 .. Len(s), i # k - 1 /\ i # k
        PROVE  /\ nx2[Place(r, s, i)] = nx[Place(r, s, i)]
               /\ pv2[Place(r, s, After(s, i))] = pv[Place(r, s, After(s, i))]
    BY <1>5, <2>2, <2>3, <2>4
  <2>5. Ring(nx2, pv2, r, Removed(s, k))
    <3>1. SameBut(nx, pv, nx2, pv2, r, s, {k - 1, k})
      BY <2>4 DEF SameBut
    <3>2. QED
      BY <1>2, <1>5, <2>1, <3>1, RingRemoved
  <2>6. QED
    BY <1>4, <2>5
<1>9. ASSUME NEW q \in Roots, q # r PROVE Ring(nx2, pv2, q, ch2[q])
  <2>1. Ring(nx, pv, q, ch[q]) /\ Len(ch[q]) \in Nat
    BY LayoutRing
  <2>2. After(s, k) \in 0 .. Len(s)
    BY <1>2, <1>5
  <2>3. PlacesApart(q, ch[q], r, s) /\ PlacesOf(q, ch[q])
    BY <1>1, <1>9, <2>1, RingsApart, PlacesDiffer, Zenon
  <2>30. ASSUME NEW i \in 0 .. Len(ch[q])
         PROVE  /\ nx2[Place(q, ch[q], i)] = nx[Place(q, ch[q], i)]
                /\ pv2[Place(q, ch[q], i)] = pv[Place(q, ch[q], i)]
    <3>1. Place(q, ch[q], i) \in Node
      BY <2>3 DEF PlacesOf
    <3>2. Place(q, ch[q], i) # a /\ Place(q, ch[q], i) # b
      BY <1>2, <1>5, <2>2, <2>3 DEF PlacesApart
    <3>4. Place(q, ch[q], i) # e
      BY <1>2, <1>3, <2>3 DEF PlacesApart
    <3>5. QED
      BY <3>1, <3>2, <3>4
  <2>31. SameBut(nx, pv, nx2, pv2, q, ch[q], {})
    BY <2>3, <2>30 DEF SameBut, PlacesOf
  <2>4. Ring(nx2, pv2, q, ch[q])
    BY <2>1, <2>31, RingKept, Zenon
  <2>5. QED
    BY <1>4, <1>9, <2>4
<1>10. \A d : Has(ch2[r], d) <=> (Has(s, d) /\ d # e)
  <2>1. Distinct(s)
    BY <1>2 DEF Ring
  <2>2. IsRemoved(ch2[r], s, k)
    BY <1>2, <1>4, <2>1, RemovedHas, Zenon
  <2>3. QED
    BY <1>1, <2>2 DEF IsRemoved
<1>11. \A d \in Entries : \A p, q \in Roots : Has(ch[p], d) /\ Has(ch[q], d) => p = q
  BY DEF Layout
<1>12. \A d \in Entries : d = e \/ \E q \in Roots : Has(ch2[q], d)
  <2> TAKE d \in Entries
  <2>1. \E q \in Roots : Has(ch[q], d)
    BY DEF Layout
  <2>2. QED
    BY <1>1, <1>4, <1>10, <2>1
<1>13. \A d \in Entries : \A p, q \in Roots : Has(ch2[p], d) /\ Has(ch2[q], d) => p = q
  BY <1>1, <1>4, <1>10, <1>11
<1>14. \A q \in Roots : ~Has(ch2[q], e)
  BY <1>1, <1>3, <1>4, <1>10, <1>11
<1>15. \A q \in Roots : Ring(nx2, pv2, q, ch2[q])
  BY <1>8, <1>9
<1>16. QED
  BY <1>4, <1>12, <1>13, <1>14, <1>15 DEF Layout

(* Places counted round a ring of L nodes.                                    *)
LEMMA RoundTheRing ==
  ASSUME NEW L \in Nat, L >= 1, NEW i \in 1 .. L
  PROVE  /\ (i % L) = IF i = L THEN 0 ELSE i
         /\ ((i + L - 2) % L) = IF i = 1 THEN L - 1 ELSE i - 2
<1>1. CASE i = L
  <2>1. (L % L) = 0
    BY Z3
  <2>2. L # 1 => ((L + L - 2) % L) = L - 2
    BY Z3
  <2>3. L = 1 => ((L + L - 2) % L) = 0
    BY Z3
  <2>4. QED
    BY <1>1, <2>1, <2>2, <2>3
<1>2. CASE i # L
  <2>1. (i % L) = i
    BY <1>2, Z3
  <2>2. i = 1 => ((i + L - 2) % L) = L - 1
    BY <1>2, Z3
  <2>3. i # 1 => ((i + L - 2) % L) = i - 2
    BY <1>2, Z3
  <2>4. QED
    BY <1>2, <2>1, <2>2, <2>3
<1>3. QED
  BY <1>1, <1>2

(* The links that lead round the nodes w.                                     *)
LinkedRound(nx, pv, w) ==
  \A i \in 1 .. Len(w) : /\ nx[w[i]] = w[(i % Len(w)) + 1]
                         /\ pv[w[i]] = w[((i + Len(w) - 2) % Len(w)) + 1]

(* The nodes of a list, its root first.                                       *)
NodesOf(w, r, s) ==
  /\ w \in Seq(Node) /\ Len(w) = Len(s) + 1 /\ Distinct(w)
  /\ \A i \in 0 .. Len(s) : w[i + 1] = Place(r, s, i)

(* They are distinct nodes, and numbered like the places of the list.         *)
LEMMA NodesOfList ==
  ASSUME NEW r \in Roots, NEW s \in Seq(Entries), Distinct(s), NEW w, w = <<r>> \o s
  PROVE  NodesOf(w, r, s)
<1>1. r \in Node /\ r \notin Entries /\ Entries \subseteq Node
  BY RootsDiffer
<1>2. PICK L \in Nat : L = Len(s)
  OBVIOUS
<1>3. s \in [1 .. L -> Entries]
  BY <1>2
<1>4. Len(w) = L + 1 /\ w[1] = r /\ \A i \in 1 .. L : w[i + 1] = s[i]
  BY <1>2
<1>5. \A i \in 0 .. L : w[i + 1] = Place(r, s, i)
  BY <1>4 DEF Place
<1>6. w \in Seq(Node)
  <2>1. s \in Seq(Node) /\ <<r>> \in Seq(Node)
    BY <1>1
  <2>2. QED
    BY <2>1
<1>7. Distinct(w)
  <2>1. \A i \in 1 .. L + 1 : i # 1 => i - 1 \in 1 .. L /\ w[i] = s[i - 1] /\ w[i] \in Entries
    <3> TAKE i \in 1 .. L + 1
    <3> HAVE i # 1
    <3>1. i - 1 \in 1 .. L /\ (i - 1) + 1 = i
      OBVIOUS
    <3>2. w[(i - 1) + 1] = s[i - 1]
      BY <1>4, <3>1, Zenon
    <3>3. QED
      BY <1>3, <3>1, <3>2
  <2>2. \A i, j \in 1 .. L : s[i] = s[j] => i = j
    BY <1>2 DEF Distinct
  <2>3. \A i, j \in 1 .. L + 1 : w[i] = w[j] => i = j
    <3> TAKE i, j \in 1 .. L + 1
    <3> HAVE w[i] = w[j]
    <3>1. CASE i = 1
      BY <1>1, <1>4, <2>1, <3>1
    <3>2. CASE j = 1
      BY <1>1, <1>4, <2>1, <3>2
    <3>3. CASE i # 1 /\ j # 1
      <4>1. i - 1 \in 1 .. L /\ j - 1 \in 1 .. L /\ s[i - 1] = s[j - 1]
        BY <2>1, <3>3
      <4>2. i - 1 = j - 1
        BY <2>2, <4>1
      <4>3. QED
        BY <4>2
    <3>4. QED
      BY <3>1, <3>2, <3>3
  <2>4. QED
    BY <1>4, <2>3 DEF Distinct
<1>8. QED
  BY <1>2, <1>4, <1>5, <1>6, <1>7 DEF NodesOf

(* Links that lead round the nodes of a list make it a ring.                  *)
LEMMA RoundOfNodes ==
  ASSUME NEW nx, NEW pv, NEW r \in Roots, NEW s \in Seq(Entries), Distinct(s),
         NEW w, NodesOf(w, r, s), LinkedRound(nx, pv, w)
  PROVE  Ring(nx, pv, r, s)
<1>1. PICK L \in Nat : L = Len(s)
  OBVIOUS
<1>2. Len(w) = L + 1 /\ \A i \in 0 .. L : w[i + 1] = Place(r, s, i)
  BY <1>1 DEF NodesOf
<1>3. ASSUME NEW i \in 0 .. L PROVE nx[Place(r, s, i)] = Place(r, s, After(s, i))
  <2>1. i + 1 \in 1 .. L + 1 /\ L + 1 \in Nat /\ L + 1 >= 1
    OBVIOUS
  <2>2. nx[w[i + 1]] = w[((i + 1) % (L + 1)) + 1]
    BY <1>2, <2>1 DEF LinkedRound
  <2>3. ((i + 1) % (L + 1)) = IF i + 1 = L + 1 THEN 0 ELSE i + 1
    BY <2>1, RoundTheRing
  <2>4. ((i + 1) % (L + 1)) = After(s, i) /\ After(s, i) \in 0 .. L
    BY <1>1, <2>3 DEF After
  <2>5. QED
    BY <1>2, <2>2, <2>4
<1>4. ASSUME NEW i \in 0 .. L PROVE pv[Place(r, s, After(s, i))] = Place(r, s, i)
  <2>1. PICK j \in 0 .. L : j = After(s, i)
    BY <1>1 DEF After
  <2>2. j + 1 \in 1 .. L + 1 /\ L + 1 \in Nat /\ L + 1 >= 1
    OBVIOUS
  <2>3. pv[w[j + 1]] = w[(((j + 1) + (L + 1) - 2) % (L + 1)) + 1]
    BY <1>2, <2>2 DEF LinkedRound
  <2>4. (((j + 1) + (L + 1) - 2) % (L + 1)) = IF j + 1 = 1 THEN (L + 1) - 1 ELSE (j + 1) - 2
    BY <2>2, RoundTheRing
  <2>5. (((j + 1) + (L + 1) - 2) % (L + 1)) = i
    <3>1. PICK m : m = (((j + 1) + (L + 1) - 2) % (L + 1))
      OBVIOUS
    <3>2. m = IF j = 0 THEN L ELSE j - 1
      BY <2>4, <3>1
    <3>3. m = i
      BY <1>1, <2>1, <3>2 DEF After
    <3>4. QED
      BY <3>1, <3>3
  <2>6. QED
    BY <1>2, <2>1, <2>3, <2>5
<1>5. QED
  BY <1>1, <1>3, <1>4 DEF Ring

(* The place of a node in a sequence without repetition.                      *)
LEMMA PlaceFound ==
  ASSUME NEW w, Distinct(w), NEW i \in 1 .. Len(w), DOMAIN w = 1 .. Len(w)
  PROVE  At(w, w[i]) = i
BY DEF Distinct, At

(* The links at the start: every thread alone, the rest round the nodes w.    *)
StartLinks(nx, pv, w) ==
  \A n \in Node : /\ nx[n] = IF n \in Threads THEN n ELSE Following(w, n)
                  /\ pv[n] = IF n \in Threads THEN n ELSE Preceding(w, n)

(* The lists at the start: the free one holds every entry.                    *)
LEMMA LayoutAtStart ==
  ASSUME NEW nx, NEW pv, NEW ch, NEW order \in SetToSeqs(Entries), NEW w, w = <<FreeRoot>> \o order,
         StartLinks(nx, pv, w),
         ch = [r \in Roots |-> IF r = FreeRoot THEN order ELSE <<>>]
  PROVE  Layout(nx, pv, ch, {})
<1>1. PICK N \in Nat : N = Cardinality(Entries)
  BY Bounds, FS_CardinalityType
<1>2. order \in [1 .. N -> Entries] /\ \A i, j \in 1 .. N : i # j => order[i] # order[j]
  BY <1>1 DEF SetToSeqs
<1>3. order \in Seq(Entries) /\ Len(order) = N
  BY <1>2
<1>4. Distinct(order)
  BY <1>2, <1>3 DEF Distinct
<1>5. \A e \in Entries : Has(order, e)
  <2>1. order \in Injection(1 .. N, Entries)
    BY <1>2 DEF Injection, IsInjective
  <2>2. Cardinality(1 .. N) = N
    <3>1. Cardinality(1 .. N) = IF 1 > N THEN 0 ELSE N - 1 + 1
      BY FS_Interval
    <3>2. QED
      BY <3>1
  <2>3. order \in Surjection(1 .. N, Entries)
    BY <1>1, <2>1, <2>2, Bounds, FS_Injection
  <2>4. QED
    BY <1>3, <2>3 DEF Surjection, Has
<1>6. FreeRoot \in Roots /\ FreeRoot \notin Threads /\ FreeRoot \notin Entries
      /\ Roots = Threads \cup {FreeRoot} /\ Threads \subseteq Node
  BY RootsDiffer DEF Roots
<1>70. NodesOf(w, FreeRoot, order)
  BY <1>3, <1>4, <1>6, NodesOfList, Zenon
<1>7. /\ w \in Seq(Node) /\ Len(w) = N + 1 /\ Distinct(w)
      /\ \A i \in 0 .. N : w[i + 1] = Place(FreeRoot, order, i)
  BY <1>3, <1>70 DEF NodesOf
<1>8. DOMAIN w = 1 .. Len(w) /\ Len(w) = N + 1
  BY <1>7
<1>9. ASSUME NEW i \in 1 .. Len(w)
      PROVE  /\ nx[w[i]] = w[(i % Len(w)) + 1]
             /\ pv[w[i]] = w[((i + Len(w) - 2) % Len(w)) + 1]
  <2>1. w[i] \in Node
    BY <1>7
  <2>2. w[i] \notin Threads
    <3>1. i - 1 \in 0 .. N /\ (i - 1) + 1 = i
      BY <1>8
    <3>2. w[i] = Place(FreeRoot, order, i - 1)
      BY <1>7, <3>1
    <3>3. i - 1 # 0 => order[i - 1] \in Entries
      BY <1>2, <3>1
    <3>4. QED
      BY <1>6, <3>2, <3>3, NodesDiffer DEF Place
  <2>3. At(w, w[i]) = i
    BY <1>7, <1>8, PlaceFound
  <2>4. nx[w[i]] = Following(w, w[i]) /\ pv[w[i]] = Preceding(w, w[i])
    BY <2>1, <2>2, Zenon DEF StartLinks
  <2>5. QED
    BY <2>3, <2>4, Zenon DEF Following, Preceding
<1>10. LinkedRound(nx, pv, w)
  BY <1>9 DEF LinkedRound
<1>11. Ring(nx, pv, FreeRoot, order)
  BY <1>3, <1>4, <1>6, <1>70, <1>10, RoundOfNodes, Zenon
<1>12. \A t \in Threads : Ring(nx, pv, t, <<>>)
  <2> TAKE t \in Threads
  <2>1. nx[t] = t /\ pv[t] = t
    BY <1>6 DEF StartLinks
  <2>2. PICK s : s = <<>>
    OBVIOUS
  <2>3. s \in Seq(Entries) /\ Len(s) = 0
    BY <2>2
  <2>4. 0 .. Len(s) = {0} /\ 1 .. Len(s) = {}
    BY <2>3
  <2>5. Place(t, s, 0) = t /\ After(s, 0) = 0
    BY <2>3 DEF Place, After
  <2>6. Ring(nx, pv, t, s)
    BY <2>1, <2>3, <2>4, <2>5 DEF Ring, Distinct
  <2>7. QED
    BY <2>2, <2>6
<1>13. ch[FreeRoot] = order /\ (\A t \in Threads : ch[t] = <<>>) /\ DOMAIN ch = Roots
  BY <1>6
<1>14. \A t \in Threads : \A e : ~Has(ch[t], e)
  BY <1>13 DEF Has
<1>15. \A r \in Roots : Ring(nx, pv, r, ch[r])
  BY <1>6, <1>11, <1>12, <1>13
<1>16. \A e \in Entries : \E r \in Roots : Has(ch[r], e)
  BY <1>5, <1>6, <1>13
<1>17. \A e \in Entries : \A r, q \in Roots : Has(ch[r], e) /\ Has(ch[q], e) => r = q
  BY <1>6, <1>14
<1>18. QED
  BY <1>13, <1>15, <1>16, <1>17 DEF Layout

(* A list, last entry first, put before another one.                          *)
IsJoined(s, c, f) ==
  /\ s \in Seq(Entries) /\ Distinct(s)
  /\ \A d : Has(s, d) <=> Has(c, d) \/ Has(f, d)

(* The entries of both, each once.                                            *)
LEMMA JoinedHas ==
  ASSUME NEW c \in Seq(Entries), NEW f \in Seq(Entries), Distinct(c), Distinct(f),
         \A d : ~(Has(c, d) /\ Has(f, d)), NEW s, s = Reverse(c) \o f
  PROVE  IsJoined(s, c, f)
<1>1. PICK L \in Nat : L = Len(c)
  OBVIOUS
<1>2. PICK M \in Nat : M = Len(f)
  OBVIOUS
<1>3. PICK v : v = Reverse(c)
  OBVIOUS
<1>4. v = [i \in 1 .. L |-> c[(L - i) + 1]]
  BY <1>1, <1>3 DEF Reverse
<1>5. \A i \in 1 .. L : (L - i) + 1 \in 1 .. L /\ c[i] \in Entries
  BY <1>1
<1>6. \A i \in 1 .. L : v[i] = c[(L - i) + 1] /\ v[i] \in Entries
  BY <1>4, <1>5
<1>7. v \in Seq(Entries) /\ Len(v) = L
  <2>1. v \in [1 .. L -> Entries]
    BY <1>4, <1>6
  <2>2. QED
    BY <1>4, <2>1
<1>8. /\ s \in Seq(Entries) /\ Len(s) = L + M
      /\ \A i \in 1 .. L + M : s[i] = IF i <= L THEN v[i] ELSE f[i - L]
  BY <1>2, <1>3, <1>7
<1>9. \A i \in 1 .. L : i \in 1 .. L + M /\ s[i] = c[(L - i) + 1]
  BY <1>6, <1>8
<1>10. \A i \in 1 .. M : i + L \in 1 .. L + M /\ s[i + L] = f[i]
  <2> TAKE i \in 1 .. M
  <2>1. i + L \in 1 .. L + M /\ ~(i + L <= L) /\ (i + L) - L = i
    OBVIOUS
  <2>2. s[i + L] = f[(i + L) - L]
    BY <1>8, <2>1, Zenon
  <2>3. QED
    BY <2>1, <2>2
<1>11. \A i \in 1 .. L + M : ~(i <= L) => i - L \in 1 .. M /\ s[i] = f[i - L]
  BY <1>8
<1>12. \A i, j \in 1 .. L : c[i] = c[j] => i = j
  BY <1>1 DEF Distinct
<1>13. \A i, j \in 1 .. M : f[i] = f[j] => i = j
  BY <1>2 DEF Distinct
<1>14. \A i \in 1 .. L, j \in 1 .. M : c[i] # f[j]
  BY <1>1, <1>2 DEF Has
<1>15. ASSUME NEW i \in 1 .. L + M, NEW j \in 1 .. L + M, s[i] = s[j] PROVE i = j
  <2>1. CASE i <= L /\ j <= L
    <3>1. i \in 1 .. L /\ j \in 1 .. L
      BY <2>1
    <3>2. (L - i) + 1 = (L - j) + 1
      BY <1>5, <1>9, <1>12, <1>15, <3>1
    <3>3. QED
      BY <3>1, <3>2
  <2>2. CASE i <= L /\ ~(j <= L)
    <3>1. i \in 1 .. L
      BY <2>2
    <3>2. s[i] = c[(L - i) + 1] /\ (L - i) + 1 \in 1 .. L
      BY <1>5, <1>9, <3>1
    <3>3. j - L \in 1 .. M /\ s[j] = f[j - L]
      BY <1>11, <2>2
    <3>4. s[i] # s[j]
      BY <1>14, <3>2, <3>3
    <3>5. QED
      BY <1>15, <3>4
  <2>3. CASE ~(i <= L) /\ j <= L
    <3>1. j \in 1 .. L
      BY <2>3
    <3>2. s[j] = c[(L - j) + 1] /\ (L - j) + 1 \in 1 .. L
      BY <1>5, <1>9, <3>1
    <3>3. i - L \in 1 .. M /\ s[i] = f[i - L]
      BY <1>11, <2>3
    <3>4. s[i] # s[j]
      BY <1>14, <3>2, <3>3
    <3>5. QED
      BY <1>15, <3>4
  <2>4. CASE ~(i <= L) /\ ~(j <= L)
    <3>1. i - L = j - L
      BY <1>11, <1>13, <1>15, <2>4
    <3>2. QED
      BY <3>1
  <2>5. QED
    BY <2>1, <2>2, <2>3, <2>4
<1>16. ASSUME NEW d PROVE Has(s, d) <=> Has(c, d) \/ Has(f, d)
  <2>1. ASSUME NEW i \in 1 .. L + M, s[i] = d PROVE Has(c, d) \/ Has(f, d)
    <3>1. CASE i <= L
      <4>1. i \in 1 .. L
        BY <3>1
      <4>2. QED
        BY <1>1, <1>5, <1>9, <2>1, <4>1 DEF Has
    <3>2. CASE ~(i <= L)
      BY <1>2, <1>11, <2>1, <3>2 DEF Has
    <3>3. QED
      BY <3>1, <3>2
  <2>2. ASSUME NEW i \in 1 .. L, c[i] = d PROVE Has(s, d)
    <3>1. (L - i) + 1 \in 1 .. L /\ (L - ((L - i) + 1)) + 1 = i
      OBVIOUS
    <3>2. (L - i) + 1 \in 1 .. L + M /\ s[(L - i) + 1] = c[(L - ((L - i) + 1)) + 1]
      BY <1>9, <3>1, Zenon
    <3>3. QED
      BY <1>8, <2>2, <3>1, <3>2 DEF Has
  <2>3. ASSUME NEW i \in 1 .. M, f[i] = d PROVE Has(s, d)
    BY <1>8, <1>10, <2>3 DEF Has
  <2>4. QED
    BY <1>1, <1>2, <1>8, <2>1, <2>2, <2>3 DEF Has
<1>17. Distinct(s)
  BY <1>8, <1>15 DEF Distinct
<1>18. QED
  BY <1>8, <1>16, <1>17 DEF IsJoined

(* Three sequences one after the other.                                       *)
LEMMA ThreeJoined ==
  ASSUME NEW x, NEW c \in Seq(Entries), NEW f \in Seq(Entries)
  PROVE  <<x>> \o Reverse(c) \o f = <<x>> \o (Reverse(c) \o f)
<1>1. PICK L \in Nat : L = Len(c)
  OBVIOUS
<1>2. PICK v : v = Reverse(c)
  OBVIOUS
<1>3. v = [i \in 1 .. L |-> c[(L - i) + 1]]
  BY <1>1, <1>2 DEF Reverse
<1>4. PICK S : S = Entries \cup {x}
  OBVIOUS
<1>5. v \in Seq(S)
  <2>1. \A i \in 1 .. L : c[(L - i) + 1] \in Entries
    BY <1>1
  <2>2. v \in [1 .. L -> S]
    BY <1>3, <1>4, <2>1
  <2>3. QED
    BY <2>2
<1>6. <<x>> \in Seq(S) /\ f \in Seq(S)
  BY <1>4
<1>7. (<<x>> \o v) \o f = <<x>> \o (v \o f)
  BY <1>5, <1>6, ConcatAssociative
<1>8. QED
  BY <1>2, <1>7

(* The links after the list of t was emptied into the nodes w.                *)
FreedLinks(nx, pv, nx2, pv2, t, w) ==
  \A n \in Node :
    /\ nx2[n] = IF n = t THEN t ELSE IF n \in Range(w) THEN Following(w, n) ELSE nx[n]
    /\ pv2[n] = IF n = t THEN t ELSE IF n \in Range(w) THEN Preceding(w, n) ELSE pv[n]

(* The nodes but those of w and t keep their links.                           *)
KeepsOthers(nx, pv, nx2, pv2, t, w) ==
  \A n \in Node : n # t /\ n \notin Range(w) => nx2[n] = nx[n] /\ pv2[n] = pv[n]

(* They lead round the nodes w, t is empty and the others keep theirs.        *)
LEMMA FreedRound ==
  ASSUME NEW nx, NEW pv, NEW nx2, NEW pv2, NEW t \in Node, NEW w \in Seq(Node), Distinct(w),
         t \notin Range(w), FreedLinks(nx, pv, nx2, pv2, t, w)
  PROVE  /\ nx2[t] = t /\ pv2[t] = t
         /\ LinkedRound(nx2, pv2, w)
         /\ KeepsOthers(nx, pv, nx2, pv2, t, w)
<1>1. nx2[t] = t /\ pv2[t] = t
  BY DEF FreedLinks
<1>2. ASSUME NEW i \in 1 .. Len(w)
      PROVE  /\ nx2[w[i]] = w[(i % Len(w)) + 1]
             /\ pv2[w[i]] = w[((i + Len(w) - 2) % Len(w)) + 1]
  <2>1. DOMAIN w = 1 .. Len(w)
    OBVIOUS
  <2>2. w[i] \in Node /\ w[i] \in Range(w) /\ w[i] # t
    BY <2>1 DEF Range
  <2>3. At(w, w[i]) = i
    BY <2>1, PlaceFound
  <2>4. nx2[w[i]] = Following(w, w[i]) /\ pv2[w[i]] = Preceding(w, w[i])
    BY <2>2, Zenon DEF FreedLinks
  <2>5. QED
    BY <2>3, <2>4, Zenon DEF Following, Preceding
<1>3. LinkedRound(nx2, pv2, w)
  BY <1>2 DEF LinkedRound
<1>4. KeepsOthers(nx, pv, nx2, pv2, t, w)
  BY DEF FreedLinks, KeepsOthers
<1>5. QED
  BY <1>1, <1>3, <1>4

(* The lists after it.                                                        *)
FreedChains(ch, ch2, t, s) ==
  /\ DOMAIN ch2 = Roots /\ ch2[t] = <<>> /\ ch2[FreeRoot] = s
  /\ \A r \in Roots : r # t /\ r # FreeRoot => ch2[r] = ch[r]

(* All the entries of a thread are freed, and go to the free list.            *)
LEMMA LayoutFreed ==
  ASSUME NEW nx, NEW pv, NEW nx2, NEW pv2, NEW ch, NEW ch2, Layout(nx, pv, ch, {}),
         NEW t \in Threads, NEW s, IsJoined(s, ch[t], ch[FreeRoot]),
         NEW w, NodesOf(w, FreeRoot, s), FreedLinks(nx, pv, nx2, pv2, t, w),
         FreedChains(ch, ch2, t, s)
  PROVE  Layout(nx2, pv2, ch2, {})
<1>1. PICK c : c = ch[t]
  OBVIOUS
<1>2. PICK f : f = ch[FreeRoot]
  OBVIOUS
<1>3. t \in Roots /\ FreeRoot \in Roots /\ t # FreeRoot /\ t \in Node
      /\ (\A r \in Roots : r \notin Entries) /\ Node = Entries \cup Roots
  BY RootsDiffer
<1>4. /\ Ring(nx, pv, t, c) /\ c \in Seq(Entries) /\ Distinct(c)
      /\ Ring(nx, pv, FreeRoot, f) /\ f \in Seq(Entries) /\ Distinct(f)
  BY <1>1, <1>2, <1>3, LayoutRing DEF Ring
<1>5. \A d \in Entries : \A p, q \in Roots : Has(ch[p], d) /\ Has(ch[q], d) => p = q
  BY DEF Layout
<1>6. \A u \in Seq(Entries) : \A d : Has(u, d) => d \in Entries
  BY DEF Has
<1>8. IsJoined(s, c, f)
  BY <1>1, <1>2
<1>9. /\ s \in Seq(Entries) /\ Distinct(s) /\ Len(s) \in Nat
      /\ \A d : Has(s, d) <=> Has(c, d) \/ Has(f, d)
  BY <1>8 DEF IsJoined
<1>11. w \in Seq(Node) /\ Len(w) = Len(s) + 1 /\ Distinct(w) /\ DOMAIN w = 1 .. Len(w)
       /\ \A i \in 0 .. Len(s) : w[i + 1] = Place(FreeRoot, s, i)
  BY DEF NodesOf
<1>12. \A n \in Range(w) : n = FreeRoot \/ Has(s, n)
  <2> TAKE n \in Range(w)
  <2>1. PICK i \in 1 .. Len(w) : w[i] = n
    BY <1>11 DEF Range
  <2>2. i - 1 \in 0 .. Len(s) /\ (i - 1) + 1 = i
    BY <1>9, <1>11
  <2>3. n = Place(FreeRoot, s, i - 1)
    BY <1>11, <2>1, <2>2
  <2>4. i - 1 # 0 => i - 1 \in 1 .. Len(s)
    BY <1>9, <2>2
  <2>5. QED
    BY <2>3, <2>4 DEF Place, Has
<1>13. t \notin Range(w)
  BY <1>3, <1>6, <1>9, <1>12
<1>14. /\ nx2[t] = t /\ pv2[t] = t
       /\ LinkedRound(nx2, pv2, w)
       /\ KeepsOthers(nx, pv, nx2, pv2, t, w)
  BY <1>3, <1>11, <1>13, FreedRound
<1>15. Ring(nx2, pv2, FreeRoot, s)
  BY <1>3, <1>9, <1>11, <1>14, RoundOfNodes
<1>16. Ring(nx2, pv2, t, <<>>)
  <2>1. nx2[t] = t /\ pv2[t] = t
    BY <1>14
  <2>2. PICK u : u = <<>>
    OBVIOUS
  <2>3. u \in Seq(Entries) /\ Len(u) = 0
    BY <2>2
  <2>4. 0 .. Len(u) = {0} /\ 1 .. Len(u) = {}
    BY <2>3
  <2>5. Place(t, u, 0) = t /\ After(u, 0) = 0
    BY <2>3 DEF Place, After
  <2>6. Ring(nx2, pv2, t, u)
    BY <2>1, <2>3, <2>4, <2>5 DEF Ring, Distinct
  <2>7. QED
    BY <2>2, <2>6
<1>17. ASSUME NEW r \in Roots, r # t, r # FreeRoot PROVE Ring(nx2, pv2, r, ch[r])
  <2>1. Ring(nx, pv, r, ch[r]) /\ ch[r] \in Seq(Entries) /\ Len(ch[r]) \in Nat
    BY LayoutRing
  <2>2. PlacesOf(r, ch[r])
    BY <2>1, PlacesDiffer
  <2>3. ASSUME NEW i \in 0 .. Len(ch[r])
        PROVE  /\ nx2[Place(r, ch[r], i)] = nx[Place(r, ch[r], i)]
               /\ pv2[Place(r, ch[r], i)] = pv[Place(r, ch[r], i)]
    <3>1. Place(r, ch[r], i) \in Node
      BY <2>2 DEF PlacesOf
    <3>2. Place(r, ch[r], i) = r \/ Has(ch[r], Place(r, ch[r], i))
      <4>1. i # 0 => i \in 1 .. Len(ch[r])
        BY <2>1
      <4>2. QED
        BY <4>1 DEF Place, Has
    <3>3. Place(r, ch[r], i) # t
      BY <1>3, <1>6, <1>17, <2>1, <3>2
    <3>4. Place(r, ch[r], i) # FreeRoot
      BY <1>3, <1>6, <1>17, <2>1, <3>2
    <3>5. ~Has(s, Place(r, ch[r], i))
      BY <1>1, <1>2, <1>3, <1>5, <1>6, <1>9, <1>17, <2>1, <3>2
    <3>6. Place(r, ch[r], i) \notin Range(w)
      BY <1>12, <3>4, <3>5
    <3>7. QED
      BY <1>14, <3>1, <3>3, <3>6 DEF KeepsOthers
  <2>4. SameBut(nx, pv, nx2, pv2, r, ch[r], {})
    BY <2>2, <2>3 DEF SameBut, PlacesOf
  <2>5. QED
    BY <2>1, <2>4, RingKept, Zenon
<1>18. DOMAIN ch2 = Roots /\ ch2[t] = <<>> /\ ch2[FreeRoot] = s
       /\ \A r \in Roots : r # t /\ r # FreeRoot => ch2[r] = ch[r]
  BY DEF FreedChains
<1>19. \A r \in Roots : Ring(nx2, pv2, r, ch2[r])
  BY <1>15, <1>16, <1>17, <1>18
<1>20. \A d : ~Has(ch2[t], d)
  <2>1. Len(ch2[t]) = 0
    BY <1>18
  <2>2. 1 .. Len(ch2[t]) = {}
    BY <2>1
  <2>3. QED
    BY <2>2 DEF Has
<1>21. \A d \in Entries : \E r \in Roots : Has(ch2[r], d)
  <2> TAKE d \in Entries
  <2>1. PICK r \in Roots : Has(ch[r], d)
    BY DEF Layout
  <2>2. CASE r = t \/ r = FreeRoot
    BY <1>1, <1>2, <1>3, <1>9, <1>18, <2>1, <2>2
  <2>3. CASE ~(r = t \/ r = FreeRoot)
    BY <1>18, <2>1, <2>3
  <2>4. QED
    BY <2>2, <2>3
<1>22. \A d \in Entries : \A p, q \in Roots : Has(ch2[p], d) /\ Has(ch2[q], d) => p = q
  <2> TAKE d \in Entries
  <2> TAKE p, q \in Roots
  <2> HAVE Has(ch2[p], d) /\ Has(ch2[q], d)
  <2>1. p # t /\ q # t
    BY <1>20
  <2>2. p # FreeRoot => Has(ch[p], d)
    BY <1>18, <2>1
  <2>3. q # FreeRoot => Has(ch[q], d)
    BY <1>18, <2>1
  <2>4. p = FreeRoot => Has(ch[t], d) \/ Has(ch[FreeRoot], d)
    BY <1>1, <1>2, <1>9, <1>18
  <2>5. q = FreeRoot => Has(ch[t], d) \/ Has(ch[FreeRoot], d)
    BY <1>1, <1>2, <1>9, <1>18
  <2>6. QED
    BY <1>3, <1>5, <2>1, <2>2, <2>3, <2>4, <2>5
<1>23. Layout(nx2, pv2, ch2, {})
  BY <1>18, <1>19, <1>21, <1>22 DEF Layout
<1>24. QED
  BY <1>23

------------------------------------------------------------------------------
(* Passes.                                                                    *)

(* The place of an entry in a list, found by searching for it.                *)
LEMMA PlaceSelected ==
  ASSUME NEW c \in Seq(Entries), Distinct(c), NEW k \in 1 .. Len(c), NEW p, c[k] = p
  PROVE  PlaceIn(c, p) = k
<1>1. PICK I : I = {i \in 1 .. Len(c) : c[i] = p}
  OBVIOUS
<1>2. I = {k}
  BY <1>1 DEF Distinct
<1>3. Min(I) = k
  <2>1. Min(I) = CHOOSE x \in I : \A y \in I : x <= y
    BY DEF Min
  <2>2. QED
    BY <1>2, <2>1
<1>4. PlaceIn(c, p) = IF I # {} THEN Min(I) ELSE 0
  BY <1>1, Zenon DEF PlaceIn, SelectInSeq
<1>5. QED
  BY <1>2, <1>3, <1>4

(* A pass begins with the first entry.                                        *)
LEMMA PassBegins ==
  ASSUME NEW c \in Seq(Entries), Len(c) # 0, NEW w, w = <<>>, NEW l, \A e \in l : Has(c, e)
  PROVE  InPass(c, c[1], Append(w, c[1]), l)
<1>1. PICK v : v = Append(w, c[1])
  OBVIOUS
<1>2. 1 \in 1 .. Len(c) /\ c[1] \in Entries /\ 1 .. 1 = {1}
  OBVIOUS
<1>3. v \in Seq(Entries) /\ Len(v) = 1 /\ v[1] = c[1]
  BY <1>1, <1>2
<1>4. Distinct(v)
  BY <1>3 DEF Distinct
<1>5. \A i \in 1 .. Len(v) : \E j \in 1 .. 1 : c[j] = v[i]
  BY <1>2, <1>3
<1>6. \A e \in l : Has(v, e) \/ \E j \in 1 + 1 .. Len(c) : c[j] = e
  <2> TAKE e \in l
  <2>1. PICK j \in 1 .. Len(c) : c[j] = e
    BY DEF Has
  <2>2. CASE j = 1
    <3>1. 1 \in 1 .. Len(v) /\ v[1] = e
      BY <1>3, <2>1, <2>2
    <3>2. QED
      BY <3>1 DEF Has
  <2>3. CASE j # 1
    <3>1. j \in 1 + 1 .. Len(c)
      BY <2>3
    <3>2. QED
      BY <2>1, <3>1
  <2>4. QED
    BY <2>2, <2>3
<1>7. InPass(c, c[1], v, l)
  BY <1>2, <1>3, <1>4, <1>5, <1>6 DEF InPass
<1>8. QED
  BY <1>1, <1>7

(* Where a pass stands.                                                       *)
StandsAt(c, p, w, l, k) ==
  /\ c[k] = p
  /\ w \in Seq(Entries)
  /\ Distinct(w)
  /\ \A i \in 1 .. Len(w) : \E j \in 1 .. k : c[j] = w[i]
  /\ \A e \in l : Has(w, e) \/ \E j \in k + 1 .. Len(c) : c[j] = e

(* A pass stands at one of the places.                                        *)
LEMMA PassStands ==
  ASSUME NEW c, NEW p, NEW w, NEW l
  PROVE  InPass(c, p, w, l) <=> \E k \in 1 .. Len(c) : StandsAt(c, p, w, l, k)
BY DEF InPass, StandsAt

(* A pass goes on to the next entry.                                          *)
LEMMA PassAdvances ==
  ASSUME NEW c \in Seq(Entries), Distinct(c), NEW p, NEW w, NEW l,
         NEW k \in 1 .. Len(c), StandsAt(c, p, w, l, k), k # Len(c)
  PROVE  InPass(c, c[k + 1], Append(w, c[k + 1]), l)
<1>1. PICK m \in 1 .. Len(c) : m = k + 1
  OBVIOUS
<1>2. PICK v : v = Append(w, c[m])
  OBVIOUS
<1>3. w \in Seq(Entries) /\ c[m] \in Entries
  BY DEF StandsAt
<1>4. PICK N \in Nat : N = Len(w)
  BY <1>3
<1>5. v \in Seq(Entries) /\ Len(v) = N + 1 /\ v[N + 1] = c[m] /\ \A i \in 1 .. N : v[i] = w[i]
  BY <1>2, <1>3, <1>4
<1>6. \A i \in 1 .. N : \E j \in 1 .. k : c[j] = w[i]
  BY <1>4 DEF StandsAt
<1>7. \A i \in 1 .. N : w[i] # c[m]
  <2> TAKE i \in 1 .. N
  <2>1. PICK j \in 1 .. k : c[j] = w[i]
    BY <1>6
  <2>2. j \in 1 .. Len(c) /\ j # m
    BY <1>1
  <2>3. QED
    BY <2>1, <2>2 DEF Distinct
<1>8. \A i, j \in 1 .. N : w[i] = w[j] => i = j
  BY <1>4 DEF StandsAt, Distinct
<1>9. \A i \in 1 .. N + 1 : i # N + 1 => i \in 1 .. N
  OBVIOUS
<1>10. Distinct(v)
  <2>1. \A i, j \in 1 .. N + 1 : v[i] = v[j] => i = j
    BY <1>5, <1>7, <1>8, <1>9
  <2>2. QED
    BY <1>5, <2>1 DEF Distinct
<1>11. \A i \in 1 .. Len(v) : \E j \in 1 .. m : c[j] = v[i]
  <2> TAKE i \in 1 .. Len(v)
  <2>1. CASE i = N + 1
    <3>1. m \in 1 .. m
      OBVIOUS
    <3>2. QED
      BY <1>5, <2>1, <3>1
  <2>2. CASE i # N + 1
    <3>1. i \in 1 .. N
      BY <1>5, <2>2
    <3>2. PICK j \in 1 .. k : c[j] = w[i]
      BY <1>6, <3>1
    <3>3. j \in 1 .. m
      BY <1>1
    <3>4. QED
      BY <1>5, <3>1, <3>2, <3>3
  <2>3. QED
    BY <2>1, <2>2
<1>12. \A e \in l : Has(v, e) \/ \E j \in m + 1 .. Len(c) : c[j] = e
  <2> TAKE e \in l
  <2>1. CASE Has(w, e)
    <3>1. PICK i \in 1 .. N : w[i] = e
      BY <1>4, <2>1 DEF Has
    <3>2. i \in 1 .. Len(v) /\ v[i] = e
      BY <1>5, <3>1
    <3>3. QED
      BY <3>2 DEF Has
  <2>2. CASE \E j \in k + 1 .. Len(c) : c[j] = e
    <3>1. PICK j \in k + 1 .. Len(c) : c[j] = e
      BY <2>2
    <3>2. CASE j = m
      <4>1. N + 1 \in 1 .. Len(v) /\ v[N + 1] = e
        BY <1>5, <3>1, <3>2
      <4>2. QED
        BY <4>1 DEF Has
    <3>3. CASE j # m
      <4>1. j \in m + 1 .. Len(c)
        BY <1>1, <3>3
      <4>2. QED
        BY <3>1, <4>1
    <3>4. QED
      BY <3>2, <3>3
  <2>3. QED
    BY <2>1, <2>2 DEF StandsAt
<1>13. InPass(c, c[m], v, l)
  BY <1>5, <1>10, <1>11, <1>12 DEF InPass
<1>14. QED
  BY <1>1, <1>2, <1>13

(* Entries that were unlinked need not be called.                             *)
LEMMA PassWithLess ==
  ASSUME NEW c, NEW p, NEW w, NEW l, NEW m, InPass(c, p, w, l), m \subseteq l
  PROVE  InPass(c, p, w, m)
<1>1. PICK k \in 1 .. Len(c) : StandsAt(c, p, w, l, k)
  BY PassStands
<1>2. StandsAt(c, p, w, m, k)
  BY <1>1 DEF StandsAt
<1>3. QED
  BY <1>2, PassStands

(* A pass does not mind what is added to its list.                            *)
LEMMA PassInserted ==
  ASSUME NEW c \in Seq(Entries), NEW p, NEW w, NEW l, InPass(c, p, w, l),
         NEW e \in Entries, NEW x \in 1 .. Len(c) + 1, NEW u, IsInserted(u, c, x, e)
  PROVE  InPass(u, p, w, l)
<1>1. PICK k \in 1 .. Len(c) : StandsAt(c, p, w, l, k)
  BY PassStands
<1>2. PICK N \in Nat : N = Len(c)
  OBVIOUS
<1>3. /\ Len(u) = N + 1 /\ x \in 1 .. N + 1 /\ k \in 1 .. N
      /\ \A i \in 1 .. N + 1 : u[i] = IF i < x THEN c[i] ELSE IF i = x THEN e ELSE c[i - 1]
  BY <1>2 DEF IsInserted
<1> DEFINE To(i) == IF i < x THEN i ELSE i + 1
<1>4. \A i \in 1 .. N : To(i) \in 1 .. N + 1 /\ u[To(i)] = c[i]
  <2> TAKE i \in 1 .. N
  <2>1. CASE i < x
    BY <1>3, <2>1
  <2>2. CASE ~(i < x)
    <3>1. i + 1 \in 1 .. N + 1 /\ ~(i + 1 < x) /\ i + 1 # x /\ (i + 1) - 1 = i
      BY <1>3, <2>2
    <3>2. u[i + 1] = c[(i + 1) - 1]
      BY <1>3, <3>1, Zenon
    <3>3. QED
      BY <2>2, <3>1, <3>2
  <2>3. QED
    BY <2>1, <2>2
<1>5. \A i, j \in 1 .. N : i <= j => To(i) <= To(j)
  BY <1>3
<1>6. \A i, j \in 1 .. N : i >= j + 1 => To(i) >= To(j) + 1
  BY <1>3
<1> HIDE DEF To
<1>7. PICK y \in 1 .. N + 1 : y = To(k) /\ u[y] = p
  BY <1>1, <1>3, <1>4 DEF StandsAt
<1>8. \A i \in 1 .. Len(w) : \E j \in 1 .. y : u[j] = w[i]
  <2> TAKE i \in 1 .. Len(w)
  <2>1. PICK j \in 1 .. k : c[j] = w[i]
    BY <1>1 DEF StandsAt
  <2>2. j \in 1 .. N /\ j <= k
    BY <1>3
  <2>3. To(j) \in 1 .. y /\ u[To(j)] = w[i]
    BY <1>3, <1>4, <1>5, <1>7, <2>1, <2>2
  <2>4. QED
    BY <2>3
<1>9. \A d \in l : Has(w, d) \/ \E j \in y + 1 .. Len(u) : u[j] = d
  <2> TAKE d \in l
  <2>1. CASE \E j \in k + 1 .. Len(c) : c[j] = d
    <3>1. PICK j \in k + 1 .. Len(c) : c[j] = d
      BY <2>1
    <3>2. j \in 1 .. N /\ j >= k + 1
      BY <1>2, <1>3
    <3>3. To(j) \in y + 1 .. Len(u) /\ u[To(j)] = d
      BY <1>3, <1>4, <1>6, <1>7, <3>1, <3>2
    <3>4. QED
      BY <3>3
  <2>2. CASE Has(w, d)
    BY <2>2
  <2>3. QED
    BY <1>1, <2>1, <2>2 DEF StandsAt
<1>10. w \in Seq(Entries) /\ Distinct(w)
  BY <1>1 DEF StandsAt
<1>11. y \in 1 .. Len(u)
  BY <1>3, <1>7
<1>12. QED
  BY <1>7, <1>8, <1>9, <1>10, <1>11 DEF InPass

(* The entries after place k of a list.                                       *)
IsRest(v, c, k) ==
  /\ v \in Seq(Entries) /\ Len(v) = Len(c) - k
  /\ \A i \in 1 .. Len(c) - k : v[i] = c[k + i]

(* They are what is left of it from there.                                    *)
LEMMA RestOfList ==
  ASSUME NEW c \in Seq(Entries), NEW k \in 1 .. Len(c)
  PROVE  IsRest(SubSeq(c, k + 1, Len(c)), c, k)
<1>1. PICK v : v = SubSeq(c, k + 1, Len(c))
  OBVIOUS
<1>2. v \in Seq(Entries) /\ Len(v) = Len(c) - k
  BY <1>1
<1>3. \A i \in 1 .. Len(c) - k : v[i] = c[k + i]
  BY <1>1
<1>4. QED
  BY <1>1, <1>2, <1>3 DEF IsRest

(* What such a pass has called and has still before it: each entry once, and  *)
(* all that must be called.                                                   *)
LEMMA PassCallsAll ==
  ASSUME NEW c \in Seq(Entries), Distinct(c), NEW p, NEW w, NEW l,
         NEW k \in 1 .. Len(c), StandsAt(c, p, w, l, k),
         NEW v, IsRest(v, c, k)
  PROVE  IsInjective(w \o v) /\ l \subseteq Range(w \o v)
<1>3. PICK L \in Nat : L = Len(c) /\ k \in 1 .. L
  OBVIOUS
<1>4. PICK N \in Nat : N = Len(w) /\ w \in Seq(Entries)
  BY DEF StandsAt
<1>6. v \in Seq(Entries) /\ Len(v) = L - k /\ \A i \in 1 .. L - k : v[i] = c[k + i]
  BY <1>3 DEF IsRest
<1>7. PICK M \in Nat : M = Len(v) /\ M = L - k
  <2>1. Len(v) \in Nat
    BY <1>6
  <2>2. QED
    BY <1>6, <2>1
<1>70. PICK all : all = w \o v
  OBVIOUS
<1>8. /\ all \in Seq(Entries) /\ Len(all) = N + M
      /\ \A i \in 1 .. N + M : all[i] = IF i <= N THEN w[i] ELSE v[i - N]
  <2>1. PICK n \in Nat, m \in Nat : n = N /\ m = M
    OBVIOUS
  <2>2. w \in Seq(Entries) /\ v \in Seq(Entries) /\ Len(w) = n /\ Len(v) = m
    BY <1>4, <1>6, <1>7, <2>1
  <2>3. all \in Seq(Entries) /\ Len(all) = Len(w) + Len(v)
        /\ \A i \in 1 .. Len(w) + Len(v) : all[i] = IF i <= Len(w) THEN w[i] ELSE v[i - Len(w)]
    BY <1>70, <2>2, ConcatProperties, Zenon
  <2>4. QED
    BY <2>1, <2>2, <2>3
<1>9. \A i \in 1 .. N + M : i <= N => i \in 1 .. N /\ all[i] = w[i]
  BY <1>4, <1>7, <1>8
<1>10. \A i \in 1 .. N + M : ~(i <= N) => i - N \in 1 .. M /\ all[i] = v[i - N]
  BY <1>8
<1>11. \A i \in 1 .. M : k + i \in 1 .. L /\ v[i] = c[k + i]
  BY <1>3, <1>6, <1>7
<1>12. \A i, j \in 1 .. L : c[i] = c[j] => i = j
  BY <1>3 DEF Distinct
<1>13. \A i \in 1 .. N, j \in 1 .. M : w[i] # v[j]
  <2> TAKE i \in 1 .. N, j \in 1 .. M
  <2>1. PICK x \in 1 .. k : c[x] = w[i]
    BY <1>4 DEF StandsAt
  <2>2. x \in 1 .. L /\ x # k + j
    BY <1>3
  <2>3. QED
    BY <1>11, <1>12, <2>1, <2>2
<1>14. \A i, j \in 1 .. M : v[i] = v[j] => i = j
  <2> TAKE i, j \in 1 .. M
  <2> HAVE v[i] = v[j]
  <2>1. k + i = k + j
    BY <1>11, <1>12
  <2>2. QED
    BY <1>3, <2>1
<1>15. \A i, j \in 1 .. N : w[i] = w[j] => i = j
  BY <1>4 DEF StandsAt, Distinct
<1>16. ASSUME NEW i \in 1 .. N + M, NEW j \in 1 .. N + M, all[i] = all[j] PROVE i = j
  <2>1. CASE i <= N /\ j <= N
    BY <1>9, <1>15, <1>16, <2>1
  <2>2. CASE i <= N /\ ~(j <= N)
    BY <1>9, <1>10, <1>13, <1>16, <2>2
  <2>3. CASE ~(i <= N) /\ j <= N
    <3>1. j \in 1 .. N /\ i - N \in 1 .. M /\ w[j] = v[i - N]
      BY <1>9, <1>10, <1>16, <2>3
    <3>2. QED
      BY <1>13, <3>1
  <2>4. CASE ~(i <= N) /\ ~(j <= N)
    <3>1. i - N = j - N
      BY <1>10, <1>14, <1>16, <2>4
    <3>2. QED
      BY <3>1
  <2>5. QED
    BY <2>1, <2>2, <2>3, <2>4
<1>17. DOMAIN all = 1 .. N + M
  BY <1>8
<1>18. IsInjective(all)
  BY <1>16, <1>17 DEF IsInjective
<1>19. \A d \in l : d \in Range(all)
  <2> TAKE d \in l
  <2>1. CASE Has(w, d)
    <3>1. PICK i \in 1 .. N : w[i] = d
      BY <1>4, <2>1 DEF Has
    <3>2. i \in 1 .. N + M /\ i <= N
      BY <1>4, <1>7
    <3>20. all[i] = d
      BY <1>9, <3>1, <3>2
    <3>3. QED
      BY <1>17, <3>2, <3>20 DEF Range
  <2>2. CASE \E j \in k + 1 .. Len(c) : c[j] = d
    <3>1. PICK j \in k + 1 .. L : c[j] = d
      BY <1>3, <2>2
    <3>2. PICK i \in 1 .. M : j = k + i
      <4>1. j - k \in 1 .. M /\ j = k + (j - k)
        BY <1>3, <1>7
      <4>2. QED
        BY <4>1
    <3>3. i + N \in 1 .. N + M /\ ~(i + N <= N) /\ (i + N) - N = i
      OBVIOUS
    <3>4. all[i + N] = v[(i + N) - N]
      BY <1>8, <3>3, Zenon
    <3>5. all[i + N] = d
      BY <1>11, <3>1, <3>2, <3>3, <3>4
    <3>6. QED
      BY <1>17, <3>3, <3>5 DEF Range
  <2>3. QED
    BY <2>1, <2>2 DEF StandsAt
<1>20. QED
  BY <1>18, <1>19, <1>70

------------------------------------------------------------------------------
(* What the invariant says in the words of the steps.                         *)

(* The chains, and the entries in hand.                                       *)
ChainsAre(hand) ==
  /\ \A r \in Roots : /\ Chain(r) \in Seq(Entries) /\ Len(Chain(r)) \in Nat
                      /\ Distinct(Chain(r)) /\ Ring(next, prev, r, Chain(r))
                      /\ Chains[r] = Chain(r)
  /\ \A r \in Roots : \A d : Has(Chain(r), d) => d \in Entries
  /\ \A e \in Entries : \A q, r \in Roots : Has(Chain(q), e) /\ Has(Chain(r), e) => q = r
  /\ \A e \in Entries : e \in hand \/ \E r \in Roots : Has(Chain(r), e)
  /\ \A e \in hand, r \in Roots : ~Has(Chain(r), e)

(* They are those of the layout.                                              *)
LEMMA LayoutFacts ==
  ASSUME NEW hand, Layout(next, prev, Chains, hand)
  PROVE  ChainsAre(hand)
<1>1. \A r \in Roots : Chains[r] = Chain(r)
  BY Zenon DEF Chains
<1>2. \A r \in Roots : Ring(next, prev, r, Chains[r])
  BY DEF Layout
<1>3. \A r \in Roots : Ring(next, prev, r, Chain(r))
  BY <1>1, <1>2, Zenon
<1>4. ASSUME NEW r \in Roots
      PROVE  Chain(r) \in Seq(Entries) /\ Len(Chain(r)) \in Nat /\ Distinct(Chain(r))
  <2>1. PICK c : c = Chain(r)
    OBVIOUS
  <2>2. Ring(next, prev, r, c)
    BY <1>3, <2>1, Zenon
  <2>3. c \in Seq(Entries) /\ Distinct(c) /\ Len(c) \in Nat
    BY <2>2 DEF Ring
  <2>4. QED
    BY <2>1, <2>3, Zenon
<1>5. ASSUME NEW r \in Roots, NEW d, Has(Chain(r), d) PROVE d \in Entries
  <2>1. PICK c : c = Chain(r)
    OBVIOUS
  <2>2. c \in Seq(Entries) /\ Has(c, d)
    BY <1>4, <1>5, <2>1, Zenon
  <2>3. QED
    BY <2>2 DEF Has
<1>6. \A e \in Entries : \A q, r \in Roots : Has(Chain(q), e) /\ Has(Chain(r), e) => q = r
  <2>1. \A e \in Entries : \A q, r \in Roots : Has(Chains[q], e) /\ Has(Chains[r], e) => q = r
    BY DEF Layout
  <2>2. QED
    BY <1>1, <2>1, Zenon
<1>7. \A e \in Entries : e \in hand \/ \E r \in Roots : Has(Chain(r), e)
  <2>1. \A e \in Entries : e \in hand \/ \E r \in Roots : Has(Chains[r], e)
    BY DEF Layout
  <2>2. QED
    BY <1>1, <2>1, Zenon
<1>8. \A e \in hand, r \in Roots : ~Has(Chain(r), e)
  <2>1. \A e \in hand, r \in Roots : ~Has(Chains[r], e)
    BY DEF Layout
  <2>2. QED
    BY <1>1, <2>1, Zenon
<1>9. QED
  BY <1>1, <1>3, <1>4, <1>5, <1>6, <1>7, <1>8, Zenon DEF ChainsAre

(* The chains after a step that moved an entry.                               *)
LEMMA NewLists ==
  ASSUME NEW ch2, NEW hand, Layout(next', prev', ch2, hand), NEW D, ch2 = [r \in Roots |-> D[r]]
  PROVE  (\A r \in Roots : Chain(r)' = ch2[r]) /\ Layout(next', prev', Chains', hand)
<1>1. PICK nx, pv : nx = next' /\ pv = prev'
  OBVIOUS
<1>2. \A r \in Roots : ChainOf(nx, r) = ch2[r]
  BY <1>1, LayoutChains
<1>3. \A r \in Roots : Chain(r)' = ch2[r]
  BY <1>1, <1>2, Zenon DEF Chain
<1>4. Chains' = [r \in Roots |-> Chain(r)']
  BY Zenon DEF Chains
<1>5. \A r \in Roots : ch2[r] = D[r]
  OBVIOUS
<1>6. Chains' = [r \in Roots |-> D[r]]
  BY <1>3, <1>4, <1>5, Zenon
<1>7. QED
  BY <1>3, <1>6, Zenon

(* A step that keeps the links keeps the chains.                              *)
LEMMA SameLists ==
  ASSUME UNCHANGED <<next, prev>>
  PROVE  (\A r : Chain(r)' = Chain(r)) /\ Chains' = Chains
         /\ \A hand : Layout(next, prev, Chains, hand) => Layout(next', prev', Chains', hand)
<1>1. \A r : Chain(r)' = Chain(r)
  BY Zenon DEF Chain
<1>2. Chains' = Chains
  BY <1>1, Zenon DEF Chains
<1>3. QED
  BY <1>1, <1>2, Zenon

(* The entries of a thread.                                                   *)
LEMMA LinkedHas ==
  ASSUME NEW t, Chain(t) \in Seq(Entries)
  PROVE  \A e : e \in Linked(t) <=> Has(Chain(t), e)
<1>1. PICK c : c = Chain(t)
  OBVIOUS
<1>2. Linked(t) = Range(c)
  BY <1>1, Zenon DEF Linked
<1>3. c \in Seq(Entries) /\ DOMAIN c = 1 .. Len(c)
  BY <1>1
<1>4. \A e : e \in Range(c) <=> Has(c, e)
  BY <1>3 DEF Range, Has
<1>5. QED
  BY <1>1, <1>2, <1>4, Zenon

(* The first place of a sequence whose element passes a test.                 *)
LEMMA FirstPlace ==
  ASSUME NEW c, Len(c) \in Nat, NEW P, NEW j \in 1 .. Len(c), j \in P,
         NEW i, i = LET I == {x \in 1 .. Len(c) : x \in P} IN IF I # {} THEN Min(I) ELSE 0
  PROVE  i \in 1 .. Len(c) /\ i \in P
<1>1. PICK I : I = {x \in 1 .. Len(c) : x \in P}
  OBVIOUS
<1>2. j \in I /\ I \subseteq Nat
  BY <1>1
<1>3. i = Min(I)
  <2>1. I # {}
    BY <1>2
  <2>2. i = IF I # {} THEN Min(I) ELSE 0
    BY <1>1, Zenon
  <2>3. QED
    BY <2>1, <2>2
<1>4. \E x \in I : \A y \in I : x <= y
  BY <1>2, HasLeast
<1>5. Min(I) = CHOOSE x \in I : \A y \in I : x <= y
  BY DEF Min
<1>6. Min(I) \in I
  BY <1>4, <1>5
<1>7. QED
  BY <1>1, <1>3, <1>6

(* hal_del_funct_from_thread and hal_exit find an entry of the list.          *)
LEMMA FirstUseFound ==
  ASSUME NEW f, NEW t, Chain(t) \in Seq(Entries), Uses(f, t)
  PROVE  \E k \in 1 .. Len(Chain(t)) : FirstUse(f, t) = Chain(t)[k]
<1>1. PICK c : c = Chain(t)
  OBVIOUS
<1>2. PICK e : Has(c, e) /\ funct[e] = f
  <2>1. PICK d \in Linked(t) : funct[d] = f
    BY DEF Uses
  <2>2. Has(Chain(t), d)
    BY <2>1, LinkedHas
  <2>3. QED
    BY <1>1, <2>1, <2>2
<1>3. PICK j \in 1 .. Len(c) : funct[c[j]] = f
  BY <1>2 DEF Has
<1>4. PICK P : P = {x \in 1 .. Len(c) : funct[c[x]] = f}
  OBVIOUS
<1>5. PICK i : i = SelectInSeq(c, LAMBDA d : funct[d] = f)
  OBVIOUS
<1>6. i = LET I == {x \in 1 .. Len(c) : funct[c[x]] = f} IN IF I # {} THEN Min(I) ELSE 0
  BY <1>5, Zenon DEF SelectInSeq
<1>7. {x \in 1 .. Len(c) : x \in P} = P
  BY <1>4
<1>8. i = LET I == {x \in 1 .. Len(c) : x \in P} IN IF I # {} THEN Min(I) ELSE 0
  BY <1>4, <1>6, <1>7, Zenon
<1>9. c \in Seq(Entries) /\ Len(c) \in Nat /\ j \in P
  BY <1>1, <1>3, <1>4
<1>10. i \in 1 .. Len(c)
  BY <1>8, <1>9, FirstPlace
<1>11. FirstUse(f, t) = c[i]
  BY <1>1, <1>5, Zenon DEF FirstUse
<1>12. QED
  BY <1>1, <1>10, <1>11

(* The same for the threads.                                                  *)
LEMMA FirstThreadFound ==
  ASSUME NEW f, thread_list \in Seq(Threads), NEW t \in Threads, Contains(thread_list, t), Uses(f, t)
  PROVE  FirstUser(f) \in Threads /\ Uses(f, FirstUser(f))
<1>1. PICK c : c = thread_list
  OBVIOUS
<1>2. PICK j \in 1 .. Len(c) : c[j] = t
  BY <1>1 DEF Contains
<1>3. PICK P : P = {x \in 1 .. Len(c) : Uses(f, c[x])}
  OBVIOUS
<1>4. PICK i : i = SelectInSeq(c, LAMBDA x : Uses(f, x))
  OBVIOUS
<1>5. i = LET I == {x \in 1 .. Len(c) : Uses(f, c[x])} IN IF I # {} THEN Min(I) ELSE 0
  BY <1>4, Zenon DEF SelectInSeq
<1>6. {x \in 1 .. Len(c) : x \in P} = P
  BY <1>3
<1>7. i = LET I == {x \in 1 .. Len(c) : x \in P} IN IF I # {} THEN Min(I) ELSE 0
  BY <1>3, <1>5, <1>6, Zenon
<1>8. j \in P
  BY <1>2, <1>3
<1>9. c \in Seq(Threads) /\ Len(c) \in Nat
  BY <1>1
<1>10. i \in 1 .. Len(c) /\ i \in P
  BY <1>7, <1>8, <1>9, FirstPlace
<1>11. c[i] \in Threads /\ Uses(f, c[i])
  BY <1>3, <1>9, <1>10
<1>12. FirstUser(f) = c[i]
  BY <1>1, <1>4, Zenon DEF FirstUser
<1>13. QED
  BY <1>11, <1>12, Zenon

------------------------------------------------------------------------------
(* Counting the entries that call a function.                                 *)

(* A set of entries can be counted.                                           *)
LEMMA CallsCounted ==
  ASSUME NEW fn, NEW f, NEW but
  PROVE  IsFiniteSet(Calls(fn, f, but)) /\ Cardinality(Calls(fn, f, but)) \in Nat
         /\ (Cardinality(Calls(fn, f, but)) = 0 <=> Calls(fn, f, but) = {})
<1>1. PICK S : S = Calls(fn, f, but)
  OBVIOUS
<1>2. S \in SUBSET Entries
  BY <1>1 DEF Calls
<1>3. IsFiniteSet(Entries)
  BY Bounds
<1>4. IsFiniteSet(S)
  BY <1>2, <1>3, FS_Subset
<1>5. Cardinality(S) \in Nat /\ (Cardinality(S) = 0 <=> S = {})
  BY <1>4, FS_CardinalityType, FS_EmptySet
<1>6. QED
  BY <1>1, <1>4, <1>5

(* One more entry calls f, and none more any other function.                  *)
LEMMA OneMoreCall ==
  ASSUME NEW fn, NEW e \in Entries, NEW f
  PROVE  /\ fn[e] = f => Cardinality(Calls(fn, f, {})) = Cardinality(Calls(fn, f, {e})) + 1
         /\ fn[e] # f => Calls(fn, f, {}) = Calls(fn, f, {e})
<1>1. PICK S, T : S = Calls(fn, f, {e}) /\ T = Calls(fn, f, {})
  OBVIOUS
<1>2. fn[e] # f => S = T
  BY <1>1 DEF Calls
<1>3. fn[e] = f => T = S \cup {e} /\ e \notin S
  BY <1>1 DEF Calls
<1>4. IsFiniteSet(S)
  BY <1>1, CallsCounted
<1>5. fn[e] = f => Cardinality(T) = Cardinality(S) + 1
  BY <1>3, <1>4, FS_AddElement
<1>6. QED
  BY <1>1, <1>2, <1>5

------------------------------------------------------------------------------
(* The calls that leave the lists alone.                                      *)

(* No call, no entry in hand.                                                 *)
LEMMA HandEmpty ==
  ASSUME client.op # "add", client.op \in {"del", "exit"} => client.stage # "detached"
  PROVE  Pending = {} /\ Freeing = {} /\ Pending \cup Freeing = {}
BY DEF Pending, Freeing

(* The same, after a step.                                                    *)
LEMMA HandEmptied ==
  ASSUME client'.op # "add", client'.op \in {"del", "exit"} => client'.stage # "detached"
  PROVE  Pending' = {} /\ Freeing' = {} /\ (Pending \cup Freeing)' = {}
BY DEF Pending, Freeing

(* The lists, if the entries in hand are the same.                            *)
LEMMA ListsKept ==
  ASSUME ListsSound, UNCHANGED <<next, prev>>, (Pending \cup Freeing)' = Pending \cup Freeing
  PROVE  ListsSound'
<1>1. PICK h : h = Pending \cup Freeing
  OBVIOUS
<1>2. Layout(next, prev, Chains, h)
  BY <1>1, Zenon DEF ListsSound
<1>3. Layout(next', prev', Chains', h)
  BY <1>2, SameLists, Zenon
<1>4. (Pending \cup Freeing)' = h
  BY <1>1, Zenon
<1>5. QED
  BY <1>3, <1>4, Zenon DEF ListsSound

(* The functions, if none goes and no count changes.                          *)
LEMMA FunctsKept ==
  ASSUME FunctsSound, UNCHANGED <<next, prev, funct, functs>>, comps \subseteq comps', Pending' = Pending
  PROVE  FunctsSound'
<1>1. Chain(FreeRoot)' = Chain(FreeRoot)
  BY SameLists, Zenon
<1>2. \A f : Calls(funct, f, Pending)' = Calls(funct, f, Pending)
  BY Zenon DEF Calls
<1>3. \A f \in DOMAIN functs' : functs'[f].owner \in comps'
                                /\ functs'[f].users = Cardinality(Calls(funct, f, Pending)')
  BY <1>2 DEF FunctsSound
<1>4. QED
  BY <1>1, <1>3 DEF FunctsSound

(* The threads.                                                               *)
LEMMA ThreadsKept ==
  ASSUME ThreadsSound, UNCHANGED <<next, prev, phase, thread_list>>
  PROVE  ThreadsSound'
<1>1. \A r : Chain(r)' = Chain(r)
  BY SameLists, Zenon
<1>2. QED
  BY <1>1 DEF ThreadsSound

(* The passes.                                                                *)
LEMMA WalkKept ==
  ASSUME WalkSound, UNCHANGED <<next, prev, funct, walk>>
  PROVE  WalkSound'
<1>1. \A r : Chain(r)' = Chain(r)
  BY SameLists, Zenon
<1>2. \A t \in Threads : WalkOf(t)'
  BY <1>1 DEF WalkSound, WalkOf, walk
<1>3. QED
  BY <1>2 DEF WalkSound, walk

(* A call that has not begun is sound.                                        *)
LEMMA ClientIdle ==
  ASSUME client' \in {Idle, [op |-> "thread_delete"], [op |-> "gone"], [op |-> "app_exit"], [op |-> "released"]}
  PROVE  ClientSound' /\ Pending' = {} /\ Freeing' = {} /\ (Pending \cup Freeing)' = {}
<1>1. client'.op \notin {"add", "del", "exit"}
  BY DEF Idle
<1>2. AddSound'
  BY <1>1 DEF AddSound
<1>3. QED
  BY <1>1, <1>2, HandEmptied DEF ClientSound

(* Between two calls nothing is in hand.                                      *)
LEMMA IdleHand ==
  ASSUME client = Idle
  PROVE  Pending = {} /\ Freeing = {} /\ Pending \cup Freeing = {}
<1>1. client.op \notin {"add", "del", "exit"}
  BY DEF Idle
<1>2. QED
  BY <1>1, HandEmpty

(* hal_init registers a component.                                            *)
LEMMA InitKeeps == ASSUME HalInv, hal_init PROVE HalInv'
<1>1. HalInv /\ client = Idle /\ client' = Idle /\ mutex' = mutex
      /\ uuid < MaxUuid /\ uuid' = uuid + 1 /\ comps' = comps \cup {uuid'}
      /\ UNCHANGED <<ready, functs, thread_list, threads_running, next, prev, funct>> /\ UNCHANGED walk
  BY DEF hal_init, Atomic, lists
<1>2. ClientSound' /\ (Pending \cup Freeing)' = Pending \cup Freeing /\ Pending' = Pending
  BY <1>1, ClientIdle, IdleHand
<1>3. TypeOK'
  BY <1>1, Bounds DEF HalInv, TypeOK, walk
<1>4. ListsSound' /\ FunctsSound' /\ ThreadsSound' /\ WalkSound'
  BY <1>1, <1>2, ListsKept, FunctsKept, ThreadsKept, WalkKept DEF HalInv, walk
<1>5. QED
  BY <1>2, <1>3, <1>4 DEF HalInv

(* hal_ready and hal_unready only mark it.                                    *)
LEMMA ReadyKeeps ==
  ASSUME HalInv, NEW id \in comps, hal_ready(id) \/ hal_unready(id)
  PROVE  HalInv'
<1>1. HalInv /\ client = Idle /\ client' = Idle /\ mutex' = mutex /\ ready' \subseteq comps
      /\ UNCHANGED <<uuid, comps, functs, thread_list, threads_running, next, prev, funct>> /\ UNCHANGED walk
  BY DEF hal_ready, hal_unready, Atomic, lists, HalInv, TypeOK
<1>2. ClientSound' /\ (Pending \cup Freeing)' = Pending \cup Freeing /\ Pending' = Pending
  BY <1>1, ClientIdle, IdleHand
<1>3. TypeOK'
  BY <1>1 DEF HalInv, TypeOK, walk
<1>4. ListsSound' /\ FunctsSound' /\ ThreadsSound' /\ WalkSound'
  BY <1>1, <1>2, ListsKept, FunctsKept, ThreadsKept, WalkKept DEF HalInv, walk
<1>5. QED
  BY <1>2, <1>3, <1>4 DEF HalInv

(* hal_export_funct: no entry calls a function that was not exported.         *)
LEMMA ExportKeeps ==
  ASSUME HalInv, NEW id \in comps, NEW f \in Functs, hal_export_funct(f, id)
  PROVE  HalInv'
<1>1. HalInv /\ client = Idle /\ client' = Idle /\ mutex' = mutex /\ f \notin DOMAIN functs
      /\ functs' = [g \in DOMAIN functs \cup {f} |->
                      IF g = f THEN [owner |-> id, users |-> 0] ELSE functs[g]]
      /\ UNCHANGED <<uuid, comps, ready, thread_list, threads_running, next, prev, funct>> /\ UNCHANGED walk
  BY DEF hal_export_funct, Atomic, lists
<1>2. ClientSound' /\ (Pending \cup Freeing)' = Pending \cup Freeing
      /\ Pending' = {} /\ Pending = {}
  BY <1>1, ClientIdle, IdleHand
<1>3. DOMAIN functs' = DOMAIN functs \cup {f} /\ functs'[f] = [owner |-> id, users |-> 0]
      /\ \A g \in DOMAIN functs : functs'[g] = functs[g]
  BY <1>1
<1>4. TypeOK'
  <2>1. id \in 1 .. MaxUuid
    BY <1>1 DEF HalInv, TypeOK
  <2>2. functs'[f] \in [owner : 1 .. MaxUuid, users : Nat]
    BY <1>3, <2>1
  <2>3. \A g \in DOMAIN functs' : functs'[g] \in [owner : 1 .. MaxUuid, users : Nat]
    BY <1>1, <1>3, <2>2 DEF HalInv, TypeOK
  <2>4. DOMAIN functs' \subseteq Functs
    BY <1>1, <1>3 DEF HalInv, TypeOK
  <2>5. QED
    BY <1>1, <2>3, <2>4 DEF HalInv, TypeOK, walk
<1>5. FunctsSound'
  <2>1. Chain(FreeRoot)' = Chain(FreeRoot)
    BY <1>1, SameLists, Zenon
  <2>2. \A g : Calls(funct, g, Pending)' = Calls(funct, g, {}) /\ Calls(funct, g, Pending) = Calls(funct, g, {})
    BY <1>1, <1>2, Zenon DEF Calls
  <2>3. FunctsSound
    BY <1>1 DEF HalInv
  <2>4. Calls(funct, f, {}) = {}
    <3>1. f # None
      BY RootsDiffer
    <3>2. \A e \in Entries : funct[e] # f
      BY <1>1, <2>3, <3>1 DEF FunctsSound
    <3>3. QED
      BY <3>2 DEF Calls
  <2>5. functs'[f].owner \in comps' /\ functs'[f].users = Cardinality(Calls(funct, f, Pending)')
    BY <1>1, <1>3, <2>2, <2>4, FS_EmptySet
  <2>6. \A g \in DOMAIN functs :
          functs'[g].owner \in comps' /\ functs'[g].users = Cardinality(Calls(funct, g, Pending)')
    <3>1. \A g \in DOMAIN functs :
            functs[g].owner \in comps /\ functs[g].users = Cardinality(Calls(funct, g, Pending))
      BY <2>3 DEF FunctsSound
    <3>2. QED
      BY <1>1, <1>3, <2>2, <3>1
  <2>7. \A g \in DOMAIN functs' :
          functs'[g].owner \in comps' /\ functs'[g].users = Cardinality(Calls(funct, g, Pending)')
    BY <1>3, <2>5, <2>6
  <2>8. QED
    BY <1>1, <1>3, <2>1, <2>3, <2>7 DEF FunctsSound
<1>6. ListsSound' /\ ThreadsSound' /\ WalkSound'
  BY <1>1, <1>2, ListsKept, ThreadsKept, WalkKept DEF HalInv, walk
<1>7. QED
  BY <1>2, <1>4, <1>5, <1>6 DEF HalInv

(* hal_start_threads, hal_stop_threads, hal_thread_delete, hal_app_exit, an   *)
(* add without room and the release of the memory.                            *)
LEMMA MarksKeep ==
  ASSUME HalInv, Pending = {}, Freeing = {},
         client' \in {Idle, [op |-> "thread_delete"], [op |-> "gone"], [op |-> "app_exit"], [op |-> "released"]},
         threads_running' \in BOOLEAN, mutex' \in BOOLEAN,
         UNCHANGED <<registry, lists, walk>>
  PROVE  HalInv'
<1>1. UNCHANGED <<uuid, comps, ready, functs, thread_list, next, prev, funct>> /\ UNCHANGED walk
  BY DEF registry, lists
<1>2. Pending = {} /\ Pending \cup Freeing = {}
  OBVIOUS
<1>3. ClientSound' /\ (Pending \cup Freeing)' = Pending \cup Freeing /\ Pending' = Pending
  BY <1>2, ClientIdle
<1>4. TypeOK'
  BY <1>1 DEF HalInv, TypeOK, walk
<1>5. ListsSound' /\ FunctsSound' /\ ThreadsSound' /\ WalkSound'
  BY <1>1, <1>3, ListsKept, FunctsKept, ThreadsKept, WalkKept DEF HalInv, walk
<1>6. QED
  BY <1>3, <1>4, <1>5 DEF HalInv

(* They are such steps.                                                       *)
LEMMA MarkCallsKeep ==
  ASSUME HalInv, \/ hal_start_threads \/ hal_stop_threads \/ hal_app_exit \/ Released
                 \/ \E t \in Threads : hal_thread_delete(t)
                 \/ \E f \in Functs, t \in Threads, p \in Positions : AddWithoutRoom(f, t, p)
  PROVE  HalInv'
<1>1. CASE hal_start_threads \/ hal_stop_threads
  BY <1>1, IdleHand, MarksKeep DEF hal_start_threads, hal_stop_threads, HalInv, TypeOK
<1>2. CASE hal_app_exit
  BY <1>2, IdleHand, MarksKeep DEF hal_app_exit, Begin, HalInv, TypeOK
<1>3. CASE Released
  BY <1>3, HandEmpty, MarksKeep DEF Released, HalInv, TypeOK
<1>4. CASE \E t \in Threads : hal_thread_delete(t)
  BY <1>4, IdleHand, MarksKeep DEF hal_thread_delete, Begin, HalInv, TypeOK
<1>5. CASE \E f \in Functs, t \in Threads, p \in Positions : AddWithoutRoom(f, t, p)
  BY <1>5, IdleHand, MarksKeep DEF AddWithoutRoom, Begin, HalInv, TypeOK
<1>6. QED
  BY <1>1, <1>2, <1>3, <1>4, <1>5

(* hal_create_thread: the thread waits, and calls nothing yet.                *)
LEMMA CreateKeeps ==
  ASSUME HalInv, NEW t \in Threads, hal_create_thread(t)
  PROVE  HalInv'
<1>1. HalInv /\ client = Idle /\ client' = Idle /\ mutex' = mutex /\ ~Contains(thread_list, t)
      /\ thread_list' = <<t>> \o thread_list /\ phase' = [phase EXCEPT ![t] = "wait"]
      /\ UNCHANGED <<uuid, comps, ready, functs, threads_running, next, prev, funct>>
      /\ UNCHANGED <<pos, running, walked, linked, dirty>>
  BY DEF hal_create_thread, Atomic, lists
<1>2. ClientSound' /\ (Pending \cup Freeing)' = Pending \cup Freeing /\ Pending' = Pending
  BY <1>1, ClientIdle, IdleHand
<1>3. PICK l, m : l = thread_list /\ m = thread_list'
  OBVIOUS
<1>4. l \in Seq(Threads) /\ IsInjective(l) /\ ~Contains(l, t) /\ m = <<t>> \o l
  BY <1>1, <1>3 DEF HalInv, TypeOK
<1>5. /\ m \in Seq(Threads) /\ Len(m) = Len(l) + 1 /\ m[1] = t
      /\ \A i \in 1 .. Len(l) : m[i + 1] = l[i]
  BY <1>4
<1>6. \A i \in 1 .. Len(m) : i = 1 \/ (i - 1 \in 1 .. Len(l) /\ m[i] = l[i - 1])
  BY <1>4, <1>5
<1>7. DOMAIN m = 1 .. Len(m) /\ DOMAIN l = 1 .. Len(l) /\ Len(l) \in Nat
  BY <1>4, <1>5
<1>8. \A u : Contains(m, u) <=> u = t \/ Contains(l, u)
  <2> TAKE u
  <2>1. Contains(m, u) => u = t \/ Contains(l, u)
    BY <1>5, <1>6 DEF Contains
  <2>2. u = t => Contains(m, u)
    <3>1. 1 \in 1 .. Len(m)
      BY <1>5, <1>7
    <3>2. QED
      BY <1>5, <3>1 DEF Contains
  <2>3. Contains(l, u) => Contains(m, u)
    <3>1. \A i \in 1 .. Len(l) : i + 1 \in 1 .. Len(m)
      BY <1>5, <1>7
    <3>2. QED
      BY <1>5, <3>1 DEF Contains
  <2>4. QED
    BY <2>1, <2>2, <2>3
<1>9. IsInjective(m)
  <2>1. ASSUME NEW i \in 1 .. Len(m), NEW j \in 1 .. Len(m), m[i] = m[j] PROVE i = j
    <3>1. \A x \in 1 .. Len(l) : l[x] # t
      BY <1>4 DEF Contains
    <3>2. CASE i = 1 \/ j = 1
      BY <1>5, <1>6, <2>1, <3>1, <3>2
    <3>3. CASE i # 1 /\ j # 1
      <4>1. i - 1 = j - 1
        BY <1>4, <1>6, <1>7, <2>1, <3>3 DEF IsInjective
      <4>2. QED
        BY <4>1
    <3>4. QED
      BY <3>2, <3>3
  <2>2. QED
    BY <1>7, <2>1 DEF IsInjective
<1>10. phase' \in [Threads -> {"none", "wait", "call", "crashed"}] /\ phase'[t] = "wait"
       /\ \A u \in Threads : u # t => phase'[u] = phase[u]
  BY <1>1 DEF HalInv, TypeOK
<1>11. TypeOK'
  BY <1>1, <1>3, <1>5, <1>9, <1>10 DEF HalInv, TypeOK
<1>12. \A r : Chain(r)' = Chain(r)
  BY <1>1, SameLists, Zenon
<1>13. ThreadsSound'
  BY <1>1, <1>3, <1>8, <1>10, <1>12 DEF HalInv, ThreadsSound
<1>14. WalkSound'
  <2>1. phase[t] = "none"
    BY <1>1 DEF HalInv, ThreadsSound
  <2>2. ASSUME NEW u \in Threads PROVE WalkOf(u)'
    BY <1>1, <1>10, <1>12, <2>1 DEF HalInv, WalkSound, WalkOf
  <2>3. QED
    BY <1>1, <2>2 DEF HalInv, WalkSound
<1>15. ListsSound' /\ FunctsSound'
  BY <1>1, <1>2, ListsKept, FunctsKept DEF HalInv
<1>16. QED
  BY <1>2, <1>11, <1>13, <1>14, <1>15 DEF HalInv

(* What the invariant says of the lists between two stores of a call.         *)
LEMMA HandFacts ==
  ASSUME HalInv
  PROVE  ChainsAre(Pending \cup Freeing)
<1>1. PICK h : h = Pending \cup Freeing
  OBVIOUS
<1>2. Layout(next, prev, Chains, h)
  BY <1>1, Zenon DEF HalInv, ListsSound
<1>3. QED
  BY <1>1, <1>2, LayoutFacts, Zenon

(* hal_del_funct_from_thread and hal_exit begin.                              *)
LEMMA UnlinkBegins ==
  ASSUME HalInv,
         \/ \E f \in Functs, t \in Threads : hal_del_funct_from_thread(f, t)
         \/ \E id \in comps : hal_exit(id)
  PROVE  HalInv'
<1>1. client = Idle /\ mutex' = TRUE
      /\ UNCHANGED <<uuid, comps, ready, functs, thread_list, threads_running, next, prev, funct>>
      /\ UNCHANGED walk
  BY DEF hal_del_funct_from_thread, hal_exit, Begin, registry, lists
<1>2. ClientSound' /\ Pending' = {} /\ (Pending \cup Freeing)' = {}
  <2>1. CASE \E f \in Functs, t \in Threads : hal_del_funct_from_thread(f, t)
    <3>1. PICK f \in Functs, t \in Threads : hal_del_funct_from_thread(f, t)
      BY <2>1
    <3>2. PICK e : e = FirstUse(f, t)
      OBVIOUS
    <3>3. Uses(f, t) /\ client' = [op |-> "del", entry |-> e, stage |-> "linked"]
      BY <3>1, <3>2 DEF hal_del_funct_from_thread, Begin
    <3>4. t \in Roots
      BY RootsDiffer
    <3>5. Chain(t) \in Seq(Entries) /\ \A d : Has(Chain(t), d) => d \in Entries
      BY <3>4, HandFacts, Zenon DEF ChainsAre
    <3>6. Has(Chain(t), e)
      BY <3>2, <3>3, <3>5, FirstUseFound, Zenon DEF Has
    <3>7. e \in Entries /\ Has(Chain(t), e)'
      <4>1. Chain(t)' = Chain(t)
        BY <1>1, SameLists, Zenon
      <4>2. QED
        BY <3>5, <3>6, <4>1, Zenon
    <3>8. client'.op = "del" /\ client'.entry = e /\ client'.stage = "linked"
          /\ client' \in [op : {"del"}, entry : Entries \cup {None},
                          stage : {"linked", "detached", "done"}]
      BY <3>3, <3>7
    <3>9. AddSound'
      BY <3>8 DEF AddSound
    <3>10. \E u \in Threads : Has(Chain(u), client.entry)'
      BY <3>7, <3>8, Zenon
    <3>11. QED
      BY <3>8, <3>9, <3>10, HandEmptied DEF ClientSound
  <2>2. CASE \E id \in comps : hal_exit(id)
    <3>1. PICK id \in comps : hal_exit(id)
      BY <2>2
    <3>2. client' = [op |-> "exit", id |-> id, entry |-> None, stage |-> "linked"] /\ id \in 1 .. MaxUuid
      BY <3>1 DEF hal_exit, Begin, HalInv, TypeOK
    <3>3. client'.op = "exit" /\ client'.id = id /\ client'.stage = "linked"
          /\ client' \in [op : {"exit"}, id : 1 .. MaxUuid, entry : Entries \cup {None},
                          stage : {"linked", "detached"}]
      BY <3>2
    <3>4. AddSound'
      BY <3>3 DEF AddSound
    <3>5. QED
      BY <1>1, <3>3, <3>4, HandEmptied DEF ClientSound
  <2>3. QED
    BY <2>1, <2>2
<1>3. (Pending \cup Freeing)' = Pending \cup Freeing /\ Pending' = Pending
  BY <1>1, <1>2, IdleHand
<1>4. TypeOK'
  BY <1>1 DEF HalInv, TypeOK, walk
<1>5. ListsSound' /\ FunctsSound' /\ ThreadsSound' /\ WalkSound'
  BY <1>1, <1>3, ListsKept, FunctsKept, ThreadsKept, WalkKept DEF HalInv, walk
<1>6. QED
  BY <1>2, <1>4, <1>5 DEF HalInv

(* FinishUnlink: no entry calls a function of the component that goes.        *)
LEMMA FinishKeeps ==
  ASSUME HalInv, FinishUnlink
  PROVE  HalInv'
<1>1. client.op \in {"del", "exit"} /\ client.stage # "detached"
      /\ (client.op = "exit" => InUse(client.id) = {})
      /\ mutex' = FALSE /\ client' = Idle
      /\ UNCHANGED <<uuid, thread_list, threads_running, next, prev, funct>> /\ UNCHANGED walk
  BY DEF FinishUnlink, Unlinking, lists
<1>2. Pending = {} /\ Freeing = {}
  BY <1>1, HandEmpty
<1>3. CASE client.op = "del"
  <2>1. UNCHANGED <<comps, ready, functs>>
    BY <1>3 DEF FinishUnlink
  <2>2. UNCHANGED <<registry, lists, walk>>
    BY <1>1, <2>1 DEF registry, lists
  <2>3. threads_running' \in BOOLEAN /\ mutex' \in BOOLEAN
    BY <1>1 DEF HalInv, TypeOK
  <2>4. QED
    BY <1>1, <1>2, <2>2, <2>3, MarksKeep
<1>4. CASE client.op = "exit"
  <2>1. PICK id : id = client.id
    OBVIOUS
  <2>2. /\ functs' = [f \in {g \in DOMAIN functs : functs[g].owner # id} |-> functs[f]]
        /\ comps' = comps \ {id} /\ ready' = ready \ {id}
    BY <1>4, <2>1 DEF FinishUnlink
  <2>3. DOMAIN functs' = {g \in DOMAIN functs : functs[g].owner # id}
        /\ \A g \in DOMAIN functs' : functs'[g] = functs[g]
    BY <2>2
  <2>4. \A g \in DOMAIN functs : functs[g].owner = id => functs[g].users = 0
    BY <1>1, <1>4, <2>1 DEF InUse, HalInv, TypeOK
  <2>5. FunctsSound
    BY DEF HalInv
  <2>6. \A g \in DOMAIN functs : functs[g].owner = id => \A e \in Entries : funct[e] # g
    <3> TAKE g \in DOMAIN functs
    <3> HAVE functs[g].owner = id
    <3>1. Cardinality(Calls(funct, g, Pending)) = 0
      BY <2>4, <2>5 DEF FunctsSound
    <3>2. Calls(funct, g, {}) = {}
      BY <1>2, <3>1, CallsCounted, Zenon
    <3>3. QED
      BY <3>2 DEF Calls
  <2>7. \A e \in Entries : funct[e] # None => funct[e] \in DOMAIN functs'
    BY <2>3, <2>5, <2>6 DEF FunctsSound
  <2>8. ClientSound' /\ (Pending \cup Freeing)' = Pending \cup Freeing
        /\ Pending' = {}
    BY <1>1, <1>2, ClientIdle
  <2>9. FunctsSound'
    <3>1. Chain(FreeRoot)' = Chain(FreeRoot)
      BY <1>1, SameLists, Zenon
    <3>2. \A g : Calls(funct, g, Pending)' = Calls(funct, g, Pending)
      BY <1>1, <1>2, <2>8, Zenon DEF Calls
    <3>3. \A g \in DOMAIN functs' :
            functs'[g].owner \in comps' /\ functs'[g].users = Cardinality(Calls(funct, g, Pending)')
      BY <2>2, <2>3, <2>5, <3>2 DEF FunctsSound
    <3>4. QED
      BY <1>1, <2>5, <2>7, <3>1, <3>3 DEF FunctsSound
  <2>10. TypeOK'
    BY <1>1, <2>2, <2>3 DEF HalInv, TypeOK, walk
  <2>11. ListsSound' /\ ThreadsSound' /\ WalkSound'
    BY <1>1, <2>8, ListsKept, ThreadsKept, WalkKept DEF HalInv, walk
  <2>12. QED
    BY <2>8, <2>9, <2>10, <2>11 DEF HalInv
<1>5. QED
  BY <1>1, <1>3, <1>4

------------------------------------------------------------------------------
(* The stores that move an entry.                                             *)

(* An entry leaves its list.                                                  *)
LEMMA StepRemoves ==
  ASSUME Layout(next, prev, Chains, {}), NEW r \in Roots, NEW k \in 1 .. Len(Chain(r)),
         NEW e, e = Chain(r)[k],
         LinksOut(next, prev, next', prev', e, prev[e], next[e])
  PROVE  /\ Layout(next', prev', Chains', {e})
         /\ IsRemoved(Chain(r)', Chain(r), k)
         /\ \A q \in Roots : q # r => Chain(q)' = Chain(q)
<1>1. PICK nx, pv, nx2, pv2, ch, c : /\ nx = next /\ pv = prev /\ nx2 = next' /\ pv2 = prev'
                                     /\ ch = Chains /\ c = Chain(r)
  OBVIOUS
<1>2. ch = [q \in Roots |-> Chain(q)]
  BY <1>1, Zenon DEF Chains
<1>3. ch[r] = c /\ \A q \in Roots : ch[q] = Chain(q)
  BY <1>1, <1>2
<1>4. Layout(nx, pv, ch, {})
  BY <1>1, Zenon
<1>5. Ring(nx, pv, r, c) /\ c \in Seq(Entries) /\ Len(c) \in Nat
  BY <1>3, <1>4, LayoutRing, Zenon
<1>6. k \in 1 .. Len(c) /\ e = c[k]
  BY <1>1, Zenon
<1>7. nx[e] = Place(r, c, After(c, k)) /\ pv[e] = Place(r, c, k - 1)
  <2>1. k \in 0 .. Len(c) /\ k - 1 \in 0 .. Len(c) /\ After(c, k - 1) = k /\ Place(r, c, k) = e
    BY <1>5, <1>6 DEF After, Place
  <2>2. \A i \in 0 .. Len(c) : /\ nx[Place(r, c, i)] = Place(r, c, After(c, i))
                               /\ pv[Place(r, c, After(c, i))] = Place(r, c, i)
    BY <1>5 DEF Ring
  <2>3. QED
    BY <2>1, <2>2, Zenon
<1>8. LinksOut(nx, pv, nx2, pv2, e, pv[e], nx[e])
  BY <1>1, Zenon
<1>10. PICK ch2 : ch2 = [ch EXCEPT ![r] = Removed(c, k)]
  OBVIOUS
<1>11. Layout(nx2, pv2, ch2, {e})
  <2>1. PICK a, b : a = pv[e] /\ b = nx[e]
    OBVIOUS
  <2>2. a = Place(r, ch[r], k - 1) /\ b = Place(r, ch[r], After(ch[r], k))
        /\ k \in 1 .. Len(ch[r]) /\ e = ch[r][k] /\ ch2 = [ch EXCEPT ![r] = Removed(ch[r], k)]
    BY <1>3, <1>6, <1>7, <1>10, <2>1, Zenon
  <2>3. LinksOut(nx, pv, nx2, pv2, e, a, b)
    BY <1>8, <2>1, Zenon
  <2>4. QED
    BY <1>4, <2>2, <2>3, LayoutRemoved, Zenon
<1>12. ch2 = [q \in Roots |-> ch2[q]] /\ ch2[r] = Removed(c, k) /\ \A q \in Roots : q # r => ch2[q] = ch[q]
  BY <1>2, <1>10
<1>13. (\A q \in Roots : Chain(q)' = ch2[q]) /\ Layout(next', prev', Chains', {e})
  BY <1>1, <1>11, <1>12, NewLists, Zenon
<1>14. PICK u : u = Removed(c, k)
  OBVIOUS
<1>15. IsRemoved(u, c, k)
  BY <1>5, <1>6, <1>14, RemovedHas DEF Ring
<1>16. Chain(r)' = u
  BY <1>12, <1>13, <1>14, Zenon
<1>17. \A q \in Roots : q # r => Chain(q)' = Chain(q)
  BY <1>3, <1>12, <1>13, Zenon
<1>18. QED
  BY <1>1, <1>13, <1>15, <1>16, <1>17, Zenon

(* An entry enters a list.                                                    *)
LEMMA StepInserts ==
  ASSUME NEW e \in Entries, Layout(next, prev, Chains, {e}),
         NEW r \in Roots, NEW k \in 0 .. Len(Chain(r)), NEW a, a = Place(r, Chain(r), k),
         LinksIn(next, prev, next', prev', e, a, next[a])
  PROVE  /\ Layout(next', prev', Chains', {})
         /\ k + 1 \in 1 .. Len(Chain(r)) + 1 /\ IsInserted(Chain(r)', Chain(r), k + 1, e)
         /\ \A q \in Roots : q # r => Chain(q)' = Chain(q)
<1>1. PICK nx, pv, nx2, pv2, ch, c : /\ nx = next /\ pv = prev /\ nx2 = next' /\ pv2 = prev'
                                     /\ ch = Chains /\ c = Chain(r)
  OBVIOUS
<1>2. ch = [q \in Roots |-> Chain(q)]
  BY <1>1, Zenon DEF Chains
<1>3. ch[r] = c /\ \A q \in Roots : ch[q] = Chain(q)
  BY <1>1, <1>2
<1>4. Layout(nx, pv, ch, {e})
  BY <1>1, Zenon
<1>5. Ring(nx, pv, r, c) /\ c \in Seq(Entries) /\ Len(c) \in Nat
  BY <1>3, <1>4, LayoutRing, Zenon
<1>6. k \in 0 .. Len(c) /\ a = Place(r, c, k)
  BY <1>1, Zenon
<1>7. nx[a] = Place(r, c, After(c, k))
  <2>1. \A i \in 0 .. Len(c) : nx[Place(r, c, i)] = Place(r, c, After(c, i))
    BY <1>5 DEF Ring
  <2>2. QED
    BY <1>6, <2>1, Zenon
<1>8. PICK b : b = nx[a]
  OBVIOUS
<1>9. LinksIn(nx, pv, nx2, pv2, e, a, b)
  BY <1>1, <1>8, Zenon
<1>11. PICK ch2 : ch2 = [ch EXCEPT ![r] = Inserted(c, k + 1, e)]
  OBVIOUS
<1>12. Layout(nx2, pv2, ch2, {})
  <2>1. a = Place(r, ch[r], k) /\ b = Place(r, ch[r], After(ch[r], k))
        /\ k \in 0 .. Len(ch[r]) /\ ch2 = [ch EXCEPT ![r] = Inserted(ch[r], k + 1, e)]
    BY <1>3, <1>6, <1>7, <1>8, <1>11, Zenon
  <2>2. QED
    BY <1>4, <1>9, <2>1, LayoutInserted, Zenon
<1>13. ch2 = [q \in Roots |-> ch2[q]] /\ ch2[r] = Inserted(c, k + 1, e)
       /\ \A q \in Roots : q # r => ch2[q] = ch[q]
  BY <1>2, <1>11
<1>14. (\A q \in Roots : Chain(q)' = ch2[q]) /\ Layout(next', prev', Chains', {})
  BY <1>1, <1>12, <1>13, NewLists, Zenon
<1>15. PICK m \in 1 .. Len(c) + 1 : m = k + 1
  BY <1>5, <1>6
<1>16. PICK u : u = Inserted(c, m, e)
  OBVIOUS
<1>17. IsInserted(u, c, m, e)
  BY <1>5, <1>16, InsertedHas, Zenon
<1>18. Chain(r)' = u
  BY <1>13, <1>14, <1>15, <1>16, Zenon
<1>19. \A q \in Roots : q # r => Chain(q)' = Chain(q)
  BY <1>3, <1>13, <1>14, Zenon
<1>20. QED
  BY <1>1, <1>14, <1>15, <1>17, <1>18, <1>19, Zenon

(* The node after which a function is put is a place of the thread's list.    *)
LEMMA PlaceToInsert ==
  ASSUME NEW t \in Threads, NEW p, Chain(t) \in Seq(Entries), Distinct(Chain(t)),
         InsertAfter(t, p) # None
  PROVE  \E k \in 0 .. Len(Chain(t)) : InsertAfter(t, p) = Place(t, Chain(t), k)
<1>1. PICK c : c = Chain(t)
  OBVIOUS
<1>2. PICK w : w = <<t>> \o c
  OBVIOUS
<1>3. c \in Seq(Entries) /\ Distinct(c) /\ t \in Roots
  BY <1>1, RootsDiffer
<1>4. NodesOf(w, t, c)
  BY <1>2, <1>3, NodesOfList
<1>5. DOMAIN w = 1 .. Len(c) + 1 /\ Len(w) = Len(c) + 1 /\ Len(c) \in Nat
      /\ \A i \in 0 .. Len(c) : w[i + 1] = Place(t, c, i)
  BY <1>3, <1>4 DEF NodesOf
<1>6. PICK i : i = IF p > 0 THEN p ELSE Len(w) + p + 1
  OBVIOUS
<1>7. InsertAfter(t, p) = IF i \in DOMAIN w THEN w[i] ELSE None
  BY <1>1, <1>2, <1>6, Zenon DEF InsertAfter
<1>8. i \in 1 .. Len(c) + 1 /\ InsertAfter(t, p) = w[i]
  BY <1>5, <1>7
<1>9. i - 1 \in 0 .. Len(c) /\ (i - 1) + 1 = i
  BY <1>5, <1>8
<1>10. w[i] = Place(t, c, i - 1)
  BY <1>5, <1>9
<1>11. QED
  BY <1>1, <1>8, <1>9, <1>10

(* A pass that no step of the client disturbs: the list of its thread, what   *)
(* its entries call and the pass are the same.                                *)
LEMMA PassKept ==
  ASSUME NEW t \in Threads, WalkOf(t), Chain(t)' = Chain(t), phase'[t] = phase[t],
         UNCHANGED <<pos, running, walked, linked, dirty>>,
         \A d \in Entries : Has(Chain(t), d) => funct'[d] = funct[d]
  PROVE  WalkOf(t)'
<1>1. InPass(Chain(t), pos[t], walked[t], linked[t]) => Has(Chain(t), pos[t])
  BY Zenon DEF InPass, Has
<1>2. QED
  BY <1>1 DEF WalkOf

(* An entry of a thread's list calls a function.                              *)
LEMMA LinkedCalls ==
  ASSUME HalInv, NEW t \in Threads, NEW d, Has(Chain(t), d)
  PROVE  d \in Entries /\ funct[d] # None /\ ~Has(Chain(FreeRoot), d)
<1>1. t \in Roots /\ FreeRoot \in Roots /\ t # FreeRoot
  BY RootsDiffer
<1>2. d \in Entries
  BY <1>1, HandFacts, Zenon DEF ChainsAre
<1>3. ~Has(Chain(FreeRoot), d)
  BY <1>1, <1>2, HandFacts, Zenon DEF ChainsAre
<1>4. QED
  BY <1>2, <1>3 DEF HalInv, FunctsSound

(* hal_add_funct_to_thread takes the first free entry and points it into the  *)
(* list.                                                                      *)
LEMMA AddBegins ==
  ASSUME HalInv, NEW f \in Functs, NEW t \in Threads, NEW p, hal_add_funct_to_thread(f, t, p)
  PROVE  HalInv'
<1>1. PICK e : e = next[FreeRoot]
  OBVIOUS
<1>2. PICK a : a = InsertAfter(t, p)
  OBVIOUS
<1>3. /\ Contains(thread_list, t) /\ f \in DOMAIN functs
      /\ (functs[f].users > 0 => f \in Reentrant)
      /\ a # None /\ e # FreeRoot /\ client = Idle /\ mutex' = TRUE
      /\ client' = [op |-> "add", entry |-> e, after |-> a, funct |-> f, thread |-> t]
      /\ funct' = [funct EXCEPT ![e] = f]
      /\ next' = [[next EXCEPT ![FreeRoot] = next[e]] EXCEPT ![e] = next[a]]
      /\ prev' = [[prev EXCEPT ![next[e]] = FreeRoot] EXCEPT ![e] = a]
  BY <1>1, <1>2, Zenon DEF hal_add_funct_to_thread, Begin, Taken, TakenPrev
<1>4. UNCHANGED <<uuid, comps, ready, functs, thread_list, threads_running>> /\ UNCHANGED walk
  BY DEF hal_add_funct_to_thread, registry
<1>5. Pending = {} /\ Freeing = {} /\ Pending \cup Freeing = {}
  BY <1>3, IdleHand
<1>6. Layout(next, prev, Chains, {}) /\ ChainsAre({})
  <2>1. Layout(next, prev, Chains, Pending \cup Freeing)
    BY Zenon DEF HalInv, ListsSound
  <2>2. QED
    BY <1>5, <2>1, LayoutFacts, Zenon
<1>7. t \in Roots /\ FreeRoot \in Roots /\ t # FreeRoot /\ FreeRoot \notin Entries
      /\ Entries \subseteq Node /\ Roots \subseteq Node /\ t \notin Entries
  BY RootsDiffer
<1>8. PICK free, c : free = Chain(FreeRoot) /\ c = Chain(t)
  OBVIOUS
<1>9. /\ Ring(next, prev, FreeRoot, free) /\ free \in Seq(Entries) /\ Len(free) \in Nat
      /\ c \in Seq(Entries) /\ Distinct(c) /\ Len(c) \in Nat
  BY <1>6, <1>7, <1>8, Zenon DEF ChainsAre
<1>10. 1 \in 1 .. Len(free) /\ e = free[1] /\ e \in Entries /\ prev[e] = FreeRoot
  <2>1. \A i \in 0 .. Len(free) : /\ next[Place(FreeRoot, free, i)] = Place(FreeRoot, free, After(free, i))
                                  /\ prev[Place(FreeRoot, free, After(free, i))] = Place(FreeRoot, free, i)
    BY <1>9 DEF Ring
  <2>2. 0 \in 0 .. Len(free) /\ Place(FreeRoot, free, 0) = FreeRoot
    BY <1>9 DEF Place
  <2>3. e = Place(FreeRoot, free, After(free, 0)) /\ prev[e] = FreeRoot
    BY <1>1, <2>1, <2>2, Zenon
  <2>4. After(free, 0) = 1 /\ 1 \in 1 .. Len(free)
    BY <1>3, <1>9, <2>3 DEF After, Place
  <2>5. QED
    BY <1>9, <2>3, <2>4 DEF Place
<1>11. next \in [Node -> Node] /\ prev \in [Node -> Node] /\ funct \in [Entries -> Functs \cup {None}]
  BY DEF HalInv, TypeOK
<1>12. /\ \A n \in Node \ {e} : next'[n] = IF n = prev[e] THEN next[e] ELSE next[n]
       /\ \A n \in Node \ {e} : prev'[n] = IF n = next[e] THEN prev[e] ELSE prev[n]
       /\ next'[e] = next[a] /\ prev'[e] = a
  BY <1>3, <1>7, <1>10, <1>11
<1>120. LinksOut(next, prev, next', prev', e, prev[e], next[e])
  BY <1>12, Zenon DEF LinksOut
<1>13. /\ Layout(next', prev', Chains', {e})
       /\ IsRemoved(Chain(FreeRoot)', free, 1)
       /\ \A q \in Roots : q # FreeRoot => Chain(q)' = Chain(q)
  BY <1>6, <1>7, <1>8, <1>10, <1>120, StepRemoves, Zenon
<1>14. \A u \in Threads : Chain(u)' = Chain(u)
  BY <1>7, <1>13, RootsDiffer
<1>15. \A d : Has(Chain(FreeRoot), d)' <=> Has(free, d) /\ d # e
  BY <1>10, <1>13 DEF IsRemoved
<1>16. Has(free, e)
  BY <1>10 DEF Has
<1>17. funct[e] = None /\ \A u \in Threads : ~Has(Chain(u), e)
  <2>1. funct[e] = None
    BY <1>8, <1>10, <1>16 DEF HalInv, FunctsSound
  <2>2. QED
    BY <2>1, LinkedCalls
<1>18. a \in Node /\ a # e /\ a # FreeRoot /\ (a = t \/ Has(c, a))
  <2>1. PICK k \in 0 .. Len(c) : a = Place(t, c, k)
    BY <1>2, <1>3, <1>8, <1>9, PlaceToInsert
  <2>2. a = t \/ (k \in 1 .. Len(c) /\ a = c[k])
    BY <1>9, <2>1 DEF Place
  <2>3. a = t \/ Has(c, a)
    BY <2>2 DEF Has
  <2>4. Has(c, a) => a \in Entries /\ a # e
    BY <1>8, <1>17, LinkedCalls
  <2>5. QED
    BY <1>7, <1>10, <2>3, <2>4
<1>19. next'[e] = next'[a] /\ prev'[e] = a
  BY <1>3, <1>7, <1>10, <1>11, <1>12, <1>18
<1>20. funct'[e] = f /\ f # None /\ \A d \in Entries : d # e => funct'[d] = funct[d]
  BY <1>3, <1>10, <1>11, RootsDiffer
<1>21. client'.op = "add" /\ client'.entry = e /\ client'.after = a /\ client'.funct = f
       /\ client'.thread = t /\ client' \in [op : {"add"}, entry : Entries, after : Node,
                                             funct : Functs, thread : Threads]
  BY <1>3, <1>10, <1>18
<1>22. Pending' = {e} /\ Freeing' = {} /\ (Pending \cup Freeing)' = {e}
  BY <1>21 DEF Pending, Freeing
<1>23. TypeOK'
  <2>1. next' \in [Node -> Node] /\ prev' \in [Node -> Node]
    <3>1. next[e] \in Node /\ next[a] \in Node /\ FreeRoot \in Node
      BY <1>7, <1>10, <1>11, <1>18
    <3>2. PICK x, y : x = next[e] /\ y = next[a]
      OBVIOUS
    <3>3. next' = [[next EXCEPT ![FreeRoot] = x] EXCEPT ![e] = y]
          /\ prev' = [[prev EXCEPT ![x] = FreeRoot] EXCEPT ![e] = a]
      BY <1>3, <3>2, Zenon
    <3>4. QED
      BY <1>11, <1>18, <3>1, <3>2, <3>3
  <2>2. funct' \in [Entries -> Functs \cup {None}]
    BY <1>3, <1>11
  <2>3. mutex' \in BOOLEAN
    BY <1>3
  <2>4. QED
    BY <1>4, <2>1, <2>2, <2>3 DEF HalInv, TypeOK, walk
<1>24. ListsSound'
  BY <1>13, <1>22, Zenon DEF ListsSound
<1>25. FunctsSound'
  <2>1. FunctsSound
    BY DEF HalInv
  <2>2. \A d \in Entries : (funct'[d] = None) <=> Has(Chain(FreeRoot), d)'
    BY <1>8, <1>15, <1>20, <2>1 DEF FunctsSound
  <2>3. \A d \in Entries : funct'[d] # None => funct'[d] \in DOMAIN functs'
    BY <1>3, <1>4, <1>20, <2>1 DEF FunctsSound
  <2>4. \A g : Calls(funct, g, Pending)' = Calls(funct', g, {e})
    BY <1>22, Zenon DEF Calls
  <2>5. \A g \in DOMAIN functs : Calls(funct', g, {e}) = Calls(funct, g, {})
    <3>1. \A g \in DOMAIN functs : g # None
      BY RootsDiffer DEF HalInv, TypeOK
    <3>2. QED
      BY <1>10, <1>17, <1>20, <3>1 DEF Calls
  <2>6. \A g \in DOMAIN functs' :
          functs'[g].owner \in comps' /\ functs'[g].users = Cardinality(Calls(funct, g, Pending)')
    <3>1. \A g \in DOMAIN functs :
            functs[g].owner \in comps /\ functs[g].users = Cardinality(Calls(funct, g, {}))
      BY <1>5, <2>1 DEF FunctsSound
    <3>2. QED
      BY <1>4, <2>4, <2>5, <3>1
  <2>7. f \notin Reentrant => \A d \in Entries : funct[d] # f
    <3>1. SUFFICES ASSUME f \notin Reentrant PROVE \A d \in Entries : funct[d] # f
      OBVIOUS
    <3>2. functs[f].users = 0
      <4>1. functs[f].users \in Nat
        BY <1>3 DEF HalInv, TypeOK
      <4>2. QED
        BY <1>3, <3>1, <4>1
    <3>3. Cardinality(Calls(funct, f, {})) = 0
      BY <1>3, <1>5, <2>1, <3>2 DEF FunctsSound
    <3>4. Calls(funct, f, {}) = {}
      BY <3>3, CallsCounted, Zenon
    <3>5. QED
      BY <3>4 DEF Calls
  <2>8. \A d, b \in Entries :
          funct'[d] = funct'[b] /\ funct'[d] # None /\ funct'[d] \notin Reentrant => d = b
    <3>1. \A d, b \in Entries :
            funct[d] = funct[b] /\ funct[d] # None /\ funct[d] \notin Reentrant => d = b
      BY <2>1 DEF FunctsSound
    <3>2. QED
      BY <1>20, <2>7, <3>1
  <2>9. QED
    BY <2>2, <2>3, <2>6, <2>8 DEF FunctsSound
<1>26. ThreadsSound'
  BY <1>4, <1>14 DEF HalInv, ThreadsSound, walk
<1>27. ClientSound'
  <2>1. AddSound'
    <3>1. Has(Chain(t), a)' <=> Has(c, a)
      BY <1>8, <1>14
    <3>2. QED
      BY <1>3, <1>4, <1>10, <1>18, <1>19, <1>20, <1>21, <3>1 DEF AddSound
  <2>2. QED
    BY <1>21, <2>1 DEF ClientSound
<1>28. WalkSound'
  <2>1. ASSUME NEW u \in Threads PROVE WalkOf(u)'
    <3>1. \A d \in Entries : Has(Chain(u), d) => funct'[d] = funct[d]
      BY <1>17, <1>20
    <3>2. QED
      BY <1>4, <1>14, <3>1, PassKept DEF HalInv, WalkSound, walk
  <2>2. QED
    BY <1>4, <2>1 DEF HalInv, WalkSound, walk
<1>29. QED
  BY <1>23, <1>24, <1>25, <1>26, <1>27, <1>28 DEF HalInv

(* LinkEntry: the entry in hand enters the list of its thread, and its        *)
(* function counts it.                                                        *)
LEMMA LinkKeeps ==
  ASSUME HalInv, LinkEntry
  PROVE  HalInv'
<1>1. PICK e, a, f, t : e = client.entry /\ a = client.after /\ f = client.funct /\ t = client.thread
  OBVIOUS
<1>2. /\ client.op = "add" /\ client' = Idle /\ mutex' = FALSE
      /\ next' = [next EXCEPT ![a] = e]
      /\ prev' = [prev EXCEPT ![next[a]] = e]
      /\ functs' = [functs EXCEPT ![f].users = @ + 1]
      /\ UNCHANGED <<uuid, comps, ready, thread_list, threads_running, funct>>
  BY <1>1, Zenon DEF LinkEntry
<1>3. UNCHANGED walk
  BY DEF LinkEntry
<1>4. /\ e \in Entries /\ t \in Threads /\ Contains(thread_list, t)
      /\ a = t \/ Has(Chain(t), a)
      /\ next[e] = next[a] /\ prev[e] = a
      /\ f \in DOMAIN functs /\ funct[e] = f
  BY <1>1, <1>2 DEF HalInv, ClientSound, AddSound
<1>5. Pending = {e} /\ Freeing = {} /\ Pending \cup Freeing = {e}
  BY <1>1, <1>2 DEF Pending, Freeing
<1>6. ClientSound' /\ Pending' = {} /\ (Pending \cup Freeing)' = {}
  BY <1>2, ClientIdle
<1>7. Layout(next, prev, Chains, {e}) /\ ChainsAre({e})
  <2>1. Layout(next, prev, Chains, Pending \cup Freeing)
    BY Zenon DEF HalInv, ListsSound
  <2>2. QED
    BY <1>5, <2>1, LayoutFacts, Zenon
<1>8. t \in Roots /\ FreeRoot \in Roots /\ t # FreeRoot /\ t \notin Entries
      /\ Entries \subseteq Node /\ Roots \subseteq Node
  BY <1>4, RootsDiffer
<1>9. PICK c : c = Chain(t)
  OBVIOUS
<1>10. c \in Seq(Entries) /\ Len(c) \in Nat /\ ~Has(c, e)
  BY <1>7, <1>8, <1>9, Zenon DEF ChainsAre
<1>11. PICK k \in 0 .. Len(c) : a = Place(t, c, k)
  <2>1. CASE a = t
    <3>1. 0 \in 0 .. Len(c) /\ Place(t, c, 0) = t
      BY <1>10 DEF Place
    <3>2. QED
      BY <2>1, <3>1
  <2>2. CASE Has(c, a)
    <3>1. PICK k \in 1 .. Len(c) : c[k] = a
      BY <2>2 DEF Has
    <3>2. k \in 0 .. Len(c) /\ Place(t, c, k) = a
      BY <1>10, <3>1 DEF Place
    <3>3. QED
      BY <3>2
  <2>3. QED
    BY <1>4, <1>9, <2>1, <2>2
<1>12. a \in Node /\ a # e /\ e \in Node
  <2>1. Has(c, a) => a \in Entries
    BY <1>7, <1>8, <1>9, Zenon DEF ChainsAre
  <2>2. QED
    BY <1>4, <1>8, <1>9, <1>10, <2>1
<1>13. next \in [Node -> Node] /\ prev \in [Node -> Node]
  BY DEF HalInv, TypeOK
<1>14. PICK b \in Node : b = next[a]
  BY <1>12, <1>13
<1>15. LinksIn(next, prev, next', prev', e, a, next[a])
  <2>1. next' = [next EXCEPT ![a] = e] /\ prev' = [prev EXCEPT ![b] = e] /\ next[e] = b /\ prev[e] = a
    BY <1>2, <1>4, <1>14, Zenon
  <2>2. \A n \in Node : next'[n] = IF n = a THEN e ELSE IF n = e THEN b ELSE next[n]
    BY <1>13, <2>1
  <2>3. \A n \in Node : prev'[n] = IF n = b THEN e ELSE IF n = e THEN a ELSE prev[n]
    BY <1>13, <2>1
  <2>4. QED
    BY <1>14, <2>2, <2>3, Zenon DEF LinksIn
<1>16. /\ Layout(next', prev', Chains', {})
       /\ k + 1 \in 1 .. Len(c) + 1 /\ IsInserted(Chain(t)', c, k + 1, e)
       /\ \A q \in Roots : q # t => Chain(q)' = Chain(q)
  BY <1>4, <1>7, <1>8, <1>9, <1>11, <1>15, StepInserts, Zenon
<1>17. Chain(FreeRoot)' = Chain(FreeRoot)
  BY <1>8, <1>16
<1>18. \A d : Has(Chain(t), d)' <=> Has(c, d) \/ d = e
  BY <1>16 DEF IsInserted
<1>19. DOMAIN functs' = DOMAIN functs
       /\ \A g \in DOMAIN functs : /\ g # f => functs'[g] = functs[g]
                                   /\ g = f => functs'[g] = [functs[f] EXCEPT !.users = @ + 1]
  BY <1>2
<1>20. PICK o \in 1 .. MaxUuid, n \in Nat : functs[f] = [owner |-> o, users |-> n]
  <2>1. functs[f] \in [owner : 1 .. MaxUuid, users : Nat]
    BY <1>4 DEF HalInv, TypeOK
  <2>2. QED
    BY <2>1
<1>21. functs'[f] = [owner |-> o, users |-> n + 1]
  BY <1>4, <1>19, <1>20
<1>22. TypeOK'
  <2>1. next' \in [Node -> Node] /\ prev' \in [Node -> Node]
    BY <1>2, <1>12, <1>13
  <2>2. functs'[f] \in [owner : 1 .. MaxUuid, users : Nat]
    BY <1>21
  <2>3. \A g \in DOMAIN functs' : functs'[g] \in [owner : 1 .. MaxUuid, users : Nat]
    BY <1>19, <2>2 DEF HalInv, TypeOK
  <2>4. DOMAIN functs' \subseteq Functs /\ mutex' \in BOOLEAN
    BY <1>2, <1>19 DEF HalInv, TypeOK
  <2>5. QED
    BY <1>2, <1>3, <2>1, <2>3, <2>4 DEF HalInv, TypeOK, walk
<1>23. ListsSound'
  BY <1>6, <1>16, Zenon DEF ListsSound
<1>24. FunctsSound'
  <2>1. FunctsSound
    BY DEF HalInv
  <2>2. \A g : Calls(funct, g, Pending)' = Calls(funct, g, {}) /\ Calls(funct, g, Pending) = Calls(funct, g, {e})
    BY <1>2, <1>5, <1>6, Zenon DEF Calls
  <2>3. \A g \in DOMAIN functs :
          functs[g].owner \in comps /\ functs[g].users = Cardinality(Calls(funct, g, {e}))
    BY <2>1, <2>2 DEF FunctsSound
  <2>4. ASSUME NEW g \in DOMAIN functs'
        PROVE  functs'[g].owner \in comps' /\ functs'[g].users = Cardinality(Calls(funct, g, Pending)')
    <3>1. CASE g = f
      <4>1. functs'[g].owner = o /\ functs'[g].users = n + 1 /\ functs[g].owner = o /\ functs[g].users = n
        BY <1>20, <1>21, <3>1
      <4>2. Cardinality(Calls(funct, g, {})) = Cardinality(Calls(funct, g, {e})) + 1
        BY <1>4, <3>1, OneMoreCall
      <4>3. functs[g].owner \in comps /\ functs[g].users = Cardinality(Calls(funct, g, {e}))
        BY <1>4, <2>3, <3>1, Zenon
      <4>4. functs'[g].users = Cardinality(Calls(funct, g, {}))
        BY <4>1, <4>2, <4>3, Zenon
      <4>5. Calls(funct, g, Pending)' = Calls(funct, g, {})
        BY <2>2, Zenon
      <4>6. functs'[g].owner \in comps'
        BY <1>2, <4>1, <4>3
      <4>7. QED
        BY <4>4, <4>5, <4>6, Zenon
    <3>2. CASE g # f
      <4>1. Calls(funct, g, {}) = Calls(funct, g, {e})
        BY <1>4, <3>2, OneMoreCall
      <4>2. QED
        BY <1>2, <1>19, <2>2, <2>3, <3>2, <4>1
    <3>3. QED
      BY <3>1, <3>2
  <2>5. \A d \in Entries : (funct'[d] = None) <=> Has(Chain(FreeRoot), d)'
    BY <1>2, <1>17, <2>1 DEF FunctsSound
  <2>6. QED
    BY <1>2, <1>19, <2>1, <2>4, <2>5 DEF FunctsSound
<1>25. ThreadsSound'
  <2>1. ASSUME NEW u \in Threads, NEW d \in Entries, Has(Chain(u), d)' PROVE Contains(thread_list, u)
    <3>1. u \in Roots
      BY RootsDiffer
    <3>2. CASE u = t
      BY <1>4, <3>2
    <3>3. CASE u # t
      BY <1>16, <2>1, <3>1, <3>3 DEF HalInv, ThreadsSound
    <3>4. QED
      BY <3>2, <3>3
  <2>2. QED
    BY <1>2, <1>3, <2>1 DEF HalInv, ThreadsSound, walk
<1>26. WalkSound'
  <2>1. ASSUME NEW u \in Threads PROVE WalkOf(u)'
    <3>1. WalkOf(u)
      BY DEF HalInv, WalkSound
    <3>2. CASE u # t
      <4>1. u \in Roots
        BY RootsDiffer
      <4>2. Chain(u)' = Chain(u)
        BY <1>16, <3>2, <4>1
      <4>3. QED
        BY <1>2, <1>3, <3>1, <4>2, PassKept DEF walk
    <3>3. CASE u = t
      <4>1. PICK v : v = Chain(t)'
        OBVIOUS
      <4>2. PICK m \in 1 .. Len(c) + 1 : m = k + 1 /\ IsInserted(v, c, m, e)
        BY <1>16, <4>1
      <4>3. \A p, w, l : InPass(c, p, w, l) => InPass(v, p, w, l)
        BY <1>4, <1>10, <4>2, PassInserted, Zenon
      <4>4. \A p, w, l : InPass(Chain(t), p, w, l) => InPass(Chain(t)', p, w, l)
        BY <1>9, <4>1, <4>3, Zenon
      <4>5. QED
        BY <1>2, <1>3, <3>1, <3>3, <4>4 DEF WalkOf, walk
    <3>4. QED
      BY <3>2, <3>3
  <2>2. QED
    BY <1>3, <2>1 DEF HalInv, WalkSound, walk
<1>27. QED
  BY <1>6, <1>22, <1>23, <1>24, <1>25, <1>26 DEF HalInv

(* What hal_exit unlinks next is in the list of a thread.                     *)
LEMMA ExitFinds ==
  ASSUME HalInv, client.op = "exit", client.stage = "linked", InUse(client.id) # {}
  PROVE  \E t \in Threads : \E k \in 1 .. Len(Chain(t)) : NextOfExit(client.id) = Chain(t)[k]
<1>1. PICK id : id = client.id
  OBVIOUS
<1>2. PICK f : f = CHOOSE g \in InUse(id) : TRUE
  OBVIOUS
<1>3. f \in InUse(id)
  BY <1>1, <1>2
<1>4. f \in DOMAIN functs /\ functs[f].users > 0 /\ f # None
  BY <1>3, RootsDiffer DEF InUse, HalInv, TypeOK
<1>5. Pending = {} /\ Freeing = {} /\ Pending \cup Freeing = {}
  BY HandEmpty
<1>6. functs[f].users = Cardinality(Calls(funct, f, {}))
  BY <1>4, <1>5 DEF HalInv, FunctsSound
<1>7. Calls(funct, f, {}) # {}
  <2>1. Cardinality(Calls(funct, f, {})) # 0
    BY <1>4, <1>6
  <2>2. QED
    BY <2>1, CallsCounted, Zenon
<1>8. PICK e \in Entries : funct[e] = f
  BY <1>7 DEF Calls
<1>9. ChainsAre({})
  BY <1>5, HandFacts, Zenon
<1>10. PICK r \in Roots : Has(Chain(r), e)
  BY <1>9, Zenon DEF ChainsAre
<1>11. r \in Threads
  <2>1. ~Has(Chain(FreeRoot), e)
    BY <1>4, <1>8 DEF HalInv, FunctsSound
  <2>2. QED
    BY <1>10, <2>1 DEF Roots
<1>12. \A t \in Threads : Chain(t) \in Seq(Entries)
  BY <1>9, RootsDiffer, Zenon DEF ChainsAre
<1>13. Uses(f, r) /\ Contains(thread_list, r)
  <2>1. e \in Linked(r)
    BY <1>10, <1>11, <1>12, LinkedHas
  <2>2. QED
    BY <1>8, <1>10, <1>11, <2>1 DEF Uses, HalInv, ThreadsSound
<1>14. PICK u \in Threads : u = FirstUser(f) /\ Uses(f, u)
  <2>1. thread_list \in Seq(Threads)
    BY DEF HalInv, TypeOK
  <2>2. QED
    BY <1>11, <1>13, <2>1, FirstThreadFound, Zenon
<1>15. NextOfExit(id) = FirstUse(f, u)
  BY <1>2, <1>14, Zenon DEF NextOfExit
<1>16. \E k \in 1 .. Len(Chain(u)) : FirstUse(f, u) = Chain(u)[k]
  BY <1>12, <1>14, FirstUseFound, Zenon
<1>17. QED
  BY <1>1, <1>15, <1>16, Zenon

(* Detach: an entry leaves the list of its thread.  A pass of that thread     *)
(* that is under way is marked.                                               *)
LEMMA DetachKeeps ==
  ASSUME HalInv, Detach
  PROVE  HalInv'
<1>1. PICK e : e = IF client.op = "del" THEN client.entry ELSE NextOfExit(client.id)
  OBVIOUS
<1>2. /\ Unlinking /\ client.stage = "linked"
      /\ next' = [next EXCEPT ![prev[e]] = next[e], ![e] = e]
      /\ prev' = [prev EXCEPT ![next[e]] = prev[e], ![e] = e]
      /\ client' = [client EXCEPT !.entry = e, !.stage = "detached"]
      /\ dirty' = [t \in Threads |-> dirty[t] \/ (e \in Linked(t) /\ phase[t] = "call")]
      /\ linked' = [t \in Threads |-> linked[t] \ {e}]
      /\ UNCHANGED <<threads_running, funct, mutex, phase, pos, running, walked>>
  BY <1>1, Zenon DEF Detach
<1>3. UNCHANGED <<uuid, comps, ready, functs, thread_list>>
  BY DEF Detach, registry
<1>4. client.op \in {"del", "exit"} /\ (client.op = "exit" => InUse(client.id) # {})
  BY <1>2 DEF Unlinking
<1>5. Pending = {} /\ Freeing = {} /\ Pending \cup Freeing = {}
  BY <1>2, <1>4, HandEmpty
<1>6. Layout(next, prev, Chains, {}) /\ ChainsAre({})
  <2>1. Layout(next, prev, Chains, Pending \cup Freeing)
    BY Zenon DEF HalInv, ListsSound
  <2>2. QED
    BY <1>5, <2>1, LayoutFacts, Zenon
<1>7. PICK t \in Threads : \E k \in 1 .. Len(Chain(t)) : e = Chain(t)[k]
  <2>1. CASE client.op = "del"
    <3>1. \E t \in Threads : Has(Chain(t), e)
      BY <1>1, <1>2, <2>1 DEF HalInv, ClientSound
    <3>2. PICK t \in Threads : Has(Chain(t), e)
      BY <3>1
    <3>3. QED
      BY <3>2, Zenon DEF Has
  <2>2. CASE client.op = "exit"
    <3>1. e = NextOfExit(client.id)
      BY <1>1, <2>2
    <3>2. QED
      BY <1>2, <1>4, <2>2, <3>1, ExitFinds
  <2>3. QED
    BY <1>4, <2>1, <2>2
<1>8. PICK c : c = Chain(t)
  OBVIOUS
<1>9. PICK k \in 1 .. Len(c) : e = c[k]
  BY <1>7, <1>8
<1>10. t \in Roots /\ FreeRoot \in Roots /\ t # FreeRoot /\ Entries \subseteq Node
  BY <1>7, RootsDiffer
<1>11. c \in Seq(Entries) /\ Len(c) \in Nat /\ Has(c, e)
  <2>1. c \in Seq(Entries) /\ Len(c) \in Nat
    BY <1>6, <1>8, <1>10, Zenon DEF ChainsAre
  <2>2. QED
    BY <1>9, <2>1 DEF Has
<1>12. e \in Entries /\ funct[e] # None /\ ~Has(Chain(FreeRoot), e)
  BY <1>7, <1>8, <1>11, LinkedCalls
<1>13. next \in [Node -> Node] /\ prev \in [Node -> Node]
  BY DEF HalInv, TypeOK
<1>14. PICK a \in Node, b \in Node : a = prev[e] /\ b = next[e]
  BY <1>10, <1>12, <1>13
<1>15. next' = [next EXCEPT ![a] = b, ![e] = e] /\ prev' = [prev EXCEPT ![b] = a, ![e] = e]
  BY <1>2, <1>14, Zenon
<1>16. LinksOut(next, prev, next', prev', e, prev[e], next[e])
  <2>1. \A n \in Node \ {e} : next'[n] = IF n = a THEN b ELSE next[n]
    BY <1>13, <1>15
  <2>2. \A n \in Node \ {e} : prev'[n] = IF n = b THEN a ELSE prev[n]
    BY <1>13, <1>15
  <2>3. QED
    BY <1>14, <2>1, <2>2, Zenon DEF LinksOut
<1>17. /\ Layout(next', prev', Chains', {e})
       /\ IsRemoved(Chain(t)', c, k)
       /\ \A q \in Roots : q # t => Chain(q)' = Chain(q)
  BY <1>6, <1>8, <1>9, <1>10, <1>16, StepRemoves, Zenon
<1>18. Chain(FreeRoot)' = Chain(FreeRoot)
  BY <1>10, <1>17
<1>19. \A d : Has(Chain(t), d)' <=> Has(c, d) /\ d # e
  BY <1>9, <1>17 DEF IsRemoved
<1>20. /\ client'.op = client.op /\ client'.entry = e /\ client'.stage = "detached"
       /\ client.op = "exit" => client'.id = client.id
       /\ client' \in [op : {"del"}, entry : Entries \cup {None}, stage : {"linked", "detached", "done"}]
              \cup [op : {"exit"}, id : 1 .. MaxUuid, entry : Entries \cup {None},
                    stage : {"linked", "detached"}]
  <2>1. client \in [op : {"del"}, entry : Entries \cup {None}, stage : {"linked", "detached", "done"}]
              \cup [op : {"exit"}, id : 1 .. MaxUuid, entry : Entries \cup {None},
                    stage : {"linked", "detached"}]
    BY <1>4 DEF HalInv, ClientSound, Idle
  <2>2. CASE client.op = "del"
    <3>1. PICK x \in Entries \cup {None} : client = [op |-> "del", entry |-> x, stage |-> "linked"]
      BY <1>2, <2>1, <2>2
    <3>2. client' = [op |-> "del", entry |-> e, stage |-> "detached"]
      BY <1>2, <3>1
    <3>3. QED
      BY <1>12, <2>2, <3>1, <3>2
  <2>3. CASE client.op = "exit"
    <3>1. PICK i \in 1 .. MaxUuid, x \in Entries \cup {None} :
                 client = [op |-> "exit", id |-> i, entry |-> x, stage |-> "linked"]
      BY <1>2, <2>1, <2>3
    <3>2. client' = [op |-> "exit", id |-> i, entry |-> e, stage |-> "detached"]
      BY <1>2, <3>1
    <3>3. QED
      BY <1>12, <2>3, <3>1, <3>2
  <2>4. QED
    BY <1>4, <2>2, <2>3
<1>21. Pending' = {} /\ Freeing' = {e} /\ (Pending \cup Freeing)' = {e}
  BY <1>4, <1>20 DEF Pending, Freeing
<1>22. TypeOK'
  <2>1. next' \in [Node -> Node] /\ prev' \in [Node -> Node]
    BY <1>10, <1>12, <1>13, <1>14, <1>15
  <2>2. dirty' \in [Threads -> BOOLEAN]
    <3>1. dirty \in [Threads -> BOOLEAN]
      BY DEF HalInv, TypeOK
    <3>2. \A u \in Threads : (dirty[u] \/ (e \in Linked(u) /\ phase[u] = "call")) \in BOOLEAN
      BY Zenon
    <3>3. QED
      BY <1>2, <3>2
  <2>3. QED
    BY <1>2, <1>3, <2>1, <2>2 DEF HalInv, TypeOK
<1>23. ListsSound'
  BY <1>17, <1>21, Zenon DEF ListsSound
<1>24. FunctsSound'
  <2>1. FunctsSound
    BY DEF HalInv
  <2>2. \A g : Calls(funct, g, Pending)' = Calls(funct, g, Pending)
    BY <1>2, <1>5, <1>21, Zenon DEF Calls
  <2>3. \A g \in DOMAIN functs' :
          functs'[g].owner \in comps' /\ functs'[g].users = Cardinality(Calls(funct, g, Pending)')
    BY <1>3, <2>1, <2>2 DEF FunctsSound
  <2>4. \A d \in Entries : (funct'[d] = None) <=> Has(Chain(FreeRoot), d)'
    BY <1>2, <1>18, <2>1 DEF FunctsSound
  <2>5. QED
    BY <1>2, <1>3, <2>1, <2>3, <2>4 DEF FunctsSound
<1>25. ThreadsSound'
  <2>1. ASSUME NEW u \in Threads, NEW d \in Entries, Has(Chain(u), d)' PROVE Has(Chain(u), d)
    <3>1. u \in Roots
      BY RootsDiffer
    <3>2. QED
      BY <1>8, <1>17, <1>19, <2>1, <3>1
  <2>2. QED
    BY <1>2, <1>3, <2>1 DEF HalInv, ThreadsSound
<1>26. ClientSound'
  <2>1. AddSound'
    BY <1>4, <1>20 DEF AddSound
  <2>2. funct'[e] # None
    BY <1>2, <1>12
  <2>3. client.op = "exit" => client'.id \in comps'
    BY <1>3, <1>20 DEF HalInv, ClientSound
  <2>4. QED
    BY <1>4, <1>12, <1>20, <2>1, <2>2, <2>3 DEF ClientSound
<1>27. WalkSound'
  <2>1. ASSUME NEW u \in Threads PROVE WalkOf(u)'
    <3>1. WalkOf(u)
      BY DEF HalInv, WalkSound
    <3>2. dirty'[u] <=> (dirty[u] \/ (e \in Linked(u) /\ phase[u] = "call"))
      BY <1>2, Zenon
    <3>3. linked'[u] = linked[u] \ {e}
      BY <1>2
    <3>4. CASE u = t
      <4>1. e \in Linked(u)
        BY <1>8, <1>11, <3>4, LinkedHas
      <4>2. ~dirty'[u] => ~dirty[u] /\ phase[u] # "call"
        BY <3>2, <4>1
      <4>3. QED
        BY <1>2, <3>1, <4>2 DEF WalkOf
    <3>5. CASE u # t
      <4>1. u \in Roots
        BY RootsDiffer
      <4>2. Chain(u)' = Chain(u)
        BY <1>17, <3>5, <4>1
      <4>3. InPass(Chain(u), pos[u], walked[u], linked[u]) => InPass(Chain(u), pos[u], walked[u], linked[u] \ {e})
        <5>1. linked[u] \ {e} \subseteq linked[u]
          OBVIOUS
        <5>2. QED
          BY <5>1, PassWithLess, Zenon
      <4>4. ~dirty'[u] => ~dirty[u]
        BY <3>2
      <4>5. QED
        BY <1>2, <3>1, <3>3, <4>2, <4>3, <4>4 DEF WalkOf
    <3>6. QED
      BY <3>4, <3>5
  <2>2. DOMAIN walked' = Threads /\ DOMAIN linked' = Threads
    BY <1>2 DEF HalInv, WalkSound
  <2>3. QED
    BY <2>1, <2>2 DEF WalkSound
<1>28. QED
  BY <1>22, <1>23, <1>24, <1>25, <1>26, <1>27 DEF HalInv

(* free_funct_entry_struct: the entry in hand goes to the free list, cleared, *)
(* and its function no longer counts it.                                      *)
LEMMA FreeEntryKeeps ==
  ASSUME HalInv, free_funct_entry_struct
  PROVE  HalInv'
<1>1. PICK e : e = client.entry
  OBVIOUS
<1>2. PICK f : f = funct[e]
  OBVIOUS
<1>3. /\ Unlinking /\ client.stage = "detached"
      /\ functs' = [functs EXCEPT ![f].users = @ - 1]
      /\ funct' = [funct EXCEPT ![e] = None]
      /\ next' = [next EXCEPT ![e] = next[FreeRoot], ![FreeRoot] = e]
      /\ prev' = [prev EXCEPT ![e] = FreeRoot, ![next[FreeRoot]] = e]
      /\ client' = [client EXCEPT !.entry = None,
                                  !.stage = IF client.op = "del" THEN "done" ELSE "linked"]
      /\ UNCHANGED <<uuid, comps, ready, thread_list, threads_running, mutex>>
  BY <1>1, <1>2, Zenon DEF free_funct_entry_struct
<1>4. UNCHANGED walk
  BY DEF free_funct_entry_struct
<1>5. client.op \in {"del", "exit"}
  BY <1>3 DEF Unlinking
<1>6. Pending = {} /\ Freeing = {e} /\ Pending \cup Freeing = {e}
  BY <1>1, <1>3, <1>5 DEF Pending, Freeing
<1>7. e \in Entries /\ f # None /\ f \in DOMAIN functs
  BY <1>1, <1>2, <1>3, <1>5 DEF HalInv, ClientSound, FunctsSound
<1>8. Layout(next, prev, Chains, {e}) /\ ChainsAre({e})
  <2>1. Layout(next, prev, Chains, Pending \cup Freeing)
    BY Zenon DEF HalInv, ListsSound
  <2>2. QED
    BY <1>6, <2>1, LayoutFacts, Zenon
<1>9. /\ FreeRoot \in Roots /\ FreeRoot \in Node /\ e \in Node /\ e # FreeRoot
      /\ \A t \in Threads : t \in Roots /\ t # FreeRoot
  BY <1>7, RootsDiffer
<1>10. PICK free : free = Chain(FreeRoot)
  OBVIOUS
<1>11. Ring(next, prev, FreeRoot, free) /\ free \in Seq(Entries) /\ Len(free) \in Nat /\ ~Has(free, e)
  BY <1>8, <1>9, <1>10, Zenon DEF ChainsAre
<1>12. 0 \in 0 .. Len(free) /\ FreeRoot = Place(FreeRoot, free, 0)
  BY <1>11 DEF Place
<1>13. next \in [Node -> Node] /\ prev \in [Node -> Node] /\ funct \in [Entries -> Functs \cup {None}]
  BY DEF HalInv, TypeOK
<1>14. PICK b \in Node : b = next[FreeRoot]
  BY <1>9, <1>13
<1>15. b # e
  <2>1. b = Place(FreeRoot, free, After(free, 0))
    BY <1>11, <1>12, <1>14 DEF Ring
  <2>2. After(free, 0) \in 0 .. Len(free)
    BY <1>11 DEF After
  <2>3. QED
    BY <1>7, <1>9, <1>11, <2>1, <2>2, NotPlaced
<1>16. LinksIn(next, prev, next', prev', e, FreeRoot, next[FreeRoot])
  <2>1. next' = [next EXCEPT ![e] = b, ![FreeRoot] = e] /\ prev' = [prev EXCEPT ![e] = FreeRoot, ![b] = e]
    BY <1>3, <1>14, Zenon
  <2>2. \A n \in Node : next'[n] = IF n = FreeRoot THEN e ELSE IF n = e THEN b ELSE next[n]
    BY <1>9, <1>13, <2>1
  <2>3. \A n \in Node : prev'[n] = IF n = b THEN e ELSE IF n = e THEN FreeRoot ELSE prev[n]
    BY <1>13, <1>15, <2>1
  <2>4. QED
    BY <1>14, <2>2, <2>3, Zenon DEF LinksIn
<1>17. /\ Layout(next', prev', Chains', {})
       /\ IsInserted(Chain(FreeRoot)', free, 0 + 1, e)
       /\ \A q \in Roots : q # FreeRoot => Chain(q)' = Chain(q)
  BY <1>7, <1>8, <1>9, <1>10, <1>12, <1>16, StepInserts, Zenon
<1>18. \A d : Has(Chain(FreeRoot), d)' <=> Has(free, d) \/ d = e
  BY <1>17 DEF IsInserted
<1>19. \A u \in Threads : Chain(u)' = Chain(u) /\ ~Has(Chain(u), e)
  BY <1>8, <1>9, <1>17, Zenon DEF ChainsAre
<1>20. funct'[e] = None /\ \A d \in Entries : d # e => funct'[d] = funct[d]
  BY <1>3, <1>7, <1>13
<1>21. DOMAIN functs' = DOMAIN functs
       /\ \A g \in DOMAIN functs : /\ g # f => functs'[g] = functs[g]
                                   /\ g = f => functs'[g] = [functs[f] EXCEPT !.users = @ - 1]
  BY <1>3
<1>22. PICK o \in 1 .. MaxUuid, n \in Nat : functs[f] = [owner |-> o, users |-> n]
  <2>1. functs[f] \in [owner : 1 .. MaxUuid, users : Nat]
    BY <1>7 DEF HalInv, TypeOK
  <2>2. QED
    BY <2>1
<1>23. functs'[f] = [owner |-> o, users |-> n - 1]
  BY <1>7, <1>21, <1>22
<1>24. PICK N \in Nat : N = Cardinality(Calls(funct, f, {e}))
  BY CallsCounted
<1>25. n = N + 1
  <2>1. n = Cardinality(Calls(funct, f, {}))
    <3>1. functs[f].users = n
      BY <1>22
    <3>2. functs[f].users = Cardinality(Calls(funct, f, {}))
      BY <1>6, <1>7 DEF HalInv, FunctsSound
    <3>3. QED
      BY <3>1, <3>2
  <2>2. Cardinality(Calls(funct, f, {})) = Cardinality(Calls(funct, f, {e})) + 1
    BY <1>2, <1>7, OneMoreCall
  <2>3. QED
    BY <1>24, <2>1, <2>2
<1>26. /\ client'.op = client.op /\ client'.stage \in {"done", "linked"}
       /\ client.op = "exit" => client'.id = client.id
       /\ client.op = "del" => client'.stage = "done"
       /\ client' \in [op : {"del"}, entry : Entries \cup {None}, stage : {"linked", "detached", "done"}]
              \cup [op : {"exit"}, id : 1 .. MaxUuid, entry : Entries \cup {None},
                    stage : {"linked", "detached"}]
  <2>1. client \in [op : {"del"}, entry : Entries \cup {None}, stage : {"linked", "detached", "done"}]
              \cup [op : {"exit"}, id : 1 .. MaxUuid, entry : Entries \cup {None},
                    stage : {"linked", "detached"}]
    BY <1>5 DEF HalInv, ClientSound, Idle
  <2>2. CASE client.op = "del"
    <3>1. PICK x \in Entries \cup {None} : client = [op |-> "del", entry |-> x, stage |-> "detached"]
      BY <1>3, <2>1, <2>2
    <3>2. client' = [op |-> "del", entry |-> None, stage |-> "done"]
      BY <1>3, <2>2, <3>1
    <3>3. QED
      BY <2>2, <3>1, <3>2
  <2>3. CASE client.op = "exit"
    <3>1. PICK i \in 1 .. MaxUuid, x \in Entries \cup {None} :
                 client = [op |-> "exit", id |-> i, entry |-> x, stage |-> "detached"]
      BY <1>3, <2>1, <2>3
    <3>2. client' = [op |-> "exit", id |-> i, entry |-> None, stage |-> "linked"]
      BY <1>3, <2>3, <3>1
    <3>3. QED
      BY <2>3, <3>1, <3>2
  <2>4. QED
    BY <1>5, <2>2, <2>3
<1>27. Pending' = {} /\ (Pending \cup Freeing)' = {}
  BY <1>5, <1>26, HandEmptied
<1>28. TypeOK'
  <2>1. next' \in [Node -> Node] /\ prev' \in [Node -> Node]
    <3>1. next' = [next EXCEPT ![e] = b, ![FreeRoot] = e] /\ prev' = [prev EXCEPT ![e] = FreeRoot, ![b] = e]
      BY <1>3, <1>14, Zenon
    <3>2. QED
      BY <1>9, <1>13, <3>1
  <2>2. functs'[f] \in [owner : 1 .. MaxUuid, users : Nat]
    <3>1. n - 1 \in Nat
      BY <1>25
    <3>2. QED
      BY <1>23, <3>1
  <2>3. \A g \in DOMAIN functs' : functs'[g] \in [owner : 1 .. MaxUuid, users : Nat]
    BY <1>21, <2>2 DEF HalInv, TypeOK
  <2>4. DOMAIN functs' \subseteq Functs /\ funct' \in [Entries -> Functs \cup {None}]
    BY <1>3, <1>13, <1>21 DEF HalInv, TypeOK
  <2>5. QED
    BY <1>3, <1>4, <2>1, <2>3, <2>4 DEF HalInv, TypeOK, walk
<1>29. ListsSound'
  BY <1>17, <1>27, Zenon DEF ListsSound
<1>30. FunctsSound'
  <2>1. FunctsSound
    BY DEF HalInv
  <2>2. \A g : Calls(funct, g, Pending)' = Calls(funct', g, {}) /\ Calls(funct, g, Pending) = Calls(funct, g, {})
    BY <1>6, <1>27, Zenon DEF Calls
  <2>3. \A g \in DOMAIN functs :
          functs[g].owner \in comps /\ functs[g].users = Cardinality(Calls(funct, g, {}))
    BY <2>1, <2>2 DEF FunctsSound
  <2>4. \A g \in DOMAIN functs : Calls(funct', g, {}) = Calls(funct, g, {e})
    <3>1. \A g \in DOMAIN functs : g # None
      BY RootsDiffer DEF HalInv, TypeOK
    <3>2. QED
      BY <1>20, <3>1 DEF Calls
  <2>5. ASSUME NEW g \in DOMAIN functs'
        PROVE  functs'[g].owner \in comps' /\ functs'[g].users = Cardinality(Calls(funct, g, Pending)')
    <3>1. g \in DOMAIN functs
      BY <1>21
    <3>2. Calls(funct, g, Pending)' = Calls(funct, g, {e})
      BY <2>2, <2>4, <3>1, Zenon
    <3>3. CASE g = f
      <4>1. functs'[g].owner = o /\ functs'[g].users = n - 1 /\ functs[g].owner = o
        BY <1>22, <1>23, <3>3
      <4>2. n - 1 = N
        BY <1>25
      <4>3. functs'[g].users = Cardinality(Calls(funct, g, {e}))
        BY <1>24, <3>3, <4>1, <4>2, Zenon
      <4>4. functs'[g].owner \in comps'
        BY <1>3, <2>3, <3>1, <4>1
      <4>5. QED
        BY <3>2, <4>3, <4>4, Zenon
    <3>4. CASE g # f
      <4>1. Calls(funct, g, {}) = Calls(funct, g, {e})
        BY <1>2, <1>7, <3>4, OneMoreCall
      <4>2. functs'[g] = functs[g]
        BY <1>21, <3>1, <3>4
      <4>3. functs'[g].users = Cardinality(Calls(funct, g, {e}))
        BY <2>3, <3>1, <4>1, <4>2, Zenon
      <4>4. functs'[g].owner \in comps'
        BY <1>3, <2>3, <3>1, <4>2
      <4>5. QED
        BY <3>2, <4>3, <4>4, Zenon
    <3>5. QED
      BY <3>3, <3>4
  <2>6. \A d \in Entries : (funct'[d] = None) <=> Has(Chain(FreeRoot), d)'
    BY <1>10, <1>18, <1>20, <2>1 DEF FunctsSound
  <2>7. \A d \in Entries : funct'[d] # None => d # e /\ funct'[d] = funct[d]
    BY <1>20
  <2>8. QED
    BY <1>21, <2>1, <2>5, <2>6, <2>7 DEF FunctsSound
<1>31. ThreadsSound'
  BY <1>3, <1>4, <1>19 DEF HalInv, ThreadsSound, walk
<1>32. ClientSound'
  <2>1. AddSound'
    BY <1>5, <1>26 DEF AddSound
  <2>2. client.op = "exit" => client'.id \in comps'
    BY <1>3, <1>26 DEF HalInv, ClientSound
  <2>3. QED
    BY <1>5, <1>26, <2>1, <2>2 DEF ClientSound
<1>33. WalkSound'
  <2>1. ASSUME NEW u \in Threads PROVE WalkOf(u)'
    <3>1. \A d \in Entries : Has(Chain(u), d) => funct'[d] = funct[d]
      BY <1>19, <1>20
    <3>2. QED
      BY <1>4, <1>19, <3>1, PassKept DEF HalInv, WalkSound, walk
  <2>2. QED
    BY <1>4, <2>1 DEF HalInv, WalkSound, walk
<1>34. QED
  BY <1>28, <1>29, <1>30, <1>31, <1>32, <1>33 DEF HalInv

------------------------------------------------------------------------------
(* The steps of thread_task.                                                  *)

(* A call in progress, when the links, functions and threads are the same.    *)
LEMMA ClientKept ==
  ASSUME ClientSound, UNCHANGED <<next, prev, funct, functs, comps, thread_list, client>>
  PROVE  ClientSound' /\ Pending' = Pending /\ (Pending \cup Freeing)' = Pending \cup Freeing
<1>1. \A r : Chain(r)' = Chain(r)
  BY SameLists, Zenon
<1>2. AddSound'
  BY <1>1 DEF ClientSound, AddSound
<1>3. ClientSound'
  BY <1>1, <1>2 DEF ClientSound
<1>4. Pending' = Pending /\ Freeing' = Freeing
  BY DEF Pending, Freeing
<1>5. QED
  BY <1>3, <1>4

(* A thread goes on to the node n.                                            *)
Entered(t, n) ==
  /\ pos'[t] = n
  /\ n = t => phase'[t] = "wait" /\ running'[t] = None /\ walked'[t] = <<>>
  /\ n # t /\ (n \in Entries => funct[n] = None) => phase'[t] = "crashed"
  /\ n \in Entries /\ funct[n] # None => phase'[t] = "call" /\ running'[t] = funct[n]
  /\ n # t /\ ~dirty[t] => walked'[t] = Append(walked[t], n)
  /\ \A u \in Threads : u # t => /\ pos'[u] = pos[u] /\ phase'[u] = phase[u]
                                 /\ running'[u] = running[u] /\ walked'[u] = walked[u]

(* That is what it does, and what the other conjuncts need.                   *)
LEMMA EnterKeeps ==
  ASSUME HalInv, NEW t \in Threads, phase[t] \in {"wait", "call"}, NEW n \in Node, Enter(t, n),
         dirty' \in [Threads -> BOOLEAN]
  PROVE  /\ TypeOK' /\ ListsSound' /\ FunctsSound' /\ ThreadsSound' /\ ClientSound'
         /\ Entered(t, n) /\ DOMAIN walked' = Threads
         /\ UNCHANGED <<next, prev, funct>> /\ \A r : Chain(r)' = Chain(r)
<1>1. PICK f : f = IF n \in Entries THEN funct[n] ELSE None
  OBVIOUS
<1>2. /\ pos' = [pos EXCEPT ![t] = n]
      /\ phase' = [phase EXCEPT ![t] = IF n = t THEN "wait"
                                       ELSE IF f = None THEN "crashed" ELSE "call"]
      /\ running' = [running EXCEPT ![t] = f]
      /\ walked' = [walked EXCEPT ![t] = IF n = t \/ dirty[t] THEN <<>> ELSE Append(@, n)]
      /\ UNCHANGED <<registry, threads_running, lists, mutex, client>>
  BY <1>1, Zenon DEF Enter
<1>3. UNCHANGED <<uuid, comps, ready, functs, thread_list, threads_running, next, prev, funct, mutex, client>>
  BY <1>2 DEF registry, lists
<1>4. /\ pos \in [Threads -> Node] /\ phase \in [Threads -> {"none", "wait", "call", "crashed"}]
      /\ running \in [Threads -> Functs \cup {None}] /\ DOMAIN walked = Threads
      /\ funct \in [Entries -> Functs \cup {None}]
  BY DEF HalInv, TypeOK, WalkSound
<1>5. t \notin Entries
  BY RootsDiffer
<1>6. f \in Functs \cup {None} /\ (n = t => f = None)
  BY <1>1, <1>4, <1>5
<1>7. PICK x : x = IF n = t THEN "wait" ELSE IF f = None THEN "crashed" ELSE "call"
  OBVIOUS
<1>8. PICK w : w = IF n = t \/ dirty[t] THEN <<>> ELSE Append(walked[t], n)
  OBVIOUS
<1>9. x \in {"wait", "crashed", "call"} /\ (n = t => x = "wait")
      /\ (n # t /\ f = None => x = "crashed") /\ (n # t /\ f # None => x = "call")
  BY <1>7
<1>10. (n = t => w = <<>>) /\ (n # t /\ ~dirty[t] => w = Append(walked[t], n))
  BY <1>8, Zenon
<1>11. phase' = [phase EXCEPT ![t] = x] /\ walked' = [walked EXCEPT ![t] = w]
  BY <1>2, <1>7, <1>8, Zenon
<1>12. /\ pos'[t] = n /\ phase'[t] = x /\ running'[t] = f /\ walked'[t] = w
       /\ DOMAIN walked' = Threads
       /\ \A u \in Threads : u # t => /\ pos'[u] = pos[u] /\ phase'[u] = phase[u]
                                      /\ running'[u] = running[u] /\ walked'[u] = walked[u]
  BY <1>2, <1>4, <1>11
<1>13. Entered(t, n)
  <2>1. n = t => phase'[t] = "wait" /\ running'[t] = None /\ walked'[t] = <<>>
    BY <1>6, <1>9, <1>10, <1>12, Zenon
  <2>2. n # t /\ (n \in Entries => funct[n] = None) => phase'[t] = "crashed"
    BY <1>1, <1>9, <1>12
  <2>3. n \in Entries /\ funct[n] # None => phase'[t] = "call" /\ running'[t] = funct[n]
    BY <1>1, <1>5, <1>9, <1>12
  <2>4. n # t /\ ~dirty[t] => walked'[t] = Append(walked[t], n)
    BY <1>10, <1>12, Zenon
  <2>5. QED
    BY <1>12, <2>1, <2>2, <2>3, <2>4, Zenon DEF Entered
<1>14. TypeOK'
  <2>1. /\ pos' \in [Threads -> Node] /\ phase' \in [Threads -> {"none", "wait", "call", "crashed"}]
        /\ running' \in [Threads -> Functs \cup {None}]
    BY <1>2, <1>4, <1>6, <1>9, <1>11
  <2>2. QED
    BY <1>3, <2>1 DEF HalInv, TypeOK
<1>15. \A r : Chain(r)' = Chain(r)
  BY <1>3, SameLists, Zenon
<1>16. ThreadsSound'
  <2>1. \A u \in Threads : phase'[u] = "none" <=> phase[u] = "none"
    BY <1>9, <1>12
  <2>2. QED
    BY <1>3, <1>15, <2>1 DEF HalInv, ThreadsSound
<1>17. ClientSound' /\ Pending' = Pending /\ (Pending \cup Freeing)' = Pending \cup Freeing
  BY <1>3, ClientKept DEF HalInv
<1>18. ListsSound' /\ FunctsSound'
  BY <1>3, <1>17, ListsKept, FunctsKept DEF HalInv
<1>19. QED
  BY <1>3, <1>12, <1>13, <1>14, <1>15, <1>16, <1>17, <1>18

(* The other threads stay in their passes.                                    *)
LEMMA OthersStay ==
  ASSUME HalInv, NEW t \in Threads, NEW n, Entered(t, n),
         UNCHANGED funct, \A r : Chain(r)' = Chain(r),
         NEW u \in Threads, u # t, linked'[u] = linked[u], dirty'[u] = dirty[u]
  PROVE  WalkOf(u)'
<1>1. WalkOf(u)
  BY DEF HalInv, WalkSound
<1>2. pos'[u] = pos[u] /\ phase'[u] = phase[u] /\ running'[u] = running[u] /\ walked'[u] = walked[u]
  BY DEF Entered
<1>3. QED
  BY <1>1, <1>2 DEF WalkOf

(* The links of a thread's list.                                              *)
LEMMA ThreadRing ==
  ASSUME HalInv, NEW t \in Threads
  PROVE  /\ t \in Roots /\ t \notin Entries
         /\ Ring(next, prev, t, Chain(t))
         /\ Chain(t) \in Seq(Entries) /\ Len(Chain(t)) \in Nat /\ Distinct(Chain(t))
BY HandFacts, RootsDiffer DEF ChainsAre

(* A pass begins: if there was no unlinking, with the first entry of the list.*)
LEMMA BeginKeeps ==
  ASSUME HalInv, NEW t \in Threads, BeginPass(t)
  PROVE  HalInv'
<1>1. PICK n : n = next[t]
  OBVIOUS
<1>2. /\ phase[t] = "wait" /\ n # t /\ Enter(t, n)
      /\ linked' = [linked EXCEPT ![t] = Linked(t)] /\ dirty' = dirty
  BY <1>1 DEF BeginPass
<1>3. n \in Node /\ DOMAIN linked = Threads /\ dirty \in [Threads -> BOOLEAN]
  BY <1>1, RootsDiffer DEF HalInv, TypeOK, WalkSound
<1>4. /\ TypeOK' /\ ListsSound' /\ FunctsSound' /\ ThreadsSound' /\ ClientSound'
      /\ Entered(t, n) /\ DOMAIN walked' = Threads
      /\ UNCHANGED <<next, prev, funct>> /\ \A r : Chain(r)' = Chain(r)
  BY <1>2, <1>3, EnterKeeps
<1>5. DOMAIN linked' = Threads /\ linked'[t] = Linked(t) /\ \A u \in Threads : u # t => linked'[u] = linked[u]
  BY <1>2, <1>3
<1>6. phase'[t] = "call" => n \in Entries
  BY <1>2, <1>4 DEF Entered
<1>7. ASSUME ~dirty[t]
      PROVE  /\ phase'[t] = "call" /\ running'[t] = funct[n]
             /\ InPass(Chain(t), n, walked'[t], linked'[t])
  <2>1. PICK c : c = Chain(t)
    OBVIOUS
  <2>2. /\ Ring(next, prev, t, c) /\ c \in Seq(Entries) /\ Len(c) \in Nat /\ t \notin Entries
    BY <2>1, ThreadRing
  <2>3. n = Place(t, c, After(c, 0))
    <3>1. \A i \in 0 .. Len(c) : next[Place(t, c, i)] = Place(t, c, After(c, i))
      BY <2>2 DEF Ring
    <3>2. 0 \in 0 .. Len(c) /\ Place(t, c, 0) = t
      BY <2>2 DEF Place
    <3>3. QED
      BY <1>1, <3>1, <3>2, Zenon
  <2>4. Len(c) # 0 /\ n = c[1]
    BY <1>2, <2>2, <2>3 DEF After, Place
  <2>5. Has(c, n)
    <3>1. 1 \in 1 .. Len(c)
      BY <2>2, <2>4
    <3>2. QED
      BY <2>4, <3>1 DEF Has
  <2>6. n \in Entries /\ funct[n] # None
    BY <2>1, <2>5, LinkedCalls
  <2>7. PICK w, l : w = walked[t] /\ l = Linked(t)
    OBVIOUS
  <2>8. w = <<>>
    BY <1>2, <1>7, <2>7 DEF HalInv, WalkSound, WalkOf
  <2>9. \A e \in l : Has(c, e)
    BY <2>1, <2>2, <2>7, LinkedHas, Zenon
  <2>10. InPass(c, c[1], Append(w, c[1]), l)
    BY <2>2, <2>4, <2>8, <2>9, PassBegins, Zenon
  <2>11. phase'[t] = "call" /\ running'[t] = funct[n] /\ walked'[t] = Append(walked[t], n)
    BY <1>2, <1>4, <1>7, <2>6 DEF Entered
  <2>12. InPass(Chain(t), n, walked'[t], linked'[t])
    BY <1>5, <2>1, <2>4, <2>7, <2>10, <2>11, Zenon
  <2>13. QED
    BY <2>11, <2>12
<1>8. WalkOf(t)'
  <2>1. pos'[t] = n /\ Chain(t)' = Chain(t) /\ funct' = funct /\ dirty' = dirty
    BY <1>2, <1>4 DEF Entered
  <2>2. QED
    BY <1>6, <1>7, <2>1 DEF WalkOf
<1>9. WalkSound'
  <2>1. ASSUME NEW u \in Threads, u # t PROVE WalkOf(u)'
    BY <1>2, <1>4, <1>5, <2>1, OthersStay
  <2>2. \A u \in Threads : WalkOf(u)'
    BY <1>8, <2>1, Zenon
  <2>3. QED
    BY <1>4, <1>5, <2>2 DEF WalkSound
<1>10. QED
  BY <1>4, <1>9 DEF HalInv

(* It goes on: if there was no unlinking, to the entry after the one it       *)
(* stands at, or from the last one back to the root.                          *)
LEMMA AdvanceKeeps ==
  ASSUME HalInv, NEW t \in Threads, Advance(t)
  PROVE  HalInv'
<1>1. PICK n : n = IF funct[pos[t]] = None THEN t ELSE next[pos[t]]
  OBVIOUS
<1>2. /\ phase[t] = "call" /\ Enter(t, n)
      /\ linked' = [linked EXCEPT ![t] = IF n = t THEN {} ELSE @]
      /\ dirty' = [dirty EXCEPT ![t] = n # t /\ @]
  BY <1>1, Zenon DEF Advance
<1>3. n \in Node /\ DOMAIN linked = Threads /\ dirty \in [Threads -> BOOLEAN]
  BY <1>1, RootsDiffer DEF HalInv, TypeOK, WalkSound
<1>4. dirty' \in [Threads -> BOOLEAN] /\ (dirty'[t] <=> (n # t /\ dirty[t]))
      /\ \A u \in Threads : u # t => dirty'[u] = dirty[u]
  <2>1. PICK x \in BOOLEAN : x = (n # t /\ dirty[t])
    BY Zenon
  <2>2. dirty' = [dirty EXCEPT ![t] = x]
    BY <1>2, <2>1, Zenon
  <2>3. dirty' \in [Threads -> BOOLEAN] /\ dirty'[t] = x /\ \A u \in Threads : u # t => dirty'[u] = dirty[u]
    BY <1>3, <2>2
  <2>4. QED
    BY <2>1, <2>3, Zenon
<1>5. /\ TypeOK' /\ ListsSound' /\ FunctsSound' /\ ThreadsSound' /\ ClientSound'
      /\ Entered(t, n) /\ DOMAIN walked' = Threads
      /\ UNCHANGED <<next, prev, funct>> /\ \A r : Chain(r)' = Chain(r)
  BY <1>2, <1>3, <1>4, EnterKeeps
<1>6. DOMAIN linked' = Threads /\ (n # t => linked'[t] = linked[t])
      /\ \A u \in Threads : u # t => linked'[u] = linked[u]
  BY <1>2, <1>3
<1>7. ASSUME ~dirty[t], n # t
      PROVE  /\ n \in Entries /\ phase'[t] = "call" /\ running'[t] = funct[n]
             /\ InPass(Chain(t), n, walked'[t], linked'[t])
  <2>1. PICK c, p, w, l : c = Chain(t) /\ p = pos[t] /\ w = walked[t] /\ l = linked[t]
    OBVIOUS
  <2>2. /\ Ring(next, prev, t, c) /\ c \in Seq(Entries) /\ Len(c) \in Nat /\ Distinct(c) /\ t \notin Entries
    BY <2>1, ThreadRing
  <2>3. InPass(c, p, w, l)
    BY <1>2, <1>7, <2>1 DEF HalInv, WalkSound, WalkOf
  <2>4. PICK k \in 1 .. Len(c) : StandsAt(c, p, w, l, k)
    BY <2>3, PassStands
  <2>5. c[k] = p /\ Has(c, p)
    BY <2>4 DEF StandsAt, Has
  <2>6. n = next[p]
    <3>1. funct[p] # None
      BY <2>1, <2>5, LinkedCalls
    <3>2. QED
      BY <1>1, <2>1, <3>1
  <2>7. n = Place(t, c, After(c, k))
    <3>1. \A i \in 0 .. Len(c) : next[Place(t, c, i)] = Place(t, c, After(c, i))
      BY <2>2 DEF Ring
    <3>2. k \in 0 .. Len(c) /\ Place(t, c, k) = p
      BY <2>2, <2>5 DEF Place
    <3>3. QED
      BY <2>6, <3>1, <3>2, Zenon
  <2>8. k # Len(c) /\ n = c[k + 1] /\ k + 1 \in 1 .. Len(c)
    BY <1>7, <2>2, <2>7 DEF After, Place
  <2>9. Has(c, n)
    BY <2>8 DEF Has
  <2>10. n \in Entries /\ funct[n] # None
    BY <2>1, <2>9, LinkedCalls
  <2>11. InPass(c, c[k + 1], Append(w, c[k + 1]), l)
    BY <2>2, <2>4, <2>8, PassAdvances
  <2>12. phase'[t] = "call" /\ running'[t] = funct[n] /\ walked'[t] = Append(walked[t], n)
    BY <1>5, <1>7, <2>10 DEF Entered
  <2>13. InPass(Chain(t), n, walked'[t], linked'[t])
    BY <1>6, <1>7, <2>1, <2>8, <2>11, <2>12, Zenon
  <2>14. QED
    BY <2>10, <2>12, <2>13
<1>8. WalkOf(t)'
  <2>1. pos'[t] = n /\ Chain(t)' = Chain(t) /\ funct' = funct
    BY <1>5 DEF Entered
  <2>2. CASE n = t
    <3>1. phase'[t] = "wait" /\ running'[t] = None /\ walked'[t] = <<>>
      BY <1>5, <2>2, Zenon DEF Entered
    <3>2. QED
      BY <3>1 DEF WalkOf
  <2>3. CASE n # t /\ dirty[t]
    <3>1. phase'[t] = "call" => n \in Entries
      BY <1>5, <2>3 DEF Entered
    <3>2. QED
      BY <1>4, <2>1, <2>3, <3>1 DEF WalkOf
  <2>4. CASE n # t /\ ~dirty[t]
    BY <1>7, <2>1, <2>4 DEF WalkOf
  <2>5. QED
    BY <2>2, <2>3, <2>4
<1>9. WalkSound'
  <2>1. ASSUME NEW u \in Threads, u # t PROVE WalkOf(u)'
    BY <1>4, <1>5, <1>6, <2>1, OthersStay
  <2>2. \A u \in Threads : WalkOf(u)'
    BY <1>8, <2>1, Zenon
  <2>3. QED
    BY <1>5, <1>6, <2>2 DEF WalkSound
<1>10. QED
  BY <1>5, <1>9 DEF HalInv

------------------------------------------------------------------------------
(* free_thread_struct.                                                        *)

(* In a layout every link leads to a node.                                    *)
LEMMA LayoutTyped ==
  ASSUME NEW nx, NEW pv, NEW ch, Layout(nx, pv, ch, {})
  PROVE  \A n \in Node : nx[n] \in Node /\ pv[n] \in Node
<1> TAKE n \in Node
<1>1. PICK r \in Roots : n = r \/ Has(ch[r], n)
  <2>1. n \in Entries \/ n \in Roots
    BY RootsDiffer
  <2>2. n \in Entries => \E r \in Roots : Has(ch[r], n)
    BY DEF Layout
  <2>3. QED
    BY <2>1, <2>2
<1>2. PICK c : c = ch[r]
  OBVIOUS
<1>3. Ring(nx, pv, r, c) /\ Len(c) \in Nat /\ PlacesOf(r, c)
  <2>1. Ring(nx, pv, r, c) /\ Len(c) \in Nat
    BY <1>2, LayoutRing, Zenon
  <2>2. QED
    BY <2>1, PlacesDiffer, Zenon
<1>4. PICK i \in 0 .. Len(c) : n = Place(r, c, i)
  <2>1. n = r => 0 \in 0 .. Len(c) /\ n = Place(r, c, 0)
    BY <1>3 DEF Place
  <2>2. ASSUME Has(c, n) PROVE \E i \in 0 .. Len(c) : n = Place(r, c, i)
    <3>1. PICK i \in 1 .. Len(c) : c[i] = n
      BY <2>2 DEF Has
    <3>2. i \in 0 .. Len(c) /\ n = Place(r, c, i)
      BY <1>3, <3>1 DEF Place
    <3>3. QED
      BY <3>2
  <2>3. QED
    BY <1>1, <1>2, <2>1, <2>2
<1>5. PICK j \in 0 .. Len(c) : After(c, j) = i
  <2>1. CASE i = 0
    <3>1. Len(c) \in 0 .. Len(c) /\ After(c, Len(c)) = i
      BY <1>3, <2>1 DEF After
    <3>2. QED
      BY <3>1
  <2>2. CASE i # 0
    <3>1. i - 1 \in 0 .. Len(c) /\ After(c, i - 1) = i
      BY <1>3, <2>2 DEF After
    <3>2. QED
      BY <3>1
  <2>3. QED
    BY <2>1, <2>2
<1>6. \A x \in 0 .. Len(c) : /\ nx[Place(r, c, x)] = Place(r, c, After(c, x))
                             /\ pv[Place(r, c, After(c, x))] = Place(r, c, x)
  BY <1>3 DEF Ring
<1>7. \A x \in 0 .. Len(c) : Place(r, c, x) \in Node /\ After(c, x) \in 0 .. Len(c)
  BY <1>3 DEF PlacesOf
<1>8. nx[n] = Place(r, c, After(c, i)) /\ pv[n] = Place(r, c, j)
  BY <1>4, <1>5, <1>6, Zenon
<1>9. QED
  BY <1>7, <1>8

(* Counting what is left of a finite set.                                     *)
LEMMA CountLeft ==
  ASSUME NEW S, IsFiniteSet(S), NEW T, T \subseteq S
  PROVE  /\ Cardinality(S) \in Nat /\ Cardinality(T) \in Nat /\ Cardinality(S \ T) \in Nat
         /\ Cardinality(S \ T) = Cardinality(S) - Cardinality(T)
<1>1. IsFiniteSet(T) /\ IsFiniteSet(S \ T)
  BY FS_Subset, FS_Difference
<1>2. S \cap T = T
  OBVIOUS
<1>3. Cardinality(S \ T) = Cardinality(S) - Cardinality(S \cap T)
  BY FS_Difference
<1>4. Cardinality(S) \in Nat /\ Cardinality(T) \in Nat /\ Cardinality(S \ T) \in Nat
  BY <1>1, FS_CardinalityType
<1>5. QED
  BY <1>2, <1>3, <1>4

(* What is left of a list of threads without its first.                       *)
LEMMA FirstThreadGone ==
  ASSUME NEW l \in Seq(Threads), l # <<>>, IsInjective(l), NEW t, t = Head(l), NEW m, m = Tail(l)
  PROVE  /\ t \in Threads /\ m \in Seq(Threads) /\ IsInjective(m) /\ Contains(l, t)
         /\ \A u : Contains(m, u) <=> Contains(l, u) /\ u # t
<1>1. PICK L \in Nat : L = Len(l)
  OBVIOUS
<1>2. L # 0 /\ t = l[1] /\ t \in Threads /\ m \in Seq(Threads) /\ Len(m) = L - 1
  BY <1>1
<1>3. \A i \in 1 .. L - 1 : m[i] = l[i + 1]
  BY <1>1, <1>2
<1>4. \A i, j \in 1 .. L : l[i] = l[j] => i = j
  BY <1>1 DEF IsInjective
<1>5. \A i \in 1 .. L - 1 : i + 1 \in 1 .. L /\ i + 1 # 1
  OBVIOUS
<1>6. \A i \in 1 .. L : i = 1 \/ (i - 1 \in 1 .. L - 1 /\ (i - 1) + 1 = i)
  OBVIOUS
<1>7. 1 \in 1 .. L
  BY <1>2
<1>8. IsInjective(m)
  <2>1. ASSUME NEW i \in 1 .. L - 1, NEW j \in 1 .. L - 1, m[i] = m[j] PROVE i = j
    <3>1. i + 1 = j + 1
      BY <1>3, <1>4, <1>5, <2>1
    <3>2. QED
      BY <3>1
  <2>2. DOMAIN m = 1 .. L - 1
    BY <1>2
  <2>3. QED
    BY <2>1, <2>2 DEF IsInjective
<1>9. ASSUME NEW u PROVE Contains(m, u) <=> Contains(l, u) /\ u # t
  <2>1. Contains(m, u) <=> \E i \in 1 .. L - 1 : m[i] = u
    BY <1>2, Zenon DEF Contains
  <2>2. Contains(l, u) <=> \E i \in 1 .. L : l[i] = u
    BY <1>1, Zenon DEF Contains
  <2>3. ASSUME NEW i \in 1 .. L - 1, m[i] = u PROVE Contains(l, u) /\ u # t
    <3>1. l[i + 1] = u /\ i + 1 \in 1 .. L /\ i + 1 # 1
      BY <1>3, <1>5, <2>3
    <3>2. QED
      BY <1>2, <1>4, <1>7, <2>2, <3>1
  <2>4. ASSUME NEW i \in 1 .. L, l[i] = u, u # t PROVE Contains(m, u)
    <3>1. i - 1 \in 1 .. L - 1 /\ (i - 1) + 1 = i
      BY <1>2, <1>6, <2>4
    <3>2. m[i - 1] = l[(i - 1) + 1]
      BY <1>3, <3>1, Zenon
    <3>3. QED
      BY <2>1, <2>4, <3>1, <3>2
  <2>5. QED
    BY <2>1, <2>2, <2>3, <2>4
<1>10. Contains(l, t)
  BY <1>1, <1>2, <1>7 DEF Contains
<1>11. QED
  BY <1>2, <1>8, <1>9, <1>10

(* The links and lists after the entries of t were freed.                     *)
LEMMA ThreadFreed ==
  ASSUME Layout(next, prev, Chains, {}), NEW t \in Threads, NEW w, NEW s,
         s = Reverse(Chain(t)) \o Chain(FreeRoot), w = <<FreeRoot>> \o s,
         FreedLinks(next, prev, next', prev', t, w)
  PROVE  /\ Layout(next', prev', Chains', {})
         /\ \A d : ~Has(Chain(t), d)'
         /\ \A d : Has(Chain(FreeRoot), d)' <=> Has(Chain(t), d) \/ Has(Chain(FreeRoot), d)
         /\ \A u \in Threads : u # t => Chain(u)' = Chain(u)
<1>1. PICK nx, pv, nx2, pv2, ch, c, free :
        /\ nx = next /\ pv = prev /\ nx2 = next' /\ pv2 = prev' /\ ch = Chains
        /\ c = Chain(t) /\ free = Chain(FreeRoot)
  OBVIOUS
<1>2. t \in Roots /\ FreeRoot \in Roots /\ t # FreeRoot /\ \A u \in Threads : u \in Roots /\ u # FreeRoot
  BY RootsDiffer
<1>3. ChainsAre({})
  BY LayoutFacts, Zenon
<1>4. /\ c \in Seq(Entries) /\ Distinct(c) /\ free \in Seq(Entries) /\ Distinct(free)
      /\ ch[t] = c /\ ch[FreeRoot] = free /\ \A r \in Roots : ch[r] = Chain(r)
  BY <1>1, <1>2, <1>3, Zenon DEF ChainsAre
<1>5. \A d : ~(Has(c, d) /\ Has(free, d))
  BY <1>1, <1>2, <1>3 DEF ChainsAre
<1>6. s = Reverse(c) \o free
  BY <1>1, Zenon
<1>7. IsJoined(s, c, free)
  BY <1>4, <1>5, <1>6, JoinedHas, Zenon
<1>8. s \in Seq(Entries) /\ Distinct(s) /\ \A d : Has(s, d) <=> Has(c, d) \/ Has(free, d)
  BY <1>7, Zenon DEF IsJoined
<1>9. NodesOf(w, FreeRoot, s)
  BY <1>2, <1>8, NodesOfList, Zenon
<1>10. FreedLinks(nx, pv, nx2, pv2, t, w)
  BY <1>1, Zenon
<1>11. PICK ch2 : ch2 = [r \in Roots |-> IF r = t THEN <<>> ELSE IF r = FreeRoot THEN s ELSE ch[r]]
  OBVIOUS
<1>12. FreedChains(ch, ch2, t, s)
  <2>1. DOMAIN ch2 = Roots /\ \A r \in Roots : ch2[r] = IF r = t THEN <<>> ELSE IF r = FreeRoot THEN s ELSE ch[r]
    BY <1>11, Zenon
  <2>2. QED
    BY <1>2, <2>1, Zenon DEF FreedChains
<1>13. Layout(nx, pv, ch, {})
  BY <1>1, Zenon
<1>14. IsJoined(s, ch[t], ch[FreeRoot])
  BY <1>4, <1>7, Zenon
<1>15. Layout(nx2, pv2, ch2, {})
  BY <1>9, <1>10, <1>12, <1>13, <1>14, LayoutFreed, Zenon
<1>16. (\A r \in Roots : Chain(r)' = ch2[r]) /\ Layout(next', prev', Chains', {})
  <2>1. ch2 = [r \in Roots |-> ch2[r]]
    BY <1>11, Zenon
  <2>2. QED
    BY <1>1, <1>15, <2>1, NewLists, Zenon
<1>17. ch2[t] = <<>> /\ ch2[FreeRoot] = s /\ \A r \in Roots : r # t /\ r # FreeRoot => ch2[r] = ch[r]
  BY <1>12, Zenon DEF FreedChains
<1>18. \A d : ~Has(Chain(t), d)'
  <2>1. PICK e : e = <<>>
    OBVIOUS
  <2>2. \A d : ~Has(e, d)
    <3>1. 1 .. Len(e) = {}
      BY <2>1
    <3>2. QED
      BY <3>1 DEF Has
  <2>3. Chain(t)' = e
    BY <1>2, <1>16, <1>17, <2>1, Zenon
  <2>4. QED
    BY <2>2, <2>3, Zenon
<1>19. \A d : Has(Chain(FreeRoot), d)' <=> Has(Chain(t), d) \/ Has(Chain(FreeRoot), d)
  <2>1. Chain(FreeRoot)' = s
    BY <1>2, <1>16, <1>17, Zenon
  <2>2. QED
    BY <1>1, <1>8, <2>1, Zenon
<1>20. \A u \in Threads : u # t => Chain(u)' = Chain(u)
  BY <1>2, <1>4, <1>16, <1>17, Zenon
<1>21. QED
  BY <1>16, <1>18, <1>19, <1>20

(* free_thread_struct: all the entries of the thread are freed, and their     *)
(* functions no longer count them.                                            *)
LEMMA FreeThreadKeeps ==
  ASSUME HalInv, free_thread_struct
  PROVE  HalInv'
<1>1. PICK t, l, m : t = Head(thread_list) /\ l = thread_list /\ m = Tail(thread_list)
  OBVIOUS
<1>2. PICK s : s = Reverse(Chain(t)) \o Chain(FreeRoot)
  OBVIOUS
<1>3. PICK w : w = <<FreeRoot>> \o s
  OBVIOUS
<1>4. PICK gone : gone = {e \in Linked(t) : funct[e] \in DOMAIN functs}
  OBVIOUS
<1>5. /\ client.op = "app_exit" /\ l # <<>> /\ phase[t] = "wait"
      /\ phase' = [phase EXCEPT ![t] = "none"] /\ thread_list' = m
      /\ functs' = [f \in DOMAIN functs |->
                      [functs[f] EXCEPT !.users = @ - Cardinality({e \in gone : funct[e] = f})]]
      /\ funct' = [e \in Entries |-> IF e \in Linked(t) THEN None ELSE funct[e]]
      /\ UNCHANGED <<uuid, comps, ready, threads_running, mutex, client,
                     pos, running, walked, linked, dirty>>
  BY <1>1, <1>4, Zenon DEF free_thread_struct
<1>6. l \in Seq(Threads) /\ IsInjective(l)
  BY <1>1 DEF HalInv, TypeOK
<1>7. /\ t \in Threads /\ m \in Seq(Threads) /\ IsInjective(m) /\ Contains(l, t)
      /\ \A u : Contains(m, u) <=> Contains(l, u) /\ u # t
  BY <1>1, <1>5, <1>6, FirstThreadGone, Zenon
<1>8. client = [op |-> "app_exit"]
  BY <1>5 DEF HalInv, ClientSound, Idle
<1>9. Pending = {} /\ Freeing = {} /\ Pending \cup Freeing = {}
  BY <1>8, HandEmpty
<1>10. ClientSound' /\ Pending' = {} /\ (Pending \cup Freeing)' = {}
  BY <1>5, <1>8, ClientIdle
<1>11. Layout(next, prev, Chains, {}) /\ ChainsAre({})
  <2>1. Layout(next, prev, Chains, Pending \cup Freeing)
    BY Zenon DEF HalInv, ListsSound
  <2>2. QED
    BY <1>9, <2>1, LayoutFacts, Zenon
<1>12. t \in Roots /\ FreeRoot \in Roots /\ t # FreeRoot
  BY <1>7, RootsDiffer
<1>13. Chain(t) \in Seq(Entries) /\ Chain(FreeRoot) \in Seq(Entries)
  BY <1>11, <1>12, Zenon DEF ChainsAre
<1>14. FreedLinks(next, prev, next', prev', t, w)
  <2>1. <<FreeRoot>> \o Reverse(Chain(t)) \o Chain(FreeRoot) = w
    <3>1. PICK c, free : c = Chain(t) /\ free = Chain(FreeRoot)
      OBVIOUS
    <3>2. <<FreeRoot>> \o Reverse(c) \o free = <<FreeRoot>> \o (Reverse(c) \o free)
      BY <1>13, <3>1, ThreeJoined, Zenon
    <3>3. QED
      BY <1>2, <1>3, <3>1, <3>2, Zenon
  <2> DEFINE T == Head(thread_list)
             S == <<FreeRoot>> \o Reverse(Chain(T)) \o Chain(FreeRoot)
  <2>2. /\ next' = [n \in Node |-> IF n = T THEN T
                                   ELSE IF n \in Range(S) THEN Following(S, n) ELSE next[n]]
        /\ prev' = [n \in Node |-> IF n = T THEN T
                                   ELSE IF n \in Range(S) THEN Preceding(S, n) ELSE prev[n]]
    BY Zenon DEF free_thread_struct
  <2>3. T = t /\ S = w
    BY <1>1, <2>1, Zenon
  <2> HIDE DEF T, S
  <2>4. ASSUME NEW n \in Node
        PROVE  /\ next'[n] = IF n = t THEN t ELSE IF n \in Range(w) THEN Following(w, n) ELSE next[n]
               /\ prev'[n] = IF n = t THEN t ELSE IF n \in Range(w) THEN Preceding(w, n) ELSE prev[n]
    <3>1. /\ next'[n] = IF n = T THEN T ELSE IF n \in Range(S) THEN Following(S, n) ELSE next[n]
          /\ prev'[n] = IF n = T THEN T ELSE IF n \in Range(S) THEN Preceding(S, n) ELSE prev[n]
      BY <2>2, Zenon
    <3>2. QED
      BY <2>3, <3>1, Zenon
  <2>5. QED
    BY <2>4, Zenon DEF FreedLinks
<1>15. next' = [n \in Node |-> next'[n]] /\ prev' = [n \in Node |-> prev'[n]]
  <2> DEFINE T == Head(thread_list)
             S == <<FreeRoot>> \o Reverse(Chain(T)) \o Chain(FreeRoot)
  <2>1. PICK nx, pv : nx = next /\ pv = prev
    OBVIOUS
  <2>2. /\ next' = [n \in Node |-> IF n = T THEN T
                                   ELSE IF n \in Range(S) THEN Following(S, n) ELSE next[n]]
        /\ prev' = [n \in Node |-> IF n = T THEN T
                                   ELSE IF n \in Range(S) THEN Preceding(S, n) ELSE prev[n]]
    BY Zenon DEF free_thread_struct
  <2> HIDE DEF T, S
  <2>3. QED
    BY <2>2
<1>16. /\ Layout(next', prev', Chains', {})
       /\ \A d : ~Has(Chain(t), d)'
       /\ \A d : Has(Chain(FreeRoot), d)' <=> Has(Chain(t), d) \/ Has(Chain(FreeRoot), d)
       /\ \A u \in Threads : u # t => Chain(u)' = Chain(u)
  BY <1>2, <1>3, <1>7, <1>11, <1>14, ThreadFreed, Zenon
<1>17. \A e : e \in Linked(t) <=> Has(Chain(t), e)
  BY <1>13, LinkedHas
<1>18. \A e \in Entries : funct'[e] = IF Has(Chain(t), e) THEN None ELSE funct[e]
  BY <1>5, <1>17
<1>19. FunctsSound
  BY DEF HalInv
<1>20. \A g \in DOMAIN functs :
          /\ functs[g].owner \in comps
          /\ functs[g].users = Cardinality(Calls(funct, g, {}))
          /\ g # None /\ functs[g] \in [owner : 1 .. MaxUuid, users : Nat]
  BY <1>9, <1>19, RootsDiffer DEF FunctsSound, HalInv, TypeOK
<1>21. ASSUME NEW g \in DOMAIN functs
       PROVE  /\ functs'[g] \in [owner : 1 .. MaxUuid, users : Nat]
              /\ functs'[g].owner = functs[g].owner
              /\ functs'[g].users = Cardinality(Calls(funct', g, {}))
  <2>1. PICK S, T : S = Calls(funct, g, {}) /\ T = {e \in gone : funct[e] = g}
    OBVIOUS
  <2>2. T \subseteq S
    <3>1. \A e \in Linked(t) : e \in Entries
      BY <1>7, <1>17, LinkedCalls
    <3>2. QED
      BY <1>4, <2>1, <3>1 DEF Calls
  <2>3. IsFiniteSet(S)
    BY <2>1, CallsCounted
  <2>4. PICK x \in Nat, y \in Nat, z \in Nat :
               x = Cardinality(S) /\ y = Cardinality(T) /\ z = Cardinality(S \ T) /\ z = x - y
    BY <2>2, <2>3, CountLeft
  <2>5. Calls(funct', g, {}) = S \ T
    BY <1>4, <1>17, <1>18, <1>20, <2>1 DEF Calls
  <2>6. PICK o \in 1 .. MaxUuid, n \in Nat : functs[g] = [owner |-> o, users |-> n]
    BY <1>20
  <2>7. n = x
    <3>1. functs[g].users = n
      BY <2>6
    <3>2. QED
      BY <1>20, <2>1, <2>4, <3>1
  <2>8. functs'[g] = [functs[g] EXCEPT !.users = @ - y]
    BY <1>5, <2>1, <2>4, Zenon
  <2>9. functs'[g] = [owner |-> o, users |-> n - y]
    BY <2>6, <2>8
  <2>10. functs'[g] = [owner |-> o, users |-> z]
    BY <2>4, <2>7, <2>9
  <2>11. functs'[g].owner = functs[g].owner /\ functs'[g].users = z
         /\ functs'[g] \in [owner : 1 .. MaxUuid, users : Nat]
    BY <2>6, <2>10
  <2>12. QED
    BY <2>4, <2>5, <2>11, Zenon
<1>22. DOMAIN functs' = DOMAIN functs
  BY <1>5, Zenon
<1>23. phase \in [Threads -> {"none", "wait", "call", "crashed"}]
  BY DEF HalInv, TypeOK
<1>24. phase'[t] = "none" /\ \A u \in Threads : u # t => phase'[u] = phase[u]
  BY <1>5, <1>7, <1>23
<1>25. TypeOK'
  <2>1. next' \in [Node -> Node] /\ prev' \in [Node -> Node]
    <3>1. PICK nx, pv, ch : nx = next' /\ pv = prev' /\ ch = Chains'
      OBVIOUS
    <3>2. Layout(nx, pv, ch, {})
      BY <1>16, <3>1, Zenon
    <3>3. \A n \in Node : nx[n] \in Node /\ pv[n] \in Node
      BY <3>2, LayoutTyped, Zenon
    <3>4. QED
      BY <1>15, <3>1, <3>3
  <2>2. phase' \in [Threads -> {"none", "wait", "call", "crashed"}]
    BY <1>5, <1>7, <1>23
  <2>3. funct' \in [Entries -> Functs \cup {None}]
    <3>1. funct \in [Entries -> Functs \cup {None}]
      BY DEF HalInv, TypeOK
    <3>2. QED
      BY <1>5, <3>1
  <2>4. DOMAIN functs' \subseteq Functs
        /\ \A g \in DOMAIN functs' : functs'[g] \in [owner : 1 .. MaxUuid, users : Nat]
    BY <1>21, <1>22 DEF HalInv, TypeOK
  <2>5. thread_list' \in Seq(Threads) /\ IsInjective(thread_list')
    BY <1>5, <1>7
  <2>6. QED
    BY <1>5, <2>1, <2>2, <2>3, <2>4, <2>5 DEF HalInv, TypeOK
<1>26. ListsSound'
  BY <1>10, <1>16, Zenon DEF ListsSound
<1>27. FunctsSound'
  <2>1. \A g : Calls(funct, g, Pending)' = Calls(funct', g, {})
    BY <1>10, Zenon DEF Calls
  <2>2. \A g \in DOMAIN functs' :
          functs'[g].owner \in comps' /\ functs'[g].users = Cardinality(Calls(funct, g, Pending)')
    <3> TAKE g \in DOMAIN functs'
    <3>1. g \in DOMAIN functs
      BY <1>22
    <3>2. functs'[g].owner = functs[g].owner /\ functs'[g].users = Cardinality(Calls(funct', g, {}))
      BY <1>21, <3>1, Zenon
    <3>3. functs'[g].owner \in comps'
      BY <1>5, <1>20, <3>1, <3>2
    <3>4. QED
      BY <2>1, <3>2, <3>3, Zenon
  <2>3. \A d \in Entries : (funct'[d] = None) <=> Has(Chain(FreeRoot), d)'
    BY <1>16, <1>18, <1>19 DEF FunctsSound
  <2>4. \A d \in Entries : funct'[d] # None => funct'[d] = funct[d]
    BY <1>18
  <2>5. QED
    BY <1>19, <1>22, <2>2, <2>3, <2>4 DEF FunctsSound
<1>28. ThreadsSound'
  <2>1. ThreadsSound
    BY DEF HalInv
  <2>2. \A u \in Threads : (phase'[u] = "none") <=> ~Contains(m, u)
    BY <1>1, <1>7, <1>24, <2>1 DEF ThreadsSound
  <2>3. ASSUME NEW u \in Threads, NEW d \in Entries, Has(Chain(u), d)' PROVE Contains(m, u)
    <3>1. u # t
      BY <1>16, <2>3
    <3>2. Has(Chain(u), d)
      BY <1>16, <2>3, <3>1
    <3>3. QED
      BY <1>1, <1>7, <2>1, <3>1, <3>2 DEF ThreadsSound
  <2>4. QED
    BY <1>5, <2>2, <2>3 DEF ThreadsSound
<1>29. WalkSound'
  <2>1. ASSUME NEW u \in Threads PROVE WalkOf(u)'
    <3>1. WalkOf(u)
      BY DEF HalInv, WalkSound
    <3>2. CASE u = t
      BY <1>5, <1>24, <3>1, <3>2 DEF WalkOf
    <3>3. CASE u # t
      <4>1. u \in Roots
        BY RootsDiffer
      <4>2. \A d \in Entries : Has(Chain(u), d) => ~Has(Chain(t), d)
        BY <1>11, <1>12, <3>3, <4>1 DEF ChainsAre
      <4>3. \A d \in Entries : Has(Chain(u), d) => funct'[d] = funct[d]
        BY <1>18, <4>2
      <4>4. Chain(u)' = Chain(u) /\ phase'[u] = phase[u]
        BY <1>16, <1>24, <3>3
      <4>5. QED
        BY <1>5, <3>1, <4>3, <4>4, PassKept
    <3>4. QED
      BY <3>2, <3>3
  <2>2. DOMAIN walked' = Threads /\ DOMAIN linked' = Threads
    BY <1>5 DEF HalInv, WalkSound
  <2>3. QED
    BY <2>1, <2>2 DEF WalkSound
<1>30. QED
  BY <1>10, <1>25, <1>26, <1>27, <1>28, <1>29 DEF HalInv

------------------------------------------------------------------------------
(* The theorems.                                                              *)

(* It holds at the start.                                                     *)
LEMMA StartSound ==
  ASSUME Init
  PROVE  HalInv
<1>1. PICK order \in SetToSeqs(Entries) :
        LET s == <<FreeRoot>> \o order IN
          /\ next = [n \in Node |-> IF n \in Threads THEN n ELSE Following(s, n)]
          /\ prev = [n \in Node |-> IF n \in Threads THEN n ELSE Preceding(s, n)]
  BY DEF Init
<1>2. PICK w : w = <<FreeRoot>> \o order
  OBVIOUS
<1>3. /\ next = [n \in Node |-> IF n \in Threads THEN n ELSE Following(w, n)]
      /\ prev = [n \in Node |-> IF n \in Threads THEN n ELSE Preceding(w, n)]
  BY <1>1, <1>2
<1>4. /\ uuid = 0 /\ comps = {} /\ ready = {} /\ functs = <<>> /\ thread_list = <<>>
      /\ threads_running = FALSE /\ mutex = FALSE /\ client = Idle
      /\ funct = [e \in Entries |-> None]
      /\ phase = [t \in Threads |-> "none"] /\ pos = [t \in Threads |-> t]
      /\ walked = [t \in Threads |-> <<>>] /\ linked = [t \in Threads |-> {}]
      /\ running = [t \in Threads |-> None] /\ dirty = [t \in Threads |-> FALSE]
  BY DEF Init
<1>5. PICK nx, pv : nx = next /\ pv = prev
  OBVIOUS
<1>6. PICK ch : ch = [r \in Roots |-> IF r = FreeRoot THEN order ELSE <<>>]
  OBVIOUS
<1>7. StartLinks(nx, pv, w)
  BY <1>3, <1>5, Zenon DEF StartLinks
<1>8. Layout(nx, pv, ch, {})
  BY <1>2, <1>6, <1>7, LayoutAtStart, Zenon
<1>9. \A r \in Roots : Chain(r) = ch[r]
  BY <1>5, <1>8, LayoutChains DEF Chain
<1>10. Chains = ch
  <2>1. Chains = [r \in Roots |-> Chain(r)]
    BY Zenon DEF Chains
  <2>2. ch = [r \in Roots |-> ch[r]]
    BY <1>6
  <2>3. QED
    BY <1>9, <2>1, <2>2, Zenon
<1>11. /\ FreeRoot \in Roots /\ \A t \in Threads : t \in Roots /\ t # FreeRoot
       /\ Roots = Threads \cup {FreeRoot}
  BY RootsDiffer DEF Roots
<1>12. \A t \in Threads : \A d : ~Has(Chain(t), d)
  <2>1. PICK s : s = <<>>
    OBVIOUS
  <2>2. 1 .. Len(s) = {}
    BY <2>1
  <2>3. \A d : ~Has(s, d)
    BY <2>2 DEF Has
  <2>4. \A t \in Threads : Chain(t) = s
    BY <1>6, <1>9, <1>11, <2>1
  <2>5. QED
    BY <2>3, <2>4, Zenon
<1>13. Pending = {} /\ Freeing = {} /\ Pending \cup Freeing = {}
  BY <1>4, IdleHand
<1>14. ListsSound
  BY <1>5, <1>8, <1>10, <1>13, Zenon DEF ListsSound
<1>15. \A e \in Entries : Has(Chain(FreeRoot), e)
  <2>1. \A e \in Entries : \E r \in Roots : Has(Chain(r), e)
    BY <1>8, <1>9 DEF Layout
  <2>2. QED
    BY <1>11, <1>12, <2>1
<1>16. DOMAIN functs = {}
  BY <1>4
<1>17. TypeOK
  <2>1. next \in [Node -> Node] /\ prev \in [Node -> Node]
    <3>1. \A n \in Node : nx[n] \in Node /\ pv[n] \in Node
      BY <1>8, LayoutTyped
    <3>2. QED
      BY <1>3, <1>5, <3>1
  <2>2. uuid \in 0 .. MaxUuid
    BY <1>4, Bounds
  <2>3. thread_list \in Seq(Threads) /\ IsInjective(thread_list)
    BY <1>4 DEF IsInjective
  <2>4. \A t \in Threads : t \in Node
    BY RootsDiffer
  <2>5. QED
    BY <1>4, <1>16, <2>1, <2>2, <2>3, <2>4 DEF TypeOK
<1>18. FunctsSound
  BY <1>4, <1>15, <1>16 DEF FunctsSound
<1>19. ThreadsSound
  <2>1. \A t : ~Contains(thread_list, t)
    <3>1. Len(thread_list) = 0
      BY <1>4
    <3>2. 1 .. Len(thread_list) = {}
      BY <3>1
    <3>3. QED
      BY <3>2 DEF Contains
  <2>2. QED
    BY <1>4, <1>12, <2>1 DEF ThreadsSound
<1>20. ClientSound
  <2>1. client.op \notin {"add", "del", "exit"}
    BY <1>4 DEF Idle
  <2>2. QED
    BY <1>4, <2>1 DEF ClientSound, AddSound
<1>21. WalkSound
  <2>1. \A t \in Threads : phase[t] = "none" /\ running[t] = None /\ walked[t] = <<>>
    BY <1>4, Zenon
  <2>2. DOMAIN walked = Threads /\ DOMAIN linked = Threads
    BY <1>4, Zenon
  <2>3. QED
    BY <2>1, <2>2 DEF WalkSound, WalkOf
<1>22. QED
  BY <1>14, <1>17, <1>18, <1>19, <1>20, <1>21 DEF HalInv

(* A step that changes nothing keeps it.                                      *)
LEMMA StutterKeeps ==
  ASSUME HalInv, UNCHANGED vars
  PROVE  HalInv'
<1>1. UNCHANGED <<uuid, comps, ready, functs, thread_list, threads_running,
                  next, prev, funct, mutex, client>> /\ UNCHANGED walk
  BY DEF vars, registry, lists
<1>2. ClientSound' /\ Pending' = Pending /\ (Pending \cup Freeing)' = Pending \cup Freeing
  BY <1>1, ClientKept DEF HalInv
<1>3. TypeOK'
  BY <1>1 DEF HalInv, TypeOK, walk
<1>4. ListsSound' /\ FunctsSound' /\ ThreadsSound' /\ WalkSound'
  BY <1>1, <1>2, ListsKept, FunctsKept, ThreadsKept, WalkKept DEF HalInv, walk
<1>5. QED
  BY <1>2, <1>3, <1>4 DEF HalInv

(* Every step keeps it.                                                       *)
LEMMA StepKeeps ==
  ASSUME HalInv, [Next]_vars
  PROVE  HalInv'
<1>1. CASE Client
  <2>1. CASE hal_init
    BY <2>1, InitKeeps
  <2>2. CASE \E id \in comps : hal_ready(id) \/ hal_unready(id)
    BY <2>2, ReadyKeeps
  <2>3. CASE \E id \in comps, f \in Functs : hal_export_funct(f, id)
    BY <2>3, ExportKeeps
  <2>4. CASE \E t \in Threads : hal_create_thread(t)
    BY <2>4, CreateKeeps
  <2>5. CASE \/ hal_start_threads \/ hal_stop_threads \/ hal_app_exit \/ \E t \in Threads : hal_thread_delete(t)
             \/ \E f \in Functs, t \in Threads, p \in Positions : AddWithoutRoom(f, t, p)
    BY <2>5, MarkCallsKeep
  <2>6. CASE \E f \in Functs, t \in Threads, p \in Positions : hal_add_funct_to_thread(f, t, p)
    BY <2>6, AddBegins
  <2>7. CASE \/ \E f \in Functs, t \in Threads : hal_del_funct_from_thread(f, t)
             \/ \E id \in comps : hal_exit(id)
    BY <2>7, UnlinkBegins
  <2>8. QED
    BY <1>1, <2>1, <2>2, <2>3, <2>4, <2>5, <2>6, <2>7, Zenon DEF Client
<1>2. CASE InCall
  <2>1. CASE LinkEntry
    BY <2>1, LinkKeeps
  <2>2. CASE Detach
    BY <2>2, DetachKeeps
  <2>3. CASE free_funct_entry_struct
    BY <2>3, FreeEntryKeeps
  <2>4. CASE FinishUnlink
    BY <2>4, FinishKeeps
  <2>5. CASE free_thread_struct
    BY <2>5, FreeThreadKeeps
  <2>6. CASE Released
    BY <2>6, MarkCallsKeep
  <2>7. QED
    BY <1>2, <2>1, <2>2, <2>3, <2>4, <2>5, <2>6, Zenon DEF InCall
<1>3. CASE \E t \in Threads : thread_task(t)
  BY <1>3, BeginKeeps, AdvanceKeeps DEF thread_task
<1>4. CASE UNCHANGED vars
  BY <1>4, StutterKeeps
<1>5. QED
  BY <1>1, <1>2, <1>3, <1>4, Zenon DEF Next

(* The invariant of the registry, in every reachable state and for any number *)
(* of threads, functions and entries: between two stores of a call too, every *)
(* entry is in one list or in the hands of the call, and what thread_task     *)
(* does without the mutex agrees with the lists it walks.                     *)
THEOREM RegistryInvariant == Spec => []HalInv
<1>1. Init => HalInv
  BY StartSound
<1>2. HalInv /\ [Next]_vars => HalInv'
  BY StepKeeps
<1>3. QED
  BY <1>1, <1>2, PTL DEF Spec

(* Between two calls the links of every entry undo each other.                *)
LEMMA LinksReverse ==
  ASSUME HalInv, client = Idle, NEW e \in Entries
  PROVE  /\ prev[next[e]] = e /\ next[prev[e]] = e
         /\ \E r \in Roots : Has(Chain(r), e) /\ \A q \in Roots : Has(Chain(q), e) => q = r
<1>1. Pending \cup Freeing = {}
  BY IdleHand
<1>2. ChainsAre({})
  BY <1>1, HandFacts, Zenon
<1>3. PICK r \in Roots : Has(Chain(r), e)
  BY <1>2, Zenon DEF ChainsAre
<1>4. PICK c : c = Chain(r)
  OBVIOUS
<1>5. Ring(next, prev, r, c) /\ Len(c) \in Nat
  BY <1>2, <1>4, Zenon DEF ChainsAre
<1>6. PICK k \in 1 .. Len(c) : c[k] = e
  BY <1>3, <1>4 DEF Has
<1>7. \A i \in 0 .. Len(c) : /\ next[Place(r, c, i)] = Place(r, c, After(c, i))
                             /\ prev[Place(r, c, After(c, i))] = Place(r, c, i)
  BY <1>5 DEF Ring
<1>8. k \in 0 .. Len(c) /\ k - 1 \in 0 .. Len(c) /\ Place(r, c, k) = e /\ After(c, k - 1) = k
  BY <1>5, <1>6 DEF Place, After
<1>9. prev[next[e]] = e /\ next[prev[e]] = e
  <2>1. next[e] = Place(r, c, After(c, k)) /\ prev[Place(r, c, After(c, k))] = e
    BY <1>7, <1>8, Zenon
  <2>2. prev[e] = Place(r, c, k - 1) /\ next[Place(r, c, k - 1)] = e
    BY <1>7, <1>8, Zenon
  <2>3. QED
    BY <2>1, <2>2, Zenon
<1>10. \A q \in Roots : Has(Chain(q), e) => q = r
  BY <1>2, <1>3, Zenon DEF ChainsAre
<1>11. QED
  BY <1>3, <1>9, <1>10

(* Between calls the registry agrees with itself: see RegistryConsistent.     *)
LEMMA ConsistentFollows ==
  ASSUME HalInv
  PROVE  RegistryConsistent
<1>1. TypeOK
  BY DEF HalInv
<1> SUFFICES ASSUME client = Idle
             PROVE  /\ \A f \in DOMAIN functs : /\ functs[f].users = Cardinality(Callers(f))
                                              /\ functs[f].owner \in comps
                    /\ \A t \in Threads : \A e \in Linked(t) :
                         funct[e] \in DOMAIN functs /\ Contains(thread_list, t)
                    /\ \A e \in Entries :
                         /\ Cardinality(HomesOf(e)) = 1
                         /\ prev[next[e]] = e /\ next[prev[e]] = e
                         /\ (funct[e] = None) <=> (e \in Linked(FreeRoot))
  BY <1>1, Zenon DEF RegistryConsistent
<1>2. Pending = {} /\ Pending \cup Freeing = {}
  BY IdleHand
<1>3. ChainsAre({})
  BY <1>2, HandFacts, Zenon
<1>4. ASSUME NEW r \in Roots
      PROVE  \A e : e \in Linked(r) <=> Has(Chain(r), e)
  <2>1. Chain(r) \in Seq(Entries)
    BY <1>3, Zenon DEF ChainsAre
  <2>2. QED
    BY <2>1, LinkedHas, Zenon
<1>5. FunctsSound /\ ThreadsSound
  BY DEF HalInv
<1>6. FreeRoot \in Roots /\ Roots = Threads \cup {FreeRoot} /\ \A t \in Threads : t \in Roots
  BY RootsDiffer DEF Roots
<1>7. ASSUME NEW t \in Threads, NEW e \in Linked(t)
      PROVE  e \in Entries /\ funct[e] \in DOMAIN functs /\ Contains(thread_list, t)
  <2>1. Has(Chain(t), e)
    BY <1>4, <1>6
  <2>2. e \in Entries /\ funct[e] # None
    BY <2>1, LinkedCalls
  <2>3. QED
    BY <1>5, <2>1, <2>2 DEF FunctsSound, ThreadsSound
<1>8. ASSUME NEW f \in DOMAIN functs
      PROVE  functs[f].users = Cardinality(Callers(f)) /\ functs[f].owner \in comps
  <2>1. functs[f].users = Cardinality(Calls(funct, f, {})) /\ functs[f].owner \in comps
    BY <1>2, <1>5 DEF FunctsSound
  <2>2. \A e \in Callers(f) : e \in Calls(funct, f, {})
    BY <1>7 DEF Callers, Calls
  <2>3. ASSUME NEW e \in Calls(funct, f, {})
        PROVE  e \in Callers(f)
    <3>1. e \in Entries /\ funct[e] = f /\ f # None
      BY <1>1, RootsDiffer DEF Calls, TypeOK
    <3>2. PICK r \in Roots : Has(Chain(r), e)
      BY <1>3, <3>1, Zenon DEF ChainsAre
    <3>3. r \in Threads
      BY <1>5, <1>6, <3>1, <3>2 DEF FunctsSound
    <3>4. e \in Linked(r)
      BY <1>4, <3>2
    <3>5. QED
      BY <3>1, <3>3, <3>4 DEF Callers
  <2>4. Callers(f) = Calls(funct, f, {})
    BY <2>2, <2>3
  <2>5. QED
    BY <2>1, <2>4
<1>9. ASSUME NEW e \in Entries
      PROVE  /\ Cardinality(HomesOf(e)) = 1
             /\ prev[next[e]] = e /\ next[prev[e]] = e
             /\ (funct[e] = None) <=> (e \in Linked(FreeRoot))
  <2>1. /\ prev[next[e]] = e /\ next[prev[e]] = e
        /\ \E r \in Roots : Has(Chain(r), e) /\ \A q \in Roots : Has(Chain(q), e) => q = r
    BY LinksReverse
  <2>2. PICK r \in Roots : Has(Chain(r), e) /\ \A q \in Roots : Has(Chain(q), e) => q = r
    BY <2>1
  <2>3. HomesOf(e) = {r}
    BY <1>4, <1>6, <2>2 DEF HomesOf
  <2>4. Cardinality({r}) = 1
    BY FS_Singleton
  <2>5. (funct[e] = None) <=> (e \in Linked(FreeRoot))
    BY <1>4, <1>5, <1>6 DEF FunctsSound
  <2>6. QED
    BY <2>1, <2>3, <2>4, <2>5
<1>10. QED
  BY <1>7, <1>8, <1>9

(* Between calls the registry agrees with itself, whatever was added, deleted *)
(* and exited: the count of users of a function is the number of entries that *)
(* call it, each entry is in one list whose links undo each other, and        *)
(* nothing refers to what is gone.                                            *)
THEOREM RegistryAgrees == Spec => []RegistryConsistent
<1>1. HalInv => RegistryConsistent
  BY ConsistentFollows
<1>2. QED
  BY <1>1, RegistryInvariant, PTL

(* thread_task walks the list without the mutex, while functions may be       *)
(* added: a pass during which nothing was unlinked calls only functions, and  *)
(* every entry linked since it began exactly once.                            *)
LEMMA PassFollows ==
  ASSUME HalInv
  PROVE  PassSound
<1> SUFFICES ASSUME NEW t \in Threads, ~dirty[t]
             PROVE  /\ phase[t] # "crashed"
                    /\ phase[t] = "call" =>
                         LET c == Chain(t)
                             k == PlaceIn(c, pos[t])
                             whole == walked[t] \o SubSeq(c, k + 1, Len(c))
                         IN  k > 0 /\ IsInjective(whole) /\ linked[t] \subseteq Range(whole)
  BY Zenon DEF PassSound
<1>1. WalkOf(t)
  BY DEF HalInv, WalkSound
<1>2. phase[t] # "crashed"
  BY <1>1 DEF WalkOf
<1>3. CASE phase[t] = "call"
  <2>1. PICK c, p, w, l : c = Chain(t) /\ p = pos[t] /\ w = walked[t] /\ l = linked[t]
    OBVIOUS
  <2>2. InPass(c, p, w, l)
    BY <1>1, <1>3, <2>1 DEF WalkOf
  <2>3. c \in Seq(Entries) /\ Len(c) \in Nat /\ Distinct(c)
    BY <2>1, ThreadRing
  <2>4. PICK k \in 1 .. Len(c) : StandsAt(c, p, w, l, k)
    BY <2>2, PassStands
  <2>5. c[k] = p
    BY <2>4 DEF StandsAt
  <2>6. PlaceIn(c, p) = k
    BY <2>3, <2>5, PlaceSelected
  <2>7. PICK v : v = SubSeq(c, k + 1, Len(c))
    OBVIOUS
  <2>8. IsRest(v, c, k)
    BY <2>3, <2>7, RestOfList, Zenon
  <2>9. IsInjective(w \o v) /\ l \subseteq Range(w \o v)
    BY <2>3, <2>4, <2>8, PassCallsAll, Zenon
  <2>10. k > 0
    BY <2>3
  <2>11. QED
    BY <1>2, <2>1, <2>6, <2>7, <2>9, <2>10, Zenon
<1>4. QED
  BY <1>2, <1>3

(* So it is in every reachable state.                                         *)
THEOREM PassesAreSound == Spec => []PassSound
<1>1. HalInv => PassSound
  BY PassFollows
<1>2. QED
  BY <1>1, RegistryInvariant, PTL

(* Two threads in a function are in two entries of it.                        *)
LEMMA ReentryFollows ==
  ASSUME HalInv
  PROVE  NotReentered
<1> SUFFICES ASSUME NEW t \in Threads, NEW u \in Threads, t # u, running[t] # None,
                    running[t] = running[u], ~dirty[t], ~dirty[u]
             PROVE  running[t] \in Reentrant
  BY DEF NotReentered
<1>1. WalkOf(t) /\ WalkOf(u)
  BY DEF HalInv, WalkSound
<1>2. phase[t] = "call" /\ phase[u] = "call"
  BY <1>1 DEF WalkOf
<1>3. /\ pos[t] \in Entries /\ pos[u] \in Entries
      /\ running[t] = funct[pos[t]] /\ running[u] = funct[pos[u]]
      /\ Has(Chain(t), pos[t]) /\ Has(Chain(u), pos[u])
  BY <1>1, <1>2 DEF WalkOf, InPass, Has
<1>4. pos[t] # pos[u]
  <2>1. t \in Roots /\ u \in Roots
    BY RootsDiffer
  <2>2. \A e \in Entries : Has(Chain(t), e) /\ Has(Chain(u), e) => t = u
    BY <2>1, HandFacts, Zenon DEF ChainsAre
  <2>3. QED
    BY <1>3, <2>2
<1>5. QED
  BY <1>3, <1>4 DEF HalInv, FunctsSound

(* A function that is not reentrant is never in execution in two threads,     *)
(* unless one is in a pass it was unlinked from: the test of the count in     *)
(* hal_add_funct_to_thread is enough.                                         *)
THEOREM NeverReentered == Spec => []NotReentered
<1>1. HalInv => NotReentered
  BY ReentryFollows
<1>2. QED
  BY <1>1, RegistryInvariant, PTL
=============================================================================
