----------------------------- MODULE InputProofs -----------------------------
(***************************************************************************)
(* The invariants of Input, whatever is typed and moved and however large  *)
(* the queues are.                                                         *)
(*                                                                         *)
(* HandlersNeverSpin needs to know where the reader holds a lock           *)
(* (LockInv), NoStall that a handler that has read its byte is no longer   *)
(* the one that a byte in the controller waits for (EdgeInv).              *)
(*                                                                         *)
(* For every capacity, the rings between handlers and readers are bounded  *)
(* queues that drop their oldest element when they are full.  On this rest *)
(* the two invariants that follow the bytes on their way: MouseInv says    *)
(* which motions the queue and the reader have, and which one the bytes of *)
(* the packet belong to; KeyInv says that the bytes in the queue, in the   *)
(* handler and in the controller are those between the point of the typing *)
(* that the decoder has reached and the one that the keyboard has.  They   *)
(* give EventsAreReal and KeysMatchTyped.                                  *)
(***************************************************************************)
EXTENDS Input, FiniteSetTheorems, TLAPS

\* A leaf that names no prover is for SMT, with time to spare on a busy machine.
USE SMTT(60)

KeyboardHeld == {"drain keys held", "key held"}
MouseHeld == {"drain mouse held", "mouse held"}

TypeInv ==
    /\ irr \subseteq Sources
    /\ obf = None \/ obf.src \in Sources
    /\ handler = None \/ (handler.src \in Sources /\ handler.step \in {"read", "push"})

\* A lock is held exactly between the steps of its section, which no handler
\* interrupts because the flag is clear there.
LockInv ==
    /\ pc \in KeyboardHeld => locked = {"keyboard"}
    /\ pc \in MouseHeld => locked = {"mouse"}
    /\ pc \notin KeyboardHeld \cup MouseHeld => locked = {}
    /\ locked # {} => IF_ = FALSE /\ handler = None

\* The edge of a byte in the controller is latched, or its handler is about to
\* read it.
EdgeInv ==
    obf # None =>
        obf.src \in irr \/ (handler # None /\ handler.src = obf.src /\ handler.step = "read")

Inv == TypeInv /\ LockInv /\ EdgeInv

\* The invariant holds at the start.
LEMMA InitInv == Init => Inv
BY ZenonT(60) DEF Init, Inv, TypeInv, LockInv, EdgeInv, KeyboardHeld, MouseHeld, None, Sources

\* Taking and giving back a lock keep the invariant.
LEMMA LockKeeps ==
    ASSUME Inv, NEW from \in {"drain keys", "key", "drain mouse", "mouse"},
           NEW queue, NEW to, Lock(from, queue, to),
           \/ queue = "keyboard" /\ to \in KeyboardHeld
           \/ queue = "mouse" /\ to \in MouseHeld
    PROVE  Inv'
<1>1. /\ handler' = None /\ handler = None /\ IF_' = FALSE /\ pc = from /\ pc' = to
      /\ locked' = locked \cup {queue} /\ obf' = obf /\ irr' = irr
  BY ZenonT(60) DEF Lock, Reader
<1>2. locked' = {queue}
  BY <1>1, ZenonT(60) DEF Inv, LockInv, KeyboardHeld, MouseHeld
<1> QED
  BY <1>1, <1>2, ZenonT(60) DEF Inv, TypeInv, LockInv, EdgeInv, KeyboardHeld, MouseHeld

\* A step of the reader that ends with no lock held, and leaves the controller
\* and the handlers alone, keeps the invariant.
LEMMA FreeKeeps ==
    ASSUME Inv, locked' = {}, pc' \notin KeyboardHeld \cup MouseHeld,
           UNCHANGED <<obf, irr, handler>>
    PROVE  Inv'
BY ZenonT(60) DEF Inv, TypeInv, LockInv, EdgeInv, KeyboardHeld, MouseHeld

\* Every step keeps the invariant.
LEMMA NextInv == Inv /\ [Next]_vars => Inv'
<1> SUFFICES ASSUME Inv, [Next]_vars PROVE Inv'
  OBVIOUS
<1>1. CASE Send
  <2>1. /\ obf = None /\ obf'.src \in Sources /\ irr' = irr \cup {obf'.src}
        /\ UNCHANGED <<handler, IF_, locked, pc>>
    BY <1>1 DEF Send, Sources
  <2> QED
    BY <2>1 DEF Inv, TypeInv, LockInv, EdgeInv
<1>2. CASE Interrupt
  <2>1. PICK src \in irr : irr' = irr \ {src} /\ handler' = [src |-> src, step |-> "read"]
    BY <1>2 DEF Interrupt
  <2>2. IF_ /\ handler = None /\ obf' = obf /\ locked' = locked /\ src \in Sources
    BY <1>2 DEF Interrupt, Inv, TypeInv
  <2>3. locked = {} /\ pc \notin KeyboardHeld \cup MouseHeld
    BY <2>2 DEF Inv, LockInv
  <2>4. pc' \notin KeyboardHeld \cup MouseHeld
    BY <1>2, <2>3, ZenonT(60) DEF Interrupt, Woken, KeyboardHeld, MouseHeld
  <2>5. handler' # None /\ handler'.src = src /\ handler'.step = "read"
    BY <2>1, <2>2 DEF None, Sources
  <2>6. TypeInv' /\ LockInv'
    BY <2>1, <2>2, <2>3, <2>4, <2>5 DEF Inv, TypeInv, LockInv
  <2>7. EdgeInv'
    BY <2>1, <2>2, <2>5 DEF Inv, EdgeInv
  <2> QED
    BY <2>6, <2>7 DEF Inv
<1>3. CASE TimerInterrupt
  <2>1. pc = "asleep" /\ pc' = "key" /\ UNCHANGED <<obf, irr, IF_, handler, locked>>
    BY <1>3 DEF TimerInterrupt, Woken
  <2> QED
    BY <2>1 DEF Inv, TypeInv, LockInv, EdgeInv, KeyboardHeld, MouseHeld
<1>4. CASE read_interrupt_data
  <2>1. /\ handler # None /\ handler.step = "read" /\ UNCHANGED <<irr, locked, pc>>
    BY <1>4 DEF read_interrupt_data
  <2>2. locked = {} /\ pc \notin KeyboardHeld \cup MouseHeld /\ handler.src \in Sources
    BY <2>1 DEF Inv, TypeInv, LockInv
  <2>3. CASE obf.src = handler.src
    <3>1. obf' = None /\ handler'.src = handler.src /\ handler'.step = "push"
      BY <1>4, <2>3 DEF read_interrupt_data
    <3> QED
      BY <2>1, <2>2, <3>1 DEF Inv, TypeInv, LockInv, EdgeInv
  <2>4. CASE obf.src # handler.src
    <3>1. obf' = obf /\ handler' = None
      BY <1>4, <2>4 DEF read_interrupt_data
    <3> QED
      BY <2>1, <2>2, <2>4, <3>1 DEF Inv, TypeInv, LockInv, EdgeInv
  <2> QED
    BY <2>3, <2>4
<1>5. CASE PushScancode \/ push_byte
  <2>1. /\ handler # None /\ handler.step = "push" /\ handler' = None
        /\ UNCHANGED <<obf, irr, locked, pc>>
    BY <1>5 DEF PushScancode, push_byte, Iret
  <2> QED
    BY <2>1 DEF Inv, TypeInv, LockInv, EdgeInv
<1>6. CASE Lock("drain keys", "keyboard", "drain keys held") \/ Lock("key", "keyboard", "key held")
  BY <1>6, LockKeeps, ZenonT(60) DEF KeyboardHeld
<1>7. CASE Lock("drain mouse", "mouse", "drain mouse held") \/ Lock("mouse", "mouse", "mouse held")
  BY <1>7, LockKeeps, ZenonT(60) DEF MouseHeld
<1>8. CASE DrainKeys \/ DrainMouse
  BY <1>8, FreeKeeps, ZenonT(60) DEF DrainKeys, DrainMouse, KeyboardHeld, MouseHeld
<1>9. CASE PopKey
  <2>1. pc = "key held" /\ locked' = locked \ {"keyboard"} /\ UNCHANGED <<obf, irr, handler>>
    BY <1>9, ZenonT(60) DEF PopKey, Unlock, Reader
  <2>2. pc' \in {"mouse", "hlt", "user", "key"}
    BY <1>9, ZenonT(60) DEF PopKey, Unlock
  <2>3. locked' = {}
    BY <2>1, ZenonT(60) DEF Inv, LockInv, KeyboardHeld
  <2> QED
    BY <2>1, <2>2, <2>3, FreeKeeps, ZenonT(60) DEF KeyboardHeld, MouseHeld
<1>10. CASE PopEvent
  <2>1. pc = "mouse held" /\ locked' = locked \ {"mouse"} /\ UNCHANGED <<obf, irr, handler>>
    BY <1>10, ZenonT(60) DEF PopEvent, Unlock, Reader
  <2>2. pc' = "user"
    BY <1>10, ZenonT(60) DEF PopEvent, Unlock
  <2>3. locked' = {}
    BY <2>1, ZenonT(60) DEF Inv, LockInv, MouseHeld
  <2> QED
    BY <2>1, <2>2, <2>3, FreeKeeps, ZenonT(60) DEF KeyboardHeld, MouseHeld
<1>11. CASE InputPoll \/ Hlt
  <2>1. pc \in {"user", "hlt"} /\ pc' \in {"key", "asleep"} /\ UNCHANGED <<obf, irr, handler, locked>>
    BY <1>11 DEF InputPoll, Hlt, Reader
  <2>2. locked' = {}
    BY <2>1, ZenonT(60) DEF Inv, LockInv, KeyboardHeld, MouseHeld
  <2> QED
    BY <2>1, <2>2, FreeKeeps, ZenonT(60) DEF KeyboardHeld, MouseHeld
<1>12. CASE UNCHANGED vars
  BY <1>12 DEF vars, Inv, TypeInv, LockInv, EdgeInv
<1> QED
  BY <1>1, <1>2, <1>3, <1>4, <1>5, <1>6, <1>7, <1>8, <1>9, <1>10, <1>11, <1>12, ZenonT(60)
     DEF Next, Handle, Read

\* The strengthened invariant of handlers and reader.
THEOREM InvHolds == Spec => []Inv
BY InitInv, NextInv, PTL DEF Spec

\* No interrupt handler ever waits for the lock of a queue, whatever is typed
\* and moved and wherever the reader is interrupted.
THEOREM HandlersNeverSpinHolds == Spec => []HandlersNeverSpin
<1>1. Inv => HandlersNeverSpin
  BY DEF Inv, LockInv, HandlersNeverSpin
<1> QED
  BY <1>1, InvHolds, PTL

\* No byte is ever stuck in the controller, although the two handlers share it.
THEOREM NoStallHolds == Spec => []NoStall
<1>1. Inv => NoStall
  BY DEF Inv, EdgeInv, NoStall
<1> QED
  BY <1>1, InvHolds, PTL

-----------------------------------------------------------------------------
(* The rings *)

\* Indices run at most once past the end of the ring.
LEMMA Wrap ==
    ASSUME NEW C \in Nat \ {0}, NEW n \in 0 .. 2 * C - 1
    PROVE  n % C = IF n < C THEN n ELSE n - C
  <1>1. n = C * (n \div C) + (n % C) /\ n % C \in 0 .. C - 1 /\ n \div C \in Int
    OBVIOUS
  <1> DEFINE d == n \div C
  <1>2. d < 2
    <2> SUFFICES ASSUME d >= 2 PROVE FALSE
      BY <1>1
    <2>1. C * d >= C * 2
      BY <1>1, Z3
    <2> QED
      BY <2>1, <1>1
  <1>3. d >= 0
    <2> SUFFICES ASSUME d <= -1 PROVE FALSE
      BY <1>1
    <2>1. C * d <= -C
      BY <1>1, Z3
    <2> QED
      BY <2>1, <1>1
  <1>4. CASE d = 0
    BY <1>1, <1>4
  <1>5. CASE d = 1
    BY <1>1, <1>5
  <1> QED
    BY <1>1, <1>2, <1>3, <1>4, <1>5

\* The position of the element i places after r, without the modulus.
LEMMA Place ==
    ASSUME NEW C \in Nat \ {0}, NEW r \in 0 .. C - 1, NEW i \in 0 .. C
    PROVE  /\ (r + i) % C = IF r + i < C THEN r + i ELSE r + i - C
           /\ (r + i) % C \in 0 .. C - 1
  <1> DEFINE n == r + i
  <1>1. n \in 0 .. 2 * C - 1
    OBVIOUS
  <1>2. n % C = IF n < C THEN n ELSE n - C
    <2> HIDE DEF n
    <2> QED
      BY <1>1, Wrap, ZenonT(60)
  <1> QED
    BY <1>2

\* A step around the ring and i more are i + 1.
LEMMA Onward ==
    ASSUME NEW C \in Nat \ {0}, NEW r \in 0 .. C - 1, NEW i \in 0 .. C - 1
    PROVE  /\ (((r + i) % C) + 1) % C = (r + (i + 1)) % C
           /\ (((r + 1) % C) + i) % C = (r + (i + 1)) % C
  <1>0. 1 \in 0 .. C
    OBVIOUS
  <1> DEFINE a == (r + i) % C
             b == (r + 1) % C
  <1>1. i \in 0 .. C /\ i + 1 \in 0 .. C
    OBVIOUS
  <1>2. a \in 0 .. C - 1 /\ a = IF r + i < C THEN r + i ELSE r + i - C
    BY <1>1, Place, ZenonT(60)
  <1>3. (r + (i + 1)) % C = IF r + (i + 1) < C THEN r + (i + 1) ELSE r + (i + 1) - C
    BY <1>1, Place, ZenonT(60)
  <1>4. b \in 0 .. C - 1 /\ b = IF r + 1 < C THEN r + 1 ELSE r + 1 - C
    BY <1>0, Place, ZenonT(60)
  <1> HIDE DEF a, b
  <1>5. (a + 1) % C = IF a + 1 < C THEN a + 1 ELSE a + 1 - C
    BY <1>0, <1>2, Place, ZenonT(60)
  <1>6. (b + i) % C = IF b + i < C THEN b + i ELSE b + i - C
    BY <1>1, <1>4, Place, ZenonT(60)
  <1>7. (a + 1) % C = (r + (i + 1)) % C
    BY <1>2, <1>3, <1>5
  <1>8. (b + i) % C = (r + (i + 1)) % C
    BY <1>3, <1>4, <1>6
  <1> QED
    BY <1>7, <1>8 DEF a, b

\* Moving an index by one moves every place counted from it by one, and
\* different places of one turn of the ring are different slots.
LEMMA Turn ==
    ASSUME NEW C \in Nat \ {0}, NEW r \in 0 .. C - 1
    PROVE  /\ (r + 1) % C \in 0 .. C - 1
           /\ \A i \in 0 .. C - 1 : /\ (((r + i) % C) + 1) % C = (r + (i + 1)) % C
                                    /\ (((r + 1) % C) + i) % C = (r + (i + 1)) % C
           /\ (r + C) % C = r
           /\ \A i, j \in 0 .. C - 1 : (r + i) % C = (r + j) % C => i = j
  <1>1. 1 \in 0 .. C /\ C \in 0 .. C
    OBVIOUS
  <1>2. (r + 1) % C \in 0 .. C - 1 /\ (r + 1) % C = IF r + 1 < C THEN r + 1 ELSE r + 1 - C
    BY <1>1, Place, ZenonT(60)
  <1>3. (r + C) % C = r
    <2>1. (r + C) % C = IF r + C < C THEN r + C ELSE r + C - C
      BY <1>1, Place, ZenonT(60)
    <2> QED
      BY <2>1
  <1>4. ASSUME NEW i \in 0 .. C - 1
        PROVE  (((r + i) % C) + 1) % C = (r + (i + 1)) % C /\ (((r + 1) % C) + i) % C = (r + (i + 1)) % C
    BY Onward
  <1>5. ASSUME NEW i \in 0 .. C - 1, NEW j \in 0 .. C - 1, (r + i) % C = (r + j) % C
        PROVE  i = j
    <2>1. i \in 0 .. C /\ j \in 0 .. C
      OBVIOUS
    <2>2. (r + i) % C = IF r + i < C THEN r + i ELSE r + i - C
      BY <2>1, Place, ZenonT(60)
    <2>3. (r + j) % C = IF r + j < C THEN r + j ELSE r + j - C
      BY <2>1, Place, ZenonT(60)
    <2> QED
      BY <1>5, <2>2, <2>3
  <1> QED
    BY <1>2, <1>3, <1>4, <1>5

-----------------------------------------------------------------------------

\* push appends to the queue; into a full ring (ScancodeQueue::push and
\* push_byte) it drops exactly the oldest element.  The ring stays in order.
THEOREM PushEnqueues ==
    ASSUME NEW C \in Nat \ {0}, NEW S, NEW q \in Ring(C, S), NEW x \in S, InOrder(C, q)
    PROVE  LET p == Push(C, q, x)
               drop == IF q.len = C THEN 1 ELSE 0
           IN  /\ p \in Ring(C, S) /\ InOrder(C, p)
               /\ p.len = q.len - drop + 1
               /\ Contents(C, p)[p.len] = x
               /\ \A i \in 1 .. p.len - 1 : Contents(C, p)[i] = Contents(C, q)[i + drop]
  <1> DEFINE p == Push(C, q, x)
             drop == IF q.len = C THEN 1 ELSE 0
             r == q.read
             n == q.len
             At(i) == (r + i) % C
  <1>1. /\ r \in 0 .. C - 1 /\ q.write \in 0 .. C - 1 /\ n \in 0 .. C
        /\ q.slots \in [0 .. C - 1 -> S] /\ q.write = At(n)
    BY DEF Ring, InOrder
  <1>2. /\ \A i \in 0 .. C : At(i) \in 0 .. C - 1
        /\ \A i \in 0 .. C - 1 : (At(i) + 1) % C = At(i + 1) /\ (At(1) + i) % C = At(i + 1)
        /\ At(C) = r /\ At(0) = r
        /\ \A i, j \in 0 .. C - 1 : At(i) = At(j) => i = j
    <2>1. \A i \in 0 .. C : At(i) \in 0 .. C - 1
      BY <1>1, Place, ZenonT(60)
    <2>2. At(0) = r
      <3>1. 0 \in 0 .. C
        OBVIOUS
      <3>2. (r + 0) % C = IF r + 0 < C THEN r + 0 ELSE r + 0 - C
        BY <1>1, <3>1, Place
      <3> QED
        BY <1>1, <3>2
    <2> QED
      BY <1>1, <2>1, <2>2, Turn, ZenonT(60)
  <1>3. (r + 1) % C = At(1)
    OBVIOUS
  <1>4. CASE n = C
    <2>1. p = [q EXCEPT !.slots = [@ EXCEPT ![r] = x], !.write = At(1), !.read = At(1)]
      <3>1. q.write = r
        BY <1>1, <1>2, <1>4
      <3> QED
        BY <1>3, <1>4, <3>1 DEF Push
    <2>2. At(1) \in 0 .. C - 1
      BY <1>2
    <2> HIDE DEF At
    <2>3. /\ p \in Ring(C, S) /\ p.read = At(1) /\ p.write = At(1) /\ p.len = C
          /\ p.slots = [q.slots EXCEPT ![r] = x]
      <3> HIDE DEF p
      <3> QED
        BY <1>1, <1>4, <2>1, <2>2, ZenonT(60) DEF Ring
    <2> HIDE DEF p
    <2>4. (At(1) + C) % C = At(1)
      BY <2>2, Turn, ZenonT(60)
    <2>5. ASSUME NEW i \in 1 .. C PROVE Contents(C, p)[i] = p.slots[At(i)]
      <3>1. (At(1) + (i - 1)) % C = At(i)
        <4>1. i - 1 \in 0 .. C - 1 /\ (i - 1) + 1 = i
          OBVIOUS
        <4> QED
          BY <1>2, <4>1
      <3>2. At(1) + i - 1 = At(1) + (i - 1)
        BY <2>2
      <3> QED
        BY <2>3, <3>1, <3>2 DEF Contents
    <2>6. Contents(C, p)[C] = x
      <3>1. C \in 1 .. C /\ At(C) = r
        BY <1>2
      <3> QED
        BY <1>1, <2>3, <2>5, <3>1
    <2>7. ASSUME NEW i \in 1 .. C - 1 PROVE Contents(C, p)[i] = Contents(C, q)[i + 1]
      <3>1. Contents(C, q)[i + 1] = q.slots[At(i)]
        <4>1. r + (i + 1) - 1 = r + i /\ i + 1 \in 1 .. n
          BY <1>1, <1>4
        <4> QED
          BY <4>1 DEF Contents, At
      <3>2. At(i) # r /\ At(i) \in 0 .. C - 1
        <4>1. i \in 0 .. C /\ i \in 0 .. C - 1 /\ 0 \in 0 .. C - 1 /\ i # 0
          OBVIOUS
        <4>2. At(0) = r
          BY <1>2
        <4> QED
          BY <1>2, <4>1, <4>2, ZenonT(60)
      <3> QED
        BY <1>1, <2>3, <2>5, <3>1, <3>2
    <2>8. InOrder(C, p)
      BY <2>3, <2>4 DEF InOrder
    <2> QED
      BY <1>4, <2>3, <2>6, <2>7, <2>8 DEF p
  <1>5. CASE n # C
    <2>0. n \in 0 .. C - 1 /\ n + 1 \in 0 .. C
      BY <1>1, <1>5
    <2>1. p = [q EXCEPT !.slots = [@ EXCEPT ![At(n)] = x], !.write = At(n + 1), !.len = n + 1]
      <3>1. (q.write + 1) % C = At(n + 1)
        BY <1>1, <1>2, <2>0, ZenonT(60)
      <3> QED
        BY <1>1, <1>5, <3>1, ZenonT(60) DEF Push
    <2>2. At(n) \in 0 .. C - 1 /\ At(n + 1) \in 0 .. C - 1
      <3>1. n \in 0 .. C
        BY <1>1
      <3> HIDE DEF At
      <3> QED
        BY <1>2, <2>0, <3>1, ZenonT(60)
    <2>3. InOrder(C, p)
      <3>1. p.write = At(n + 1) /\ p.read = r /\ p.len = n + 1
        <4> HIDE DEF p, At
        <4> QED
          BY <2>1 DEF Ring
      <3> QED
        BY <3>1 DEF InOrder
    <2> HIDE DEF At
    <2>4. /\ p \in Ring(C, S) /\ p.read = r /\ p.len = n + 1
          /\ p.slots = [q.slots EXCEPT ![At(n)] = x]
      <3> HIDE DEF p
      <3> QED
        BY <1>1, <2>0, <2>1, <2>2, ZenonT(60) DEF Ring
    <2> HIDE DEF p
    <2>5. ASSUME NEW i \in 1 .. n + 1 PROVE Contents(C, p)[i] = p.slots[At(i - 1)]
      <3>1. r + i - 1 = r + (i - 1)
        BY <1>1
      <3> QED
        BY <2>4, <3>1 DEF Contents, At
    <2>6. Contents(C, p)[n + 1] = x
      <3>1. n + 1 \in 1 .. n + 1 /\ (n + 1) - 1 = n
        BY <2>0
      <3> QED
        BY <1>1, <2>2, <2>4, <2>5, <3>1
    <2>7. ASSUME NEW i \in 1 .. n PROVE Contents(C, p)[i] = Contents(C, q)[i + 0]
      <3>1. Contents(C, q)[i + 0] = q.slots[At(i - 1)]
        <4>1. r + i - 1 = r + (i - 1) /\ i + 0 = i
          BY <1>1
        <4> QED
          BY <4>1 DEF Contents, At
      <3>2. At(i - 1) # At(n) /\ At(i - 1) \in 0 .. C - 1
        <4>1. i - 1 \in 0 .. C - 1 /\ i - 1 # n /\ i - 1 \in 0 .. C
          BY <2>0
        <4> QED
          BY <1>2, <2>0, <4>1, ZenonT(60)
      <3>3. i \in 1 .. n + 1
        BY <2>0
      <3> QED
        BY <1>1, <2>4, <2>5, <3>1, <3>2, <3>3
    <2>8. p.len - 1 = n /\ q.len - 0 + 1 = p.len
      BY <2>0, <2>4
    <2> QED
      BY <1>5, <2>3, <2>4, <2>6, <2>7, <2>8 DEF p
  <1> QED
    BY <1>4, <1>5

\* pop takes the oldest element and leaves the others in order.
THEOREM PopDequeues ==
    ASSUME NEW C \in Nat \ {0}, NEW S, NEW q \in Ring(C, S), InOrder(C, q), q.len # 0
    PROVE  LET p == Pop(C, q)
           IN  /\ p \in Ring(C, S) /\ InOrder(C, p)
               /\ Oldest(q) = Contents(C, q)[1]
               /\ p.len = q.len - 1
               /\ \A i \in 1 .. p.len : Contents(C, p)[i] = Contents(C, q)[i + 1]
  <1> DEFINE p == Pop(C, q)
             r == q.read
             n == q.len
             next == (r + 1) % C
  <1>1. r \in 0 .. C - 1 /\ n \in 1 .. C /\ q.write \in 0 .. C - 1 /\ q.write = (r + n) % C
        /\ q.slots \in [0 .. C - 1 -> S]
    BY DEF Ring, InOrder
  <1>2. /\ next \in 0 .. C - 1
        /\ \A i \in 0 .. C - 1 : (next + i) % C = (r + (i + 1)) % C
    <2>1. r \in 0 .. C - 1
      BY <1>1
    <2>2. PICK m \in 0 .. C - 1 : m = r
      BY <2>1
    <2>3. (m + 1) % C \in 0 .. C - 1
      BY Turn
    <2>4. ASSUME NEW i \in 0 .. C - 1 PROVE (((m + 1) % C) + i) % C = (m + (i + 1)) % C
      BY Onward
    <2> QED
      BY <2>2, <2>3, <2>4
  <1>3. (r + 0) % C = r
    <2>1. 0 \in 0 .. C
      OBVIOUS
    <2>2. (r + 0) % C = IF r + 0 < C THEN r + 0 ELSE r + 0 - C
      BY <1>1, <2>1, Place, ZenonT(60)
    <2> QED
      BY <1>1, <2>2
  <1> HIDE DEF next
  <1>4. p = [q EXCEPT !.read = next, !.len = n - 1]
    BY DEF Pop, next
  <1>5. /\ p \in Ring(C, S) /\ p.read = next /\ p.len = n - 1 /\ p.slots = q.slots
        /\ p.write = q.write
    <2> HIDE DEF p
    <2>1. n - 1 \in 0 .. C
      BY <1>1
    <2> QED
      BY <1>1, <1>2, <1>4, <2>1, ZenonT(60) DEF Ring
  <1> HIDE DEF p
  <1>6. InOrder(C, p)
    <2>1. n - 1 \in 0 .. C - 1 /\ (n - 1) + 1 = n
      BY <1>1
    <2>2. (next + (n - 1)) % C = (r + n) % C
      BY <1>2, <2>1
    <2> QED
      BY <1>1, <1>5, <2>2 DEF InOrder
  <1>7. Oldest(q) = Contents(C, q)[1]
    <2>1. r + 1 - 1 = r + 0 /\ 1 \in 1 .. n
      BY <1>1
    <2> QED
      BY <1>3, <2>1 DEF Oldest, Contents
  <1>8. ASSUME NEW i \in 1 .. n - 1 PROVE Contents(C, p)[i] = Contents(C, q)[i + 1]
    <2>1. /\ i - 1 \in 0 .. C - 1 /\ (i - 1) + 1 = i /\ i + 1 \in 1 .. n
          /\ next + i - 1 = next + (i - 1) /\ r + (i + 1) - 1 = r + i
      BY <1>1, <1>2
    <2>2. (next + (i - 1)) % C = (r + i) % C
      BY <1>2, <2>1, ZenonT(60)
    <2>3. Contents(C, p)[i] = q.slots[(next + (i - 1)) % C]
      BY <1>5, <2>1 DEF Contents
    <2>4. Contents(C, q)[i + 1] = q.slots[(r + i) % C]
      BY <2>1 DEF Contents
    <2> QED
      BY <2>2, <2>3, <2>4
  <1> QED
    BY <1>5, <1>6, <1>7, <1>8 DEF p

-----------------------------------------------------------------------------
(* What is in the queues and on the way to them *)

Stroke == [code : 1 .. 88, press : BOOLEAN]
Motion == [dx : -256 .. 255, dy : -255 .. 256, wheel : -8 .. 7,
           buttons : 0 .. 7, overflow : BOOLEAN]
Event == [dx : Int, dy : Int, wheel : Int, buttons : Int]

\* A byte that a handler has read, and one that is still in the controller.
InHandler(src) == handler # None /\ handler.step = "push" /\ handler.src = src
InBuffer(src) == obf # None /\ obf.src = src

\* What the devices will send, and how far they are.
DeviceInv ==
    /\ typed \in Seq(Stroke) /\ moved \in Seq(Motion) /\ packet_len \in {3, 4}
    /\ ksent \in 0 .. Len(typed) /\ prefixed \in BOOLEAN
    /\ msent \in 0 .. packet_len * Len(moved)

QueueInv ==
    /\ scancodes \in Ring(KEYS, Int) /\ InOrder(KEYS, scancodes)
    /\ mouse \in Ring(EVENTS, Event) /\ InOrder(EVENTS, mouse)
    /\ packet \in Seq(Int) /\ Len(packet) < packet_len
    /\ locked \subseteq Sources
    /\ \A src \in Sources : InHandler(src) => handler.byte \in Int
    /\ \A src \in Sources : InBuffer(src) => obf.byte \in Int

\* An empty ring is a ring.
LEMMA EmptyRing ==
    ASSUME NEW C \in Nat \ {0}, NEW S, NEW x \in S
    PROVE  Empty(C, x) \in Ring(C, S) /\ InOrder(C, Empty(C, x))
<1>1. 0 \in 0 .. C - 1 /\ 0 \in 0 .. C
  OBVIOUS
<1>2. (0 + 0) % C = IF 0 + 0 < C THEN 0 + 0 ELSE 0 + 0 - C
  BY <1>1, Place
<1> QED
  BY <1>1, <1>2 DEF Empty, Ring, InOrder

\* So is one that is cleared.
LEMMA ClearRing ==
    ASSUME NEW C \in Nat \ {0}, NEW S, NEW q \in Ring(C, S)
    PROVE  Clear(q) \in Ring(C, S) /\ InOrder(C, Clear(q)) /\ Clear(q).len = 0
<1>1. 0 \in 0 .. C - 1 /\ 0 \in 0 .. C
  OBVIOUS
<1>2. (0 + 0) % C = IF 0 + 0 < C THEN 0 + 0 ELSE 0 + 0 - C
  BY <1>1, Place
<1> DEFINE p == Clear(q)
<1>3. p = [q EXCEPT !.read = 0, !.write = 0, !.len = 0]
  BY DEF Clear
<1>4. q.slots \in [0 .. C - 1 -> S]
  BY DEF Ring
<1> HIDE DEF p
<1>5. p \in Ring(C, S) /\ p.read = 0 /\ p.write = 0 /\ p.len = 0
  BY <1>1, <1>3, <1>4, ZenonT(60) DEF Ring
<1>6. InOrder(C, p)
  BY <1>2, <1>5 DEF InOrder
<1> QED
  BY <1>5, <1>6 DEF p

\* The devices start before their first byte.
LEMMA InitDevice == Init => DeviceInv
<1> SUFFICES ASSUME Init PROVE DeviceInv
  OBVIOUS
<1>1. PICK i \in Inputs : typed = i.typed /\ moved = i.moved /\ packet_len = i.packet_len
  BY ZenonT(60) DEF Init
<1>2. i.typed \in Seq(Stroke) /\ i.moved \in Seq(Motion) /\ i.packet_len \in {3, 4}
  BY InputAssumption DEF Stroke, Motion
<1>3. ksent = 0 /\ prefixed = FALSE /\ msent = 0
  BY ZenonT(60) DEF Init
<1>4. Len(typed) \in Nat /\ Len(moved) \in Nat
  BY <1>1, <1>2
<1>5. 0 <= packet_len * Len(moved)
  <2>1. CASE packet_len = 3
    BY <1>4, <2>1
  <2>2. CASE packet_len = 4
    BY <1>4, <2>2
  <2> QED
    BY <1>1, <1>2, <2>1, <2>2
<1>6. packet_len * Len(moved) \in Int
  BY <1>1, <1>2, <1>4
<1>7. msent \in 0 .. packet_len * Len(moved)
  BY <1>3, <1>5, <1>6
<1>8. ksent \in 0 .. Len(typed)
  BY <1>3, <1>4
<1>9. prefixed \in BOOLEAN
  BY <1>3, ZenonT(60)
<1> QED
  BY <1>1, <1>2, <1>7, <1>8, <1>9, ZenonT(60) DEF DeviceInv

\* The queues start empty.
LEMMA InitQueue == Init => QueueInv
<1> SUFFICES ASSUME Init PROVE QueueInv
  OBVIOUS
<1>1. scancodes = Empty(KEYS, 0) /\ packet = <<>> /\ locked = {} /\ obf = None /\ handler = None
      /\ mouse = Empty(EVENTS, [dx |-> 0, dy |-> 0, wheel |-> 0, buttons |-> 0])
  BY ZenonT(60) DEF Init
<1>2. [dx |-> 0, dy |-> 0, wheel |-> 0, buttons |-> 0] \in Event
  BY DEF Event
<1>3. scancodes \in Ring(KEYS, Int) /\ InOrder(KEYS, scancodes)
  <2>1. 0 \in Int
    OBVIOUS
  <2> QED
    BY <1>1, <2>1, EmptyRing, InputAssumption, ZenonT(60)
<1>4. mouse \in Ring(EVENTS, Event) /\ InOrder(EVENTS, mouse)
  BY <1>1, <1>2, EmptyRing, InputAssumption
<1>5. packet \in Seq(Int) /\ Len(packet) < packet_len
  BY <1>1, InitDevice DEF DeviceInv
<1> QED
  BY <1>1, <1>3, <1>4, <1>5 DEF QueueInv, InHandler, InBuffer

-----------------------------------------------------------------------------
(* The bytes of a packet *)

\* What a mouse reports are numbers.
LEMMA MotionType ==
    ASSUME NEW m \in Motion
    PROVE  m.dx \in Int /\ m.dy \in Int /\ m.wheel \in Int /\ m.buttons \in Int
BY DEF Motion

\* A packet is four bytes.
LEMMA PacketType ==
    ASSUME NEW m \in Motion
    PROVE  /\ PacketBytes(m) \in Seq(Int) /\ Len(PacketBytes(m)) = 4
           /\ \A k \in 1 .. 4 : PacketBytes(m)[k] \in Int
<1>1. m.dx \in Int /\ m.dy \in Int /\ m.wheel \in Int /\ m.buttons \in Int
  BY MotionType
<1> DEFINE a == Bit3 + m.buttons + (IF m.overflow THEN 64 ELSE 0) + (IF m.dx < 0 THEN 16 ELSE 0)
                  + (IF m.dy > 0 THEN 32 ELSE 0)
           b == Byte8(m.dx)
           c == Byte8(-m.dy)
           d == Byte8(m.wheel)
<1>2. a \in Int
  BY <1>1 DEF Bit3
<1>3. b \in Int /\ c \in Int /\ d \in Int
  BY <1>1 DEF Byte8
<1>4. PacketBytes(m) = <<a, b, c, d>>
  BY DEF PacketBytes
<1> HIDE DEF a, b, c, d
<1> QED
  BY <1>2, <1>3, <1>4

\* The first byte is odd in units of eight, tells an overflow and the buttons.
LEMMA FirstByte ==
    ASSUME NEW m \in Motion
    PROVE  LET b == PacketBytes(m)[1]
           IN  (b \div 8) % 2 = 1 /\ (Overflowed(b) <=> m.overflow) /\ b % 8 = m.buttons
<1>1. m.dx \in Int /\ m.dy \in Int /\ m.buttons \in 0 .. 7 /\ m.overflow \in BOOLEAN
  BY DEF Motion
<1> DEFINE o == IF m.overflow THEN 1 ELSE 0
           x == IF m.dx < 0 THEN 1 ELSE 0
           y == IF m.dy > 0 THEN 1 ELSE 0
           n == m.buttons
<1>2. PacketBytes(m)[1] = n + 8 * (1 + 8 * o + 2 * x + 4 * y)
  BY <1>1 DEF PacketBytes, Bit3
<1>3. o \in 0 .. 1 /\ x \in 0 .. 1 /\ y \in 0 .. 1 /\ n \in 0 .. 7
  BY <1>1
<1>4. o = 1 <=> m.overflow
  OBVIOUS
<1> HIDE DEF o, x, y, n
<1> DEFINE h == 1 + 8 * o + 2 * x + 4 * y
<1>5. h \in Int /\ h % 2 = 1
  BY <1>3
<1>6. (n + 8 * h) \div 8 = h /\ (n + 8 * h) % 8 = n
  <2> HIDE DEF h
  <2> QED
    BY <1>3, <1>5
<1>7. n + 8 * h >= 64 <=> o = 1
  BY <1>3
<1> QED
  BY <1>2, <1>4, <1>5, <1>6, <1>7 DEF Overflowed, n

\* What push_byte reads out of the other bytes is what the mouse put there, but
\* for the ninth bits.
LEMMA OtherBytes ==
    ASSUME NEW m \in Motion
    PROVE  LET p == PacketBytes(m)
           IN  /\ Signed(p[2]) = EightBits(m.dx) /\ -Signed(p[3]) = -EightBits(-m.dy)
               /\ Wheel(p[4]) = m.wheel
<1>1. m.dx \in -256 .. 255 /\ m.dy \in -255 .. 256 /\ m.wheel \in -8 .. 7
  BY DEF Motion
<1>2. PacketBytes(m)[2] = m.dx % 256 /\ PacketBytes(m)[3] = (-m.dy) % 256
      /\ PacketBytes(m)[4] = m.wheel % 256
  BY DEF PacketBytes, Byte8
<1>3. ASSUME NEW n \in -256 .. 255 PROVE Signed(n % 256) = EightBits(n)
  BY DEF Signed, EightBits
<1>4. ASSUME NEW n \in -8 .. 7 PROVE Wheel(n % 256) = n
  BY DEF Wheel
<1>5. -m.dy \in -256 .. 255
  BY <1>1
<1>6. Signed(PacketBytes(m)[2]) = EightBits(m.dx)
  BY <1>1, <1>2, <1>3, ZenonT(60)
<1>7. Signed(PacketBytes(m)[3]) = EightBits(-m.dy)
  BY <1>2, <1>3, <1>5, ZenonT(60)
<1>8. Wheel(PacketBytes(m)[4]) = m.wheel
  BY <1>1, <1>2, <1>4, ZenonT(60)
<1> QED
  BY <1>6, <1>7, <1>8, ZenonT(60)

\* A whole packet makes the event that its bytes stand for.
LEMMA PacketEvent ==
    ASSUME NEW m \in Motion, packet_len \in {3, 4}, NEW p,
           \A k \in 1 .. packet_len : p[k] = PacketBytes(m)[k]
    PROVE  /\ (Overflowed(p[1]) <=> m.overflow)
           /\ ~m.overflow => Reports(EventOf(p), m)
<1>1. p[1] = PacketBytes(m)[1] /\ p[2] = PacketBytes(m)[2] /\ p[3] = PacketBytes(m)[3]
  OBVIOUS
<1>2. packet_len = 4 => p[4] = PacketBytes(m)[4]
  OBVIOUS
<1>3. Overflowed(p[1]) <=> m.overflow
  BY <1>1, FirstByte
<1>4. p[1] % 8 = m.buttons
  BY <1>1, FirstByte
<1>5. Signed(p[2]) = EightBits(m.dx) /\ -Signed(p[3]) = -EightBits(-m.dy)
  BY <1>1, OtherBytes
<1>6. packet_len = 4 => Wheel(p[4]) = m.wheel
  BY <1>2, OtherBytes
<1> QED
  BY <1>3, <1>4, <1>5, <1>6 DEF Reports, EventOf

\* The n-th byte of the mouse, counted in packets.
LEMMA ByteOfPacket ==
    ASSUME packet_len \in {3, 4}, NEW w \in Nat, NEW k \in 0 .. packet_len - 1
    PROVE  MouseByte(packet_len * w + k) = PacketBytes(moved[w + 1])[k + 1]
<1>1. ASSUME NEW c \in {3, 4}, NEW j \in 0 .. c - 1
      PROVE  (c * w + j) \div c = w /\ (c * w + j) % c = j
  <2>1. CASE c = 3
    BY <2>1
  <2>2. CASE c = 4
    BY <2>2
  <2> QED
    BY <2>1, <2>2
<1>2. (packet_len * w + k) \div packet_len = w /\ (packet_len * w + k) % packet_len = k
  BY <1>1
<1> QED
  BY <1>2 DEF MouseByte

\* Every byte that the mouse will send is one of a packet.
LEMMA MouseByteType ==
    ASSUME DeviceInv, NEW n \in Nat, n < packet_len * Len(moved)
    PROVE  MouseByte(n) \in Int
<1>1. packet_len \in {3, 4} /\ Len(moved) \in Nat /\ moved \in Seq(Motion)
  BY DEF DeviceInv
<1>2. ASSUME NEW c \in {3, 4}, NEW l \in Nat, n < c * l
      PROVE  n \div c \in 0 .. l - 1 /\ n % c \in 0 .. c - 1
  <2>1. CASE c = 3
    BY <1>2, <2>1
  <2>2. CASE c = 4
    BY <1>2, <2>2
  <2> QED
    BY <2>1, <2>2
<1>3. n \div packet_len \in 0 .. Len(moved) - 1 /\ n % packet_len \in 0 .. packet_len - 1
  BY <1>1, <1>2
<1> DEFINE w == n \div packet_len
           k == n % packet_len
<1>4. w + 1 \in 1 .. Len(moved) /\ k + 1 \in 1 .. 4
  BY <1>1, <1>3
<1>5. moved[w + 1] \in Motion
  <2> HIDE DEF w
  <2> QED
    BY <1>1, <1>4
<1>6. PacketBytes(moved[w + 1])[k + 1] \in Int
  <2> HIDE DEF w, k
  <2> QED
    BY <1>4, <1>5, PacketType
<1> QED
  BY <1>6 DEF MouseByte

-----------------------------------------------------------------------------

\* A byte of a stroke is no prefix.
LEMMA StrokeType ==
    ASSUME NEW s \in Stroke
    PROVE  /\ StrokeByte(s) \in Int /\ StrokeByte(s) # 224
           /\ s.press => StrokeByte(s) = s.code /\ StrokeByte(s) \in 1 .. 88
           /\ ~s.press => StrokeByte(s) = s.code + 128 /\ StrokeByte(s) \in 129 .. 216
<1>1. s.code \in 1 .. 88
  BY DEF Stroke
<1> QED
  BY <1>1 DEF StrokeByte

\* The devices stay within what they have to send.
LEMMA NextDevice ==
    ASSUME DeviceInv, [Next]_vars
    PROVE  DeviceInv' /\ UNCHANGED <<typed, moved, packet_len>>
<1>1. CASE Send
  <2>1. UNCHANGED <<typed, moved, packet_len>>
    BY <1>1 DEF Send
  <2>2. Len(typed) \in Nat /\ Len(moved) \in Nat /\ packet_len \in {3, 4} /\ msent \in Int /\ ksent \in Int
    BY DEF DeviceInv
  <2> DEFINE all == packet_len * Len(moved)
  <2>3. all \in Int
    BY <2>2
  <2>4. msent \in 0 .. all /\ (msent' = msent \/ (msent < all /\ msent' = msent + 1))
    BY <1>1 DEF Send, DeviceInv
  <2> HIDE DEF all
  <2>5. msent' \in 0 .. all
    BY <2>2, <2>3, <2>4
  <2>6. ksent' \in 0 .. Len(typed)
    <3>1. ksent' = ksent \/ (ksent < Len(typed) /\ ksent' = ksent + 1)
      BY <1>1 DEF Send
    <3>2. ksent \in 0 .. Len(typed)
      BY DEF DeviceInv
    <3> QED
      BY <2>2, <3>1, <3>2
  <2>7. prefixed' \in BOOLEAN
    <3>1. prefixed' = prefixed \/ prefixed' = PrefixDue
      BY <1>1 DEF Send
    <3>2. PrefixDue \in BOOLEAN
      BY DEF PrefixDue
    <3> QED
      BY <3>1, <3>2, ZenonT(60) DEF DeviceInv
  <2> USE DEF all
  <2>8. all' = all
    BY <2>1
  <2>9. typed' \in Seq(Stroke) /\ moved' \in Seq(Motion) /\ packet_len' \in {3, 4}
        /\ Len(typed') = Len(typed)
    BY <2>1 DEF DeviceInv
  <2> QED
    BY <2>1, <2>5, <2>6, <2>7, <2>8, <2>9, ZenonT(60) DEF DeviceInv
<1>2. CASE ~Send
  <2>1. UNCHANGED deviceVars
    BY <1>2, ZenonT(60) DEF Next, vars, Interrupt, TimerInterrupt, Handle, read_interrupt_data, PushScancode,
                push_byte, Read, Lock, DrainKeys, DrainMouse, PopKey, PopEvent, InputPoll, Hlt, deviceVars
  <2> QED
    BY <2>1, ZenonT(60) DEF DeviceInv, deviceVars
<1> QED
  BY <1>1, <1>2

\* The rings stay in order, and bytes on the way stay bytes.
LEMMA NextQueue ==
    ASSUME Inv, DeviceInv, QueueInv, [Next]_vars
    PROVE  QueueInv'
<1>0. packet_len' = packet_len /\ packet_len \in {3, 4}
  BY NextDevice DEF DeviceInv
<1> DEFINE Rings == /\ scancodes \in Ring(KEYS, Int) /\ InOrder(KEYS, scancodes)
                    /\ mouse \in Ring(EVENTS, Event) /\ InOrder(EVENTS, mouse)
                    /\ packet \in Seq(Int) /\ Len(packet) < packet_len
           Away == /\ \A src \in Sources : InHandler(src) => handler.byte \in Int
                   /\ \A src \in Sources : InBuffer(src) => obf.byte \in Int
<1>1. Rings /\ Away /\ locked \subseteq Sources
  BY DEF QueueInv
<1>2. UNCHANGED queueVars => Rings'
  BY <1>0, <1>1 DEF queueVars
<1>3. UNCHANGED <<obf, handler>> => Away'
  BY <1>1 DEF InHandler, InBuffer
<1>4. UNCHANGED obf /\ handler' = None => Away'
  BY <1>1 DEF InHandler, InBuffer
<1>5. locked' \subseteq Sources
  <2>1. locked' \in {locked, {}, locked \cup {"keyboard"}, locked \cup {"mouse"},
                     locked \ {"keyboard"}, locked \ {"mouse"}}
    BY ZenonT(60) DEF Next, vars, Send, Interrupt, TimerInterrupt, Handle, read_interrupt_data, PushScancode,
           push_byte, Read, Lock, Unlock, DrainKeys, DrainMouse, PopKey, PopEvent, InputPoll, Hlt
  <2> QED
    BY <1>1, <2>1 DEF Sources
<1>6. ASSUME Rings', Away' PROVE QueueInv'
  BY <1>5, <1>6 DEF QueueInv
<1> HIDE DEF Rings, Away
<1>7. CASE Send
  <2>1. UNCHANGED queueVars /\ handler' = handler
    BY <1>7, ZenonT(60) DEF Send
  <2>2. obf'.byte \in Int
    <3>1. CASE ksent < Len(typed) /\ obf' = [src |-> "keyboard",
                     byte |-> IF PrefixDue THEN 224 ELSE StrokeByte(typed[ksent + 1])]
      <4>1. typed[ksent + 1] \in Stroke
        BY <3>1 DEF DeviceInv
      <4>2. StrokeByte(typed[ksent + 1]) \in Int
        BY <4>1, StrokeType
      <4> QED
        BY <3>1, <4>2
    <3>2. CASE msent < packet_len * Len(moved) /\ obf' = [src |-> "mouse", byte |-> MouseByte(msent)]
      <4>1. msent \in Nat
        BY DEF DeviceInv
      <4>2. MouseByte(msent) \in Int
        BY <3>2, <4>1, MouseByteType
      <4> QED
        BY <3>2, <4>2
    <3> QED
      BY <1>7, <3>1, <3>2 DEF Send
  <2>3. Away'
    BY <1>1, <2>1, <2>2 DEF Away, InHandler, InBuffer
  <2> QED
    BY <1>2, <1>6, <2>1, <2>3
<1>8. CASE Interrupt
  <2>1. UNCHANGED queueVars /\ obf' = obf
    BY <1>8 DEF Interrupt
  <2>2. handler'.step = "read"
    BY <1>8 DEF Interrupt
  <2>3. Away'
    BY <1>1, <2>1, <2>2 DEF Away, InHandler, InBuffer
  <2> QED
    BY <1>2, <1>6, <2>1, <2>3
<1>9. CASE read_interrupt_data
  <2>1. UNCHANGED queueVars /\ handler # None /\ handler.step = "read"
    BY <1>9 DEF read_interrupt_data
  <2>2. CASE obf.src = handler.src
    <3>1. obf' = None /\ handler' = [src |-> handler.src, step |-> "push", byte |-> obf.byte]
      BY <1>9, <2>2 DEF read_interrupt_data
    <3>2. handler.src \in Sources /\ obf # None
      BY <2>1, <2>2 DEF Inv, TypeInv, None, Sources
    <3>3. obf.byte \in Int
      BY <1>1, <2>2, <3>2 DEF Away, InBuffer
    <3> QED
      BY <1>2, <1>6, <2>1, <3>1, <3>3 DEF Away, InHandler, InBuffer
  <2>3. CASE obf.src # handler.src
    <3>1. obf' = obf /\ handler' = None
      BY <1>9, <2>3 DEF read_interrupt_data
    <3> QED
      BY <1>2, <1>4, <1>6, <2>1, <3>1
  <2> QED
    BY <2>2, <2>3
<1>10. CASE PushScancode
  <2>1. /\ obf' = obf /\ handler' = None /\ UNCHANGED <<mouse, packet>>
        /\ scancodes' = Push(KEYS, scancodes, handler.byte)
    BY <1>10 DEF PushScancode, Iret
  <2>2. handler.byte \in Int
    BY <1>1, <1>10 DEF PushScancode, Away, InHandler, Sources
  <2>3. Push(KEYS, scancodes, handler.byte) \in Ring(KEYS, Int) /\ InOrder(KEYS, Push(KEYS, scancodes, handler.byte))
    BY <1>1, <2>2, PushEnqueues, InputAssumption DEF Rings
  <2>4. Rings'
    BY <1>0, <1>1, <2>1, <2>3 DEF Rings
  <2> QED
    BY <1>4, <1>6, <2>1, <2>4
<1>11. CASE push_byte
  <2>1. obf' = obf /\ handler' = None /\ scancodes' = scancodes
    BY <1>11 DEF push_byte, Iret
  <2> DEFINE p == Append(packet, handler.byte)
  <2>2. handler.byte \in Int
    BY <1>1, <1>11 DEF push_byte, Away, InHandler, Sources
  <2>3. p \in Seq(Int) /\ Len(p) = Len(packet) + 1 /\ Len(packet) \in Nat
    BY <1>1, <2>2 DEF Rings
  <2>4. \/ UNCHANGED <<packet, mouse>>
        \/ Len(p) < packet_len /\ packet' = p /\ UNCHANGED mouse
        \/ Len(p) >= packet_len /\ packet' = <<>> /\ mouse' \in {mouse, Push(EVENTS, mouse, EventOf(p))}
    <3> HIDE DEF p
    <3>1. \/ UNCHANGED <<packet, mouse>>
          \/ Len(p) < packet_len /\ packet' = p /\ UNCHANGED mouse
          \/ ~(Len(p) < packet_len) /\ packet' = <<>> /\ mouse' \in {mouse, Push(EVENTS, mouse, EventOf(p))}
      BY <1>11 DEF push_byte, p
    <3> QED
      BY <1>0, <2>3, <3>1
  <2> HIDE DEF p
  <2>5. CASE UNCHANGED <<packet, mouse>>
    BY <1>2, <1>4, <1>6, <2>1, <2>5 DEF queueVars
  <2>6. CASE Len(p) < packet_len /\ packet' = p /\ UNCHANGED mouse
    <3>1. Rings'
      BY <1>0, <1>1, <2>1, <2>3, <2>6 DEF Rings
    <3> QED
      BY <1>4, <1>6, <2>1, <3>1
  <2>7. CASE Len(p) >= packet_len /\ packet' = <<>> /\ mouse' \in {mouse, Push(EVENTS, mouse, EventOf(p))}
    <3>1. EventOf(p) \in Event
      <4>1. Len(p) = packet_len
        BY <1>0, <1>1, <2>3, <2>7 DEF Rings
      <4>2. p[1] \in Int /\ p[2] \in Int /\ p[3] \in Int /\ (packet_len = 4 => p[4] \in Int)
        BY <1>0, <2>3, <4>1
      <4>3. Signed(p[2]) \in Int /\ -Signed(p[3]) \in Int /\ p[1] % 8 \in Int
        BY <4>2 DEF Signed
      <4>4. packet_len = 4 => Wheel(p[4]) \in Int
        BY <4>2 DEF Wheel
      <4> QED
        BY <4>3, <4>4 DEF EventOf, Event
    <3>2. Push(EVENTS, mouse, EventOf(p)) \in Ring(EVENTS, Event) /\ InOrder(EVENTS, Push(EVENTS, mouse, EventOf(p)))
      BY <1>1, <3>1, PushEnqueues, InputAssumption DEF Rings
    <3>3. mouse' \in Ring(EVENTS, Event) /\ InOrder(EVENTS, mouse')
      BY <1>1, <2>7, <3>2 DEF Rings
    <3>4. packet' \in Seq(Int) /\ Len(packet') = 0
      BY <2>7
    <3>5. Rings'
      BY <1>0, <1>1, <2>1, <3>3, <3>4 DEF Rings
    <3> QED
      BY <1>4, <1>6, <2>1, <3>5
  <2> QED
    BY <2>4, <2>5, <2>6, <2>7
<1>12. CASE DrainKeys
  <2>1. UNCHANGED <<obf, handler, mouse, packet>> /\ scancodes' = Clear(scancodes)
    BY <1>12, ZenonT(60) DEF DrainKeys
  <2>2. Clear(scancodes) \in Ring(KEYS, Int) /\ InOrder(KEYS, Clear(scancodes))
    BY <1>1, ClearRing, InputAssumption DEF Rings
  <2>3. Rings'
    BY <1>0, <1>1, <2>1, <2>2 DEF Rings
  <2> QED
    BY <1>3, <1>6, <2>1, <2>3
<1>13. CASE DrainMouse
  <2>1. UNCHANGED <<obf, handler, scancodes>> /\ mouse' = Clear(mouse) /\ packet' = <<>>
    BY <1>13, ZenonT(60) DEF DrainMouse
  <2>2. Clear(mouse) \in Ring(EVENTS, Event) /\ InOrder(EVENTS, Clear(mouse))
    BY <1>1, ClearRing, InputAssumption DEF Rings
  <2>3. packet' \in Seq(Int) /\ Len(packet') = 0
    BY <2>1
  <2>4. Rings'
    BY <1>0, <1>1, <2>1, <2>2, <2>3 DEF Rings
  <2> QED
    BY <1>3, <1>6, <2>1, <2>4
<1>14. CASE PopKey
  <2>1. UNCHANGED <<obf, handler, mouse, packet>>
    BY <1>14, ZenonT(60) DEF PopKey
  <2>2. CASE scancodes.len = 0
    BY <1>2, <1>3, <1>6, <1>14, <2>1, <2>2, ZenonT(60) DEF PopKey, queueVars
  <2>3. CASE scancodes.len # 0
    <3>1. scancodes' = Pop(KEYS, scancodes)
      BY <1>14, <2>3, ZenonT(60) DEF PopKey
    <3>2. Pop(KEYS, scancodes) \in Ring(KEYS, Int) /\ InOrder(KEYS, Pop(KEYS, scancodes))
      BY <1>1, <2>3, PopDequeues, InputAssumption DEF Rings
    <3>3. Rings'
      BY <1>0, <1>1, <2>1, <3>1, <3>2 DEF Rings
    <3> QED
      BY <1>3, <1>6, <2>1, <3>3
  <2> QED
    BY <2>2, <2>3
<1>15. CASE PopEvent
  <2>1. UNCHANGED <<obf, handler, scancodes, packet>>
    BY <1>15, ZenonT(60) DEF PopEvent
  <2>2. CASE mouse.len = 0
    BY <1>2, <1>3, <1>6, <1>15, <2>1, <2>2, ZenonT(60) DEF PopEvent, queueVars
  <2>3. CASE mouse.len # 0
    <3>1. mouse' = Pop(EVENTS, mouse)
      BY <1>15, <2>3, ZenonT(60) DEF PopEvent
    <3>2. Pop(EVENTS, mouse) \in Ring(EVENTS, Event) /\ InOrder(EVENTS, Pop(EVENTS, mouse))
      BY <1>1, <2>3, PopDequeues, InputAssumption DEF Rings
    <3>3. Rings'
      BY <1>0, <1>1, <2>1, <3>1, <3>2 DEF Rings
    <3> QED
      BY <1>3, <1>6, <2>1, <3>3
  <2> QED
    BY <2>2, <2>3
<1>16. ASSUME UNCHANGED <<queueVars, obf, handler>> PROVE QueueInv'
  BY <1>2, <1>3, <1>6, <1>16
<1>17. ASSUME NEW from, NEW queue, NEW to, Lock(from, queue, to) PROVE QueueInv'
  BY <1>16, <1>17 DEF Lock
<1>18. CASE TimerInterrupt \/ InputPoll \/ Hlt
  BY <1>16, <1>18 DEF TimerInterrupt, InputPoll, Hlt
<1>19. CASE UNCHANGED vars
  BY <1>16, <1>19 DEF vars, queueVars
<1> QED
  BY <1>7, <1>8, <1>9, <1>10, <1>11, <1>12, <1>13, <1>14, <1>15, <1>17, <1>18, <1>19, ZenonT(60)
     DEF Next, Handle, Read

-----------------------------------------------------------------------------
(* The mouse.  The handler has taken in so many bytes; they make up w whole *)
(* packets and the one that is under way, and the events that were read or  *)
(* wait in the queue are made, in order, from some of the w.                *)

One(b) == IF b THEN 1 ELSE 0
Taken == msent - One(InHandler("mouse")) - One(InBuffer("mouse"))

\* The events, read and waiting.
Total == Len(events) + mouse.len
Got(i) == IF i <= Len(events) THEN events[i] ELSE Contents(EVENTS, mouse)[i - Len(events)]

Told(w) ==
    \E f \in [1 .. Total -> 1 .. w] :
        /\ \A i, j \in 1 .. Total : i < j => f[i] < f[j]
        /\ \A i \in 1 .. Total : Reports(Got(i), moved[f[i]])

Begun(w) ==
    /\ Taken = packet_len * w + Len(packet)
    /\ \A k \in 1 .. Len(packet) : packet[k] = PacketBytes(moved[w + 1])[k]

MouseInv ==
    /\ Taken >= 0
    /\ InHandler("mouse") => handler.byte = MouseByte(Taken)
    /\ InBuffer("mouse") => obf.byte = MouseByte(msent - 1)
    /\ events \in Seq(Event)
    /\ ~torn => \E w \in 0 .. Len(moved) : Begun(w) /\ Told(w)

\* Nothing has happened yet.
LEMMA InitMouse == Init => MouseInv
<1> SUFFICES ASSUME Init PROVE MouseInv
  OBVIOUS
<1>1. /\ msent = 0 /\ obf = None /\ handler = None /\ events = <<>> /\ packet = <<>>
      /\ mouse.len = 0
  BY ZenonT(60) DEF Init, Empty
<1>2. ~InHandler("mouse") /\ ~InBuffer("mouse") /\ Taken = 0
  BY <1>1 DEF InHandler, InBuffer, Taken, One
<1>3. 0 \in 0 .. Len(moved)
  BY InitDevice DEF DeviceInv
<1>4. Begun(0)
  <2>1. packet_len * 0 = 0
    BY InitDevice DEF DeviceInv
  <2> QED
    BY <1>1, <1>2, <2>1 DEF Begun
<1>5. Told(0)
  <2>1. Total = 0
    BY <1>1 DEF Total
  <2>2. [i \in 1 .. 0 |-> i] \in [1 .. Total -> 1 .. 0]
    BY <2>1
  <2>3. PICK f \in [1 .. Total -> 1 .. 0] : TRUE
    BY <2>2, ZenonT(60)
  <2>4. 1 .. Total = {}
    BY <2>1
  <2> QED
    BY <2>3, <2>4, ZenonT(60) DEF Told
<1>6. events \in Seq(Event)
  BY <1>1
<1> QED
  BY <1>2, <1>3, <1>4, <1>5, <1>6 DEF MouseInv

\* What was told stays told when later events are forgotten.
LEMMA Fewer ==
    ASSUME NEW w \in Nat, NEW v \in Nat, w <= v, Told(w),
           Total \in Nat, Total' \in Nat, Total' <= Total, UNCHANGED <<moved, packet_len>>,
           \A i \in 1 .. Total' : Got(i)' = Got(i)
    PROVE  Told(v)'
<1>1. PICK f \in [1 .. Total -> 1 .. w] :
          /\ \A i, j \in 1 .. Total : i < j => f[i] < f[j]
          /\ \A i \in 1 .. Total : Reports(Got(i), moved[f[i]])
  BY DEF Told
<1>6. PICK g : g = [i \in 1 .. Total' |-> f[i]]
  BY ZenonT(60)
<1>2. \A i \in 1 .. Total' : i \in 1 .. Total /\ g[i] = f[i] /\ f[i] \in 1 .. w
  BY <1>1, <1>6
<1>3. g \in [1 .. Total' -> 1 .. v]
  BY <1>2, <1>6
<1>4. \A i, j \in 1 .. Total' : i < j => g[i] < g[j]
  BY <1>1, <1>2
<1>5. ASSUME NEW i \in 1 .. Total' PROVE Reports(Got(i), moved[g[i]])'
  <2>1. Reports(Got(i), moved[f[i]])
    BY <1>1, <1>2
  <2>2. Got(i)' = Got(i) /\ moved' = moved /\ g[i] = f[i] /\ packet_len' = packet_len
    BY <1>2
  <2> QED
    BY <2>1, <2>2 DEF Reports
<1> QED
  BY <1>3, <1>4, <1>5, ZenonT(60) DEF Told

\* A new event comes after all others; a full queue forgets its oldest.
LEMMA More ==
    ASSUME NEW w \in Nat, Told(w), Total \in Nat, NEW e \in Nat, NEW drop \in {0, 1},
           e + drop <= Total, Total' = Total - drop + 1, UNCHANGED <<moved, packet_len>>,
           \A i \in 1 .. Total' - 1 : Got(i)' = Got(IF i <= e THEN i ELSE i + drop),
           Reports(Got(Total), moved[w + 1])'
    PROVE  Told(w + 1)'
<1>1. PICK f \in [1 .. Total -> 1 .. w] :
          /\ \A i, j \in 1 .. Total : i < j => f[i] < f[j]
          /\ \A i \in 1 .. Total : Reports(Got(i), moved[f[i]])
  BY ZenonT(60) DEF Told
<1>2. PICK n \in Nat \ {0} : n = Total'
  OBVIOUS
<1> DEFINE Old(i) == IF i <= e THEN i ELSE i + drop
<1>3. PICK g : g = [i \in 1 .. n |-> IF i = n THEN w + 1 ELSE f[Old(i)]]
  BY ZenonT(60)
<1>4. ASSUME NEW i \in 1 .. n - 1 PROVE Old(i) \in 1 .. Total
  BY <1>2
<1>5. \A i \in 1 .. n - 1 : g[i] = f[Old(i)] /\ g[i] \in 1 .. w /\ Old(i) \in 1 .. Total
  <2> SUFFICES ASSUME NEW i \in 1 .. n - 1 PROVE g[i] = f[Old(i)] /\ g[i] \in 1 .. w /\ Old(i) \in 1 .. Total
    OBVIOUS
  <2>1. i \in 1 .. n /\ i # n
    BY <1>2
  <2>2. g[i] = f[Old(i)]
    <3> HIDE DEF Old
    <3> QED
      BY <1>3, <2>1
  <2>3. Old(i) \in 1 .. Total
    BY <1>4, ZenonT(60)
  <2> HIDE DEF Old
  <2> QED
    BY <1>1, <2>2, <2>3
<1>6. g[n] = w + 1
  BY <1>2, <1>3
<1>7. g \in [1 .. n -> 1 .. w + 1]
  <2>1. ASSUME NEW i \in 1 .. n PROVE g[i] \in 1 .. w + 1
    <3>1. CASE i = n
      BY <1>6, <3>1
    <3>2. CASE i # n
      <4>1. i \in 1 .. n - 1
        BY <1>2, <3>2
      <4>2. g[i] \in 1 .. w
        BY <1>5, <4>1
      <4> QED
        BY <4>2
    <3> QED
      BY <3>1, <3>2
  <2>2. DOMAIN g = 1 .. n /\ g = [i \in 1 .. n |-> g[i]]
    BY <1>3
  <2> QED
    BY <2>1, <2>2
<1>8. ASSUME NEW i \in 1 .. n, NEW j \in 1 .. n, i < j PROVE g[i] < g[j]
  <2>1. i \in 1 .. n - 1
    BY <1>2, <1>8
  <2>2. CASE j = n
    BY <1>5, <1>6, <2>1, <2>2
  <2>3. CASE j # n
    <3>1. j \in 1 .. n - 1
      BY <1>2, <2>3
    <3>2. Old(i) < Old(j)
      BY <1>8
    <3> HIDE DEF Old
    <3> QED
      BY <1>1, <1>5, <2>1, <3>1, <3>2
  <2> QED
    BY <2>2, <2>3
<1>9. ASSUME NEW i \in 1 .. n PROVE Reports(Got(i), moved[g[i]])'
  <2>1. CASE i = n
    BY <1>2, <1>6, <2>1
  <2>2. CASE i # n
    <3>1. i \in 1 .. n - 1
      BY <1>2, <2>2
    <3>2. Got(i)' = Got(Old(i))
      BY <1>2, <3>1
    <3> HIDE DEF Old
    <3>3. Reports(Got(Old(i)), moved[g[i]])
      BY <1>1, <1>5, <3>1
    <3> QED
      BY <3>2, <3>3, ZenonT(60) DEF Reports
  <2> QED
    BY <2>1, <2>2
<1>10. 1 .. Total' = 1 .. n
  BY <1>2
<1> QED
  BY <1>7, <1>8, <1>9, <1>10, ZenonT(60) DEF Told

\* push_byte takes in the next byte of the mouse; the last one of a packet
\* makes an event.
LEMMA PushByteMouse ==
    ASSUME DeviceInv, QueueInv, QueueInv', MouseInv, push_byte, ~torn,
           UNCHANGED <<typed, moved, packet_len>>
    PROVE  \E w \in 0 .. Len(moved) : Begun(w)' /\ Told(w)'
<1> DEFINE b == handler.byte
           p == Append(packet, b)
           l == Len(packet)
           c == packet_len
<1>1. /\ InHandler("mouse") /\ ~InHandler("mouse")' /\ InBuffer("mouse")' = InBuffer("mouse")
      /\ UNCHANGED <<msent, events>>
  BY DEF push_byte, Iret, InHandler, InBuffer, historyVars, deviceVars
<1>2. b = MouseByte(Taken)
  BY <1>1 DEF MouseInv
<1>3. PICK w \in 0 .. Len(moved) : Begun(w) /\ Told(w)
  BY DEF MouseInv
<1>4. l \in 0 .. c - 1 /\ c \in {3, 4} /\ packet \in Seq(Int) /\ b \in Int /\ msent \in Nat
      /\ Len(moved) \in Nat /\ moved \in Seq(Motion) /\ w \in Nat
  BY <1>1 DEF DeviceInv, QueueInv, InHandler, Sources
<1>5. Taken' = Taken + 1 /\ Taken \in Int /\ Taken < msent
  BY <1>1, <1>4 DEF Taken, One
<1>6. Taken = c * w + l
  BY <1>3 DEF Begun
<1>7. w < Len(moved)
  <2>1. msent <= c * Len(moved)
    BY DEF DeviceInv
  <2>2. CASE c = 3
    BY <1>4, <1>5, <1>6, <2>1, <2>2
  <2>3. CASE c = 4
    BY <1>4, <1>5, <1>6, <2>1, <2>3
  <2> QED
    BY <1>4, <2>2, <2>3
<1> DEFINE m == moved[w + 1]
<1>8. m \in Motion /\ w + 1 \in 0 .. Len(moved)
  BY <1>4, <1>7
<1>9. b = PacketBytes(m)[l + 1]
  BY <1>2, <1>4, <1>6, ByteOfPacket
<1> HIDE DEF m, b
<1>10. Len(p) = l + 1 /\ \A k \in 1 .. l + 1 : p[k] = PacketBytes(m)[k]
  <2>1. \A k \in 1 .. l : packet[k] = PacketBytes(m)[k]
    BY <1>3 DEF Begun, m
  <2> QED
    BY <1>4, <1>9, <2>1
<1>11. Total \in Nat /\ Total' \in Nat /\ Len(events) \in Nat /\ mouse.len \in 0 .. EVENTS /\ EVENTS \in Nat \ {0}
       /\ mouse'.len \in 0 .. EVENTS
  <2>1. mouse.len \in 0 .. EVENTS
    BY DEF QueueInv, Ring
  <2>2. mouse'.len \in 0 .. EVENTS
    BY DEF QueueInv, Ring
  <2>3. Len(events) \in Nat /\ events' = events
    BY <1>1 DEF MouseInv
  <2>4. EVENTS \in Nat \ {0}
    BY InputAssumption
  <2> QED
    BY <2>1, <2>2, <2>3, <2>4 DEF Total
<1>12. ~(packet = <<>> /\ (b \div 8) % 2 = 0)
  <2> SUFFICES ASSUME packet = <<>> PROVE (b \div 8) % 2 = 1
    OBVIOUS
  <2>1. b = PacketBytes(m)[1]
    BY <1>9
  <2> QED
    BY <1>8, <2>1, FirstByte
<1> HIDE DEF p
<1>13. \/ Len(p) < c /\ packet' = p /\ UNCHANGED mouse
       \/ /\ ~(Len(p) < c) /\ packet' = <<>>
          /\ mouse' = IF Overflowed(p[1]) THEN mouse ELSE Push(EVENTS, mouse, EventOf(p))
  BY <1>12 DEF push_byte, p, b
<1>14. ASSUME UNCHANGED mouse
       PROVE  \A i \in 1 .. Total' : Got(i)' = Got(i) /\ Total' = Total
  BY <1>1, <1>14 DEF Got, Total, Contents
<1>15. CASE Len(p) < c /\ packet' = p /\ UNCHANGED mouse
  <2>1. Begun(w)'
    <3>1. Taken' = c * w + Len(p)
      <4>1. c * w \in Int
        BY <1>4
      <4> QED
        BY <1>4, <1>5, <1>6, <1>10, <4>1
    <3> QED
      BY <1>10, <1>15, <3>1 DEF Begun, m
  <2>2. Total' = Total
    BY <1>1, <1>15 DEF Total
  <2>3. Told(w)'
    BY <1>3, <1>4, <1>11, <1>14, <1>15, <2>2, Fewer
  <2> QED
    BY <2>1, <2>3
<1>16. CASE /\ ~(Len(p) < c) /\ packet' = <<>>
            /\ mouse' = IF Overflowed(p[1]) THEN mouse ELSE Push(EVENTS, mouse, EventOf(p))
  <2>1. l + 1 = c
    BY <1>4, <1>10, <1>16
  <2>2. \A k \in 1 .. c : p[k] = PacketBytes(m)[k]
    BY <1>10, <2>1
  <2>3. (Overflowed(p[1]) <=> m.overflow) /\ (~m.overflow => Reports(EventOf(p), m))
    BY <1>4, <1>8, <2>2, PacketEvent, ZenonT(60)
  <2>4. Begun(w + 1)'
    <3>1. Taken' = c * (w + 1)
      <4>1. CASE c = 3
        BY <1>4, <1>5, <1>6, <2>1, <4>1
      <4>2. CASE c = 4
        BY <1>4, <1>5, <1>6, <2>1, <4>2
      <4> QED
        BY <1>4, <4>1, <4>2
    <3>2. c * (w + 1) \in Int
      BY <1>4
    <3> QED
      BY <1>16, <3>1, <3>2 DEF Begun
  <2>5. CASE Overflowed(p[1])
    <3>1. UNCHANGED mouse
      BY <1>16, <2>5
    <3>2. Total' = Total
      BY <1>1, <3>1 DEF Total
    <3>3. w + 1 \in Nat /\ w <= w + 1
      BY <1>4
    <3>4. Told(w + 1)'
      BY <1>3, <1>4, <1>11, <1>14, <3>1, <3>2, <3>3, Fewer
    <3> QED
      BY <1>8, <2>4, <3>4
  <2>6. CASE ~Overflowed(p[1])
    <3> DEFINE x == EventOf(p)
               q == Push(EVENTS, mouse, x)
    <3>1. mouse' = q /\ Reports(x, m)
      BY <1>16, <2>3, <2>6
    <3>2. x \in Event
      <4>1. Signed(p[2]) \in Int /\ -Signed(p[3]) \in Int
        <5>1. Signed(p[2]) = EightBits(m.dx) /\ -Signed(p[3]) = -EightBits(-m.dy)
          BY <3>1 DEF Reports, EventOf
        <5>2. EightBits(m.dx) \in Int /\ -EightBits(-m.dy) \in Int
          BY <1>8, MotionType DEF EightBits
        <5> QED
          BY <5>1, <5>2, ZenonT(60)
      <4>2. x.buttons = m.buttons /\ x.wheel \in {m.wheel, 0}
        BY <3>1 DEF Reports
      <4>3. m.buttons \in Int /\ m.wheel \in Int
        BY <1>8, MotionType
      <4> QED
        BY <4>1, <4>2, <4>3 DEF EventOf, Event
    <3> HIDE DEF x
    <3>3. PICK drop \in {0, 1} : drop = IF mouse.len = EVENTS THEN 1 ELSE 0
      OBVIOUS
    <3>4. /\ q.len = mouse.len - drop + 1
          /\ Contents(EVENTS, q)[q.len] = x
          /\ \A i \in 1 .. q.len - 1 : Contents(EVENTS, q)[i] = Contents(EVENTS, mouse)[i + drop]
      BY <1>11, <3>2, <3>3, PushEnqueues DEF QueueInv
    <3> HIDE DEF q
    <3>5. PICK e \in Nat : e = Len(events)
      BY <1>11
    <3>6. Total' = Total - drop + 1 /\ e + drop <= Total /\ Total' = e + q.len /\ Total = e + mouse.len
      BY <1>1, <1>11, <3>1, <3>3, <3>4, <3>5 DEF Total
    <3>7. ASSUME NEW i \in 1 .. Total' - 1
          PROVE  Got(i)' = Got(IF i <= e THEN i ELSE i + drop)
      <4>1. CASE i <= e
        BY <1>1, <3>5, <4>1 DEF Got
      <4>2. CASE ~(i <= e)
        <5>1. Got(i)' = Contents(EVENTS, q)[i - e]
          BY <1>1, <3>1, <3>5, <4>2 DEF Got
        <5>2. ~(i + drop <= e) /\ (i + drop) - e = (i - e) + drop
          BY <4>2
        <5>3. Got(i + drop) = Contents(EVENTS, mouse)[(i + drop) - e]
          BY <3>5, <5>2 DEF Got
        <5>4. i - e \in 1 .. q.len - 1
          BY <1>11, <3>3, <3>4, <3>6, <4>2
        <5>5. Contents(EVENTS, q)[i - e] = Contents(EVENTS, mouse)[(i - e) + drop]
          BY <3>4, <5>4
        <5> QED
          BY <4>2, <5>1, <5>2, <5>3, <5>5
      <4> QED
        BY <4>1, <4>2
    <3>8. Got(Total)' = x
      <4>1. ~(Total' <= e) /\ Total' - e = q.len
        BY <1>11, <3>3, <3>4, <3>6
      <4>2. Got(Total)' = IF Total' <= Len(events)' THEN events'[Total']
                          ELSE Contents(EVENTS, mouse')[Total' - Len(events)']
        BY DEF Got
      <4> QED
        BY <1>1, <3>1, <3>4, <3>5, <4>1, <4>2, ZenonT(60)
    <3>9. Reports(Got(Total), moved[w + 1])'
      BY <3>1, <3>8 DEF Reports, m
    <3>10. Told(w + 1)'
      BY <1>3, <1>4, <1>11, <3>6, <3>7, <3>9, More, ZenonT(60)
    <3> QED
      BY <1>8, <2>4, <3>10
  <2> QED
    BY <2>5, <2>6
<1> QED
  BY <1>13, <1>15, <1>16

\* A step that neither takes in a byte nor touches the events.
LEMMA MouseKept ==
    ASSUME DeviceInv, QueueInv, MouseInv, UNCHANGED <<moved, packet_len, packet, mouse, events, torn>>,
           Taken' = Taken,
           InHandler("mouse")' => handler'.byte = MouseByte(Taken),
           InBuffer("mouse")' => obf'.byte = MouseByte(msent' - 1)
    PROVE  MouseInv'
<1>1. ASSUME NEW n PROVE MouseByte(n)' = MouseByte(n)
  BY DEF MouseByte
<1>2. ASSUME NEW w, Begun(w) PROVE Begun(w)'
  BY <1>2 DEF Begun
<1>3. ASSUME NEW w \in Nat, Told(w) PROVE Told(w)'
  <2>1. mouse.len \in Nat
    BY DEF QueueInv, Ring
  <2>2. Total \in Nat
    BY <2>1 DEF Total, MouseInv
  <2>3. Total' = Total /\ w <= w
    BY DEF Total
  <2>4. \A i \in 1 .. Total' : Got(i)' = Got(i)
    BY DEF Got, Contents
  <2>5. Total' \in Nat /\ Total' <= Total
    BY <2>2, <2>3
  <2> QED
    BY <1>3, <2>2, <2>3, <2>4, <2>5, Fewer
<1>4. (InHandler("mouse") => handler.byte = MouseByte(Taken))'
  BY <1>1 DEF MouseByte
<1>5. (InBuffer("mouse") => obf.byte = MouseByte(msent - 1))'
  BY <1>1 DEF MouseByte
<1>6. (~torn => \E w \in 0 .. Len(moved) : Begun(w) /\ Told(w))'
  <2> SUFFICES ASSUME ~torn' PROVE \E w \in 0 .. Len(moved) : Begun(w)' /\ Told(w)'
    OBVIOUS
  <2>1. PICK w \in 0 .. Len(moved) : Begun(w) /\ Told(w)
    BY DEF MouseInv
  <2>2. w \in Nat
    BY DEF DeviceInv
  <2> QED
    BY <1>2, <1>3, <2>1, <2>2
<1>7. Taken' >= 0 /\ events' \in Seq(Event)
  BY DEF MouseInv
<1> QED
  BY <1>4, <1>5, <1>6, <1>7 DEF MouseInv

\* Every step keeps the mouse in step.
LEMMA NextMouse ==
    ASSUME Inv, DeviceInv, QueueInv, QueueInv', MouseInv, [Next]_vars
    PROVE  MouseInv'
<1>0. /\ UNCHANGED <<typed, moved, packet_len>> /\ packet_len \in {3, 4} /\ msent \in Nat
      /\ Len(moved) \in Nat
  BY NextDevice DEF DeviceInv
<1>1. ASSUME UNCHANGED <<msent, obf, handler>>
      PROVE  /\ Taken' = Taken
             /\ InHandler("mouse")' => handler'.byte = MouseByte(Taken)
             /\ InBuffer("mouse")' => obf'.byte = MouseByte(msent' - 1)
  BY <1>1 DEF Taken, InHandler, InBuffer, One, MouseInv
<1>2. ASSUME NEW n PROVE MouseByte(n)' = MouseByte(n)
  BY <1>0 DEF MouseByte
<1>3. CASE Send
  <2>1. UNCHANGED <<packet, mouse, events, torn, handler>> /\ obf = None
    BY <1>3 DEF Send, queueVars, historyVars
  <2>2. ~InBuffer("mouse") /\ InHandler("mouse")' = InHandler("mouse")
    BY <2>1 DEF InBuffer, InHandler
  <2>3. CASE msent' = msent + 1 /\ obf' = [src |-> "mouse", byte |-> MouseByte(msent)]
    <3>1. InBuffer("mouse")' /\ msent' - 1 = msent
      BY <1>0, <2>3 DEF InBuffer, None
    <3>2. Taken' = Taken
      BY <1>0, <2>2, <2>3, <3>1 DEF Taken, One
    <3>3. InHandler("mouse")' => handler'.byte = MouseByte(Taken)
      <4>1. InHandler("mouse") => handler.byte = MouseByte(Taken)
        BY ZenonT(60) DEF MouseInv
      <4>2. handler' = handler
        BY <2>1, ZenonT(60)
      <4> QED
        BY <2>2, <4>1, <4>2, ZenonT(60)
    <3>4. obf'.byte = MouseByte(msent' - 1)
      BY <2>3, <3>1
    <3> QED
      BY <1>0, <2>1, <3>2, <3>3, <3>4, MouseKept, ZenonT(60)
  <2>4. CASE msent' = msent /\ obf'.src = "keyboard"
    <3>1. ~InBuffer("mouse")'
      BY <2>4 DEF InBuffer
    <3>2. Taken' = Taken
      BY <2>2, <2>4, <3>1 DEF Taken, One
    <3>3. InHandler("mouse")' => handler'.byte = MouseByte(Taken)
      <4>1. InHandler("mouse") => handler.byte = MouseByte(Taken)
        BY ZenonT(60) DEF MouseInv
      <4>2. handler' = handler
        BY <2>1, ZenonT(60)
      <4> QED
        BY <2>2, <4>1, <4>2, ZenonT(60)
    <3> QED
      BY <1>0, <2>1, <3>1, <3>2, <3>3, MouseKept, ZenonT(60)
  <2> QED
    BY <1>3, <2>3, <2>4 DEF Send
<1>4. CASE Interrupt
  <2>1. UNCHANGED <<packet, mouse, events, torn, obf, msent>> /\ handler = None /\ handler'.step = "read"
    BY <1>4 DEF Interrupt, queueVars, historyVars, deviceVars
  <2>2. ~InHandler("mouse") /\ ~InHandler("mouse")' /\ InBuffer("mouse")' = InBuffer("mouse")
    BY <2>1 DEF InHandler, InBuffer
  <2>3. Taken' = Taken
    BY <2>1, <2>2 DEF Taken, One
  <2>4. InBuffer("mouse")' => obf'.byte = MouseByte(msent' - 1)
    BY <2>1, <2>2 DEF MouseInv
  <2> QED
    BY <1>0, <2>1, <2>2, <2>3, <2>4, MouseKept, ZenonT(60)
<1>5. CASE read_interrupt_data
  <2>1. UNCHANGED <<packet, mouse, events, torn, msent>> /\ handler # None /\ handler.step = "read"
    BY <1>5 DEF read_interrupt_data, queueVars, historyVars, deviceVars
  <2>2. ~InHandler("mouse")
    BY <2>1 DEF InHandler
  <2>3. CASE obf.src = handler.src
    <3>1. obf' = None /\ handler' = [src |-> handler.src, step |-> "push", byte |-> obf.byte]
      BY <1>5, <2>3 DEF read_interrupt_data
    <3>2. ~InBuffer("mouse")' /\ InHandler("mouse")' = InBuffer("mouse")
      <4>1. handler' # None /\ obf # None
        BY <2>1, <2>3, <3>1 DEF None, Inv, TypeInv, Sources
      <4> QED
        BY <2>3, <3>1, <4>1 DEF InHandler, InBuffer
    <3>3. Taken' = Taken
      BY <1>0, <2>1, <2>2, <3>2 DEF Taken, One
    <3>4. InHandler("mouse")' => handler'.byte = MouseByte(Taken)
      <4>1. InBuffer("mouse") => obf.byte = MouseByte(msent - 1) /\ Taken = msent - 1
        BY <1>0, <2>2 DEF MouseInv, Taken, One
      <4> QED
        BY <3>1, <3>2, <4>1
    <3> QED
      BY <1>0, <2>1, <3>2, <3>3, <3>4, MouseKept
  <2>4. CASE obf.src # handler.src
    <3>1. obf' = obf /\ handler' = None
      BY <1>5, <2>4 DEF read_interrupt_data
    <3>2. ~InHandler("mouse")' /\ InBuffer("mouse")' = InBuffer("mouse")
      BY <3>1 DEF InHandler, InBuffer
    <3>3. Taken' = Taken
      BY <2>1, <2>2, <3>2 DEF Taken, One
    <3>4. InBuffer("mouse")' => obf'.byte = MouseByte(msent' - 1)
      BY <2>1, <3>1, <3>2 DEF MouseInv
    <3> QED
      BY <1>0, <2>1, <3>2, <3>3, <3>4, MouseKept
  <2> QED
    BY <2>3, <2>4
<1>6. CASE PushScancode
  <2>1. UNCHANGED <<packet, mouse, events, torn, msent, obf>> /\ handler.src = "keyboard" /\ handler' = None
    BY <1>6 DEF PushScancode, Iret, deviceVars
  <2>2. ~InHandler("mouse") /\ ~InHandler("mouse")' /\ InBuffer("mouse")' = InBuffer("mouse")
    BY <2>1 DEF InHandler, InBuffer
  <2>3. Taken' = Taken
    BY <2>1, <2>2 DEF Taken, One
  <2>4. InBuffer("mouse")' => obf'.byte = MouseByte(msent' - 1)
    BY <2>1, <2>2 DEF MouseInv
  <2> QED
    BY <1>0, <2>1, <2>2, <2>3, <2>4, MouseKept
<1>7. CASE push_byte
  <2>1. UNCHANGED <<events, torn, msent, obf>> /\ handler' = None
    BY <1>7 DEF push_byte, Iret, deviceVars, historyVars
  <2>2. InHandler("mouse") /\ ~InHandler("mouse")' /\ InBuffer("mouse")' = InBuffer("mouse")
    BY <1>7, <2>1 DEF InHandler, InBuffer, push_byte
  <2>3. Taken' >= 0
    BY <1>0, <2>1, <2>2 DEF Taken, One, MouseInv
  <2>4. InBuffer("mouse")' => obf'.byte = MouseByte(msent - 1)'
    BY <1>0, <2>1, <2>2, ZenonT(60) DEF MouseInv, MouseByte
  <2>5. (~torn => \E w \in 0 .. Len(moved) : Begun(w) /\ Told(w))'
    BY <1>0, <1>7, <2>1, PushByteMouse
  <2> QED
    BY <2>1, <2>2, <2>3, <2>4, <2>5 DEF MouseInv
<1>8. CASE DrainMouse
  <2>1. /\ UNCHANGED <<events, msent, obf, handler>> /\ mouse' = Clear(mouse) /\ packet' = <<>>
        /\ torn' = (torn \/ packet # <<>>)
    BY <1>8, ZenonT(60) DEF DrainMouse, deviceVars
  <2>2. mouse'.len = 0 /\ mouse.len \in Nat /\ Len(events) \in Nat
    <3>1. mouse \in Ring(EVENTS, Event) /\ Len(events) \in Nat
      BY DEF QueueInv, MouseInv
    <3>2. Clear(mouse).len = 0
      BY <3>1, ClearRing, InputAssumption
    <3>3. mouse.len \in Nat
      BY <3>1 DEF Ring
    <3> QED
      BY <2>1, <3>1, <3>2, <3>3
  <2>3. (~torn => \E w \in 0 .. Len(moved) : Begun(w) /\ Told(w))'
    <3> SUFFICES ASSUME ~torn' PROVE \E w \in 0 .. Len(moved) : Begun(w)' /\ Told(w)'
      BY <1>0
    <3>1. ~torn /\ packet' = packet
      BY <2>1, ZenonT(60)
    <3>2. PICK w \in 0 .. Len(moved) : Begun(w) /\ Told(w)
      BY <3>1 DEF MouseInv
    <3>3. Begun(w)'
      BY <1>0, <1>1, <2>1, <3>1, <3>2, ZenonT(60) DEF Begun
    <3>4. Total' = Len(events) /\ Total \in Nat /\ Total' <= Total /\ w \in Nat /\ Total' \in Nat
      BY <2>1, <2>2 DEF Total
    <3>5. \A i \in 1 .. Total' : Got(i)' = Got(i)
      BY <2>1, <3>4 DEF Got
    <3>6. Told(w)'
      BY <1>0, <3>2, <3>4, <3>5, Fewer
    <3> QED
      BY <3>3, <3>6
  <2>4. (InHandler("mouse") => handler.byte = MouseByte(Taken))'
    BY <1>0, <1>1, <2>1, ZenonT(60) DEF MouseByte
  <2>5. (InBuffer("mouse") => obf.byte = MouseByte(msent - 1))'
    BY <1>0, <1>1, <2>1, ZenonT(60) DEF MouseByte
  <2> QED
    BY <1>1, <2>1, <2>3, <2>4, <2>5, ZenonT(60) DEF MouseInv
<1>9. CASE PopEvent
  <2>1. /\ UNCHANGED <<msent, obf, handler, packet, torn>>
    BY <1>9, ZenonT(60) DEF PopEvent, deviceVars
  <2>2. CASE mouse.len = 0
    <3>1. UNCHANGED <<mouse, events>>
      BY <1>9, <2>2, ZenonT(60) DEF PopEvent
    <3> QED
      BY <1>0, <1>1, <2>1, <3>1, MouseKept
  <2>3. CASE mouse.len # 0
    <3> DEFINE q == Pop(EVENTS, mouse)
               x == Oldest(mouse)
    <3>1. mouse' = q /\ events' = Append(events, x)
      BY <1>9, <2>3, ZenonT(60) DEF PopEvent
    <3>2. /\ x = Contents(EVENTS, mouse)[1] /\ q.len = mouse.len - 1
          /\ \A i \in 1 .. q.len : Contents(EVENTS, q)[i] = Contents(EVENTS, mouse)[i + 1]
      BY <2>3, PopDequeues, InputAssumption DEF QueueInv
    <3>3. x \in Event
      BY ZenonT(60) DEF Oldest, QueueInv, Ring
    <3> HIDE DEF q, x
    <3>4. mouse.len \in Nat \ {0} /\ events \in Seq(Event)
      BY <2>3 DEF QueueInv, Ring, MouseInv
    <3>5. PICK e \in Nat : e = Len(events)
      BY <3>4
    <3>6. Len(events') = e + 1 /\ events' \in Seq(Event) /\ events'[e + 1] = x
          /\ \A i \in 1 .. e : events'[i] = events[i]
      BY <3>1, <3>3, <3>4, <3>5
    <3>7. Total' = Total /\ Total \in Nat /\ Total = e + mouse.len
      <4>1. Total' = Len(events') + mouse'.len /\ Total = Len(events) + mouse.len
        BY DEF Total
      <4>2. mouse'.len = mouse.len - 1
        BY <3>1, <3>2
      <4> QED
        BY <3>4, <3>5, <3>6, <4>1, <4>2
    <3>8. ASSUME NEW i \in 1 .. Total' PROVE Got(i)' = Got(i)
      <4>1. CASE i <= e
        BY <3>5, <3>6, <4>1 DEF Got
      <4>2. CASE i = e + 1
        <5>1. Got(i)' = x
          BY <3>6, <4>2 DEF Got
        <5>2. ~(i <= e) /\ i - e = 1
          BY <4>2
        <5> QED
          BY <3>2, <3>5, <5>1, <5>2, ZenonT(60) DEF Got
      <4>3. CASE i > e + 1
        <5>1. ~(i <= e + 1) /\ ~(i <= e) /\ i - (e + 1) \in 1 .. q.len /\ (i - (e + 1)) + 1 = i - e
          BY <3>2, <3>4, <3>7, <4>3
        <5>2. Got(i)' = Contents(EVENTS, q)[i - (e + 1)]
          BY <3>1, <3>6, <5>1 DEF Got
        <5>3. Got(i) = Contents(EVENTS, mouse)[i - e]
          BY <3>5, <5>1 DEF Got
        <5> QED
          BY <3>2, <5>1, <5>2, <5>3
      <4> QED
        BY <3>7, <4>1, <4>2, <4>3
    <3>9. (~torn => \E w \in 0 .. Len(moved) : Begun(w) /\ Told(w))'
      <4> SUFFICES ASSUME ~torn' PROVE \E w \in 0 .. Len(moved) : Begun(w)' /\ Told(w)'
        BY <1>0
      <4>1. PICK w \in 0 .. Len(moved) : Begun(w) /\ Told(w)
        BY <2>1 DEF MouseInv
      <4>2. Begun(w)'
        BY <1>0, <1>1, <2>1, <4>1, ZenonT(60) DEF Begun
      <4>3. w \in Nat /\ w <= w /\ Total' <= Total /\ Total' \in Nat
        BY <3>7
      <4>4. Told(w)'
        BY <1>0, <3>7, <3>8, <4>1, <4>3, Fewer
      <4> QED
        BY <4>2, <4>4
    <3>10. (InHandler("mouse") => handler.byte = MouseByte(Taken))'
      BY <1>0, <1>1, <2>1, ZenonT(60) DEF MouseByte
    <3>11. (InBuffer("mouse") => obf.byte = MouseByte(msent - 1))'
      BY <1>0, <1>1, <2>1, ZenonT(60) DEF MouseByte
    <3> QED
      BY <1>1, <2>1, <3>6, <3>9, <3>10, <3>11, ZenonT(60) DEF MouseInv
  <2> QED
    BY <2>2, <2>3
<1>10. ASSUME UNCHANGED <<msent, obf, handler, packet, mouse, events, torn>> PROVE MouseInv'
  BY <1>0, <1>1, <1>10, MouseKept
<1>11. ASSUME NEW from, NEW queue, NEW to, Lock(from, queue, to) PROVE MouseInv'
  BY <1>10, <1>11 DEF Lock, deviceVars, queueVars, historyVars
<1>12. CASE TimerInterrupt \/ InputPoll \/ Hlt
  BY <1>10, <1>12, ZenonT(60) DEF TimerInterrupt, InputPoll, Hlt, deviceVars, queueVars, historyVars
<1>13. CASE DrainKeys \/ PopKey
  BY <1>10, <1>13, ZenonT(60) DEF DrainKeys, PopKey, deviceVars
<1>14. CASE UNCHANGED vars
  BY <1>10, <1>14 DEF vars
<1> QED
  BY <1>3, <1>4, <1>5, <1>6, <1>7, <1>8, <1>9, <1>11, <1>12, <1>13, <1>14, ZenonT(60)
     DEF Next, Handle, Read

\* What is known of the bytes on their way and of the queues.
FlowInv == Inv /\ DeviceInv /\ QueueInv /\ MouseInv

\* The invariant of the input path.
THEOREM FlowHolds == Spec => []FlowInv
<1>1. Init => FlowInv
  BY InitInv, InitDevice, InitQueue, InitMouse DEF FlowInv
<1>2. FlowInv /\ [Next]_vars => FlowInv'
  <2> SUFFICES ASSUME FlowInv, [Next]_vars PROVE FlowInv'
    OBVIOUS
  <2>1. Inv' /\ DeviceInv' /\ QueueInv'
    BY NextInv, NextDevice, NextQueue DEF FlowInv
  <2>2. MouseInv'
    BY <2>1, NextMouse DEF FlowInv
  <2> QED
    BY <2>1, <2>2 DEF FlowInv
<1> QED
  BY <1>1, <1>2, PTL DEF Spec

\* Every mouse event that the reader gets stands for one report of the mouse, in
\* order and at most once, and differs from it by the ninth bit of a motion at
\* most, however the handler and the reader interleave and however small the
\* queue is.
THEOREM EventsAreRealHolds == Spec => []EventsAreReal
<1>1. FlowInv => EventsAreReal
  <2> SUFFICES ASSUME FlowInv, ~torn
               PROVE  \E f \in [DOMAIN events -> DOMAIN moved] :
                        /\ \A i, j \in DOMAIN events : i < j => f[i] < f[j]
                        /\ \A i \in DOMAIN events : Reports(events[i], moved[f[i]])
    BY DEF EventsAreReal
  <2>1. PICK w \in 0 .. Len(moved) : Told(w)
    BY ZenonT(60) DEF FlowInv, MouseInv
  <2>2. PICK f \in [1 .. Total -> 1 .. w] :
          /\ \A i, j \in 1 .. Total : i < j => f[i] < f[j]
          /\ \A i \in 1 .. Total : Reports(Got(i), moved[f[i]])
    BY <2>1, ZenonT(60) DEF Told
  <2>3. /\ Len(events) \in Nat /\ mouse.len \in Nat /\ DOMAIN events = 1 .. Len(events)
        /\ DOMAIN moved = 1 .. Len(moved) /\ Len(moved) \in Nat
    BY DEF FlowInv, DeviceInv, QueueInv, MouseInv, Ring
  <2>4. PICK g : g = [i \in 1 .. Len(events) |-> f[i]]
    BY ZenonT(60)
  <2>5. \A i \in 1 .. Len(events) : i \in 1 .. Total /\ g[i] = f[i] /\ f[i] \in 1 .. Len(moved)
                                    /\ Got(i) = events[i]
    BY <2>2, <2>3, <2>4 DEF Total, Got
  <2>6. g \in [1 .. Len(events) -> 1 .. Len(moved)]
    BY <2>4, <2>5
  <2>7. \A i, j \in 1 .. Len(events) : i < j => g[i] < g[j]
    BY <2>2, <2>5
  <2>8. \A i \in 1 .. Len(events) : Reports(events[i], moved[g[i]])
    BY <2>2, <2>5
  <2> QED
    BY <2>3, <2>6, <2>7, <2>8
<1> QED
  BY <1>1, FlowHolds, PTL

-----------------------------------------------------------------------------
(* What typing means *)

\* The keys with a prefix are the arrows.
LEMMA ExtendedCodes == Extended = {72, 75, 77, 80}
<1>1. DOMAIN Arrows = {"ArrowUp", "ArrowDown", "ArrowLeft", "ArrowRight"}
  BY DEF Arrows
<1>2. Arrows["ArrowUp"] = 72 /\ Arrows["ArrowDown"] = 80 /\ Arrows["ArrowLeft"] = 75
      /\ Arrows["ArrowRight"] = 77
  BY DEF Arrows
<1> QED
  BY <1>1, <1>2 DEF Extended

\* Codes of other keys have no name.
LEMMA Unnamed ==
    ASSUME NEW c, c \notin {1, 14, 15, 28, 88}
    PROVE  Special(Named, c) = NoKey
<1>1. DOMAIN Named = {"Escape", "Tab", "Enter", "Backspace", "F12"}
  BY DEF Named
<1>2. Named["Escape"] = 1 /\ Named["Tab"] = 15 /\ Named["Enter"] = 28 /\ Named["Backspace"] = 14
      /\ Named["F12"] = 88
  BY ZenonT(60) DEF Named
<1>3. ~\E n \in DOMAIN Named : Named[n] = c
  BY <1>1, <1>2
<1> QED
  BY <1>3 DEF Special

\* The largest of finitely many numbers to which a larger one is added.
LEMMA MaxIs ==
    ASSUME NEW S \in SUBSET Int, NEW n \in S, \A x \in S : n >= x
    PROVE  Max(S) = n
<1>1. \E x \in S : \A y \in S : x >= y
  OBVIOUS
<1>2. Max(S) \in S /\ \A y \in S : Max(S) >= y
  BY <1>1, ZenonT(60) DEF Max
<1>3. PICK m : m = Max(S)
  OBVIOUS
<1>4. m \in Int /\ n \in Int /\ m >= n /\ n >= m
  BY <1>2, <1>3, ZenonT(60)
<1> QED
  BY <1>3, <1>4

\* Shift after a stroke.
LEMMA ShiftStep ==
    ASSUME DeviceInv, NEW i \in 1 .. Len(typed)
    PROVE  /\ typed[i].code \in {42, 54} => ShiftAt(i + 1) = typed[i].press
           /\ typed[i].code \notin {42, 54} => ShiftAt(i + 1) = ShiftAt(i)
<1> DEFINE S(n) == {j \in 1 .. n - 1 : typed[j].code \in {42, 54}}
<1>0. i \in Nat \ {0} /\ typed[i] \in Stroke
  BY DEF DeviceInv
<1>1. ASSUME typed[i].code \in {42, 54} PROVE ShiftAt(i + 1) = typed[i].press
  <2>1. i \in S(i + 1) /\ S(i + 1) \in SUBSET Int /\ \A x \in S(i + 1) : i >= x
    BY <1>0, <1>1
  <2>2. Max(S(i + 1)) = i
    <3> HIDE DEF S
    <3> QED
      BY <1>0, <2>1, MaxIs
  <2>3. ShiftAt(i + 1) = (S(i + 1) # {} /\ typed[Max(S(i + 1))].press)
    BY DEF ShiftAt
  <2>4. typed[i].press \in BOOLEAN
    BY <1>0 DEF Stroke
  <2>5. S(i + 1) # {}
    BY <2>1
  <2> HIDE DEF S
  <2> QED
    BY <2>2, <2>3, <2>4, <2>5, ZenonT(60)
<1>2. ASSUME typed[i].code \notin {42, 54} PROVE ShiftAt(i + 1) = ShiftAt(i)
  <2>1. S(i + 1) = S(i)
    BY <1>0, <1>2
  <2>2. \A n : ShiftAt(n) = (S(n) # {} /\ typed[Max(S(n))].press)
    BY DEF ShiftAt
  <2> HIDE DEF S
  <2> QED
    BY <2>1, <2>2, ZenonT(60)
<1> QED
  BY <1>1, <1>2

\* Caps lock after a stroke.
LEMMA CapsStep ==
    ASSUME DeviceInv, NEW i \in 1 .. Len(typed)
    PROVE  /\ typed[i].code = 58 /\ typed[i].press => CapsAt(i + 1) = ~CapsAt(i)
           /\ ~(typed[i].code = 58 /\ typed[i].press) => CapsAt(i + 1) = CapsAt(i)
<1> DEFINE S(n) == {j \in 1 .. n - 1 : typed[j].code = 58 /\ typed[j].press}
<1>0. i \in Nat \ {0}
  BY DEF DeviceInv
<1>1. \A n : CapsAt(n) = (Cardinality(S(n)) % 2 = 1)
  BY DEF CapsAt
<1>2. IsFiniteSet(S(i)) /\ Cardinality(S(i)) \in Nat
  <2>1. i - 1 \in Int /\ IsFiniteSet(1 .. i - 1)
    BY <1>0, FS_Interval
  <2>2. S(i) \subseteq 1 .. i - 1
    OBVIOUS
  <2> HIDE DEF S
  <2> QED
    BY <2>1, <2>2, FS_Subset, FS_CardinalityType
<1>3. ASSUME typed[i].code = 58, typed[i].press PROVE CapsAt(i + 1) = ~CapsAt(i)
  <2>1. S(i + 1) = S(i) \cup {i} /\ i \notin S(i)
    BY <1>0, <1>3
  <2>2. Cardinality(S(i + 1)) = Cardinality(S(i)) + 1
    <3> HIDE DEF S
    <3> QED
      BY <1>2, <2>1, FS_AddElement
  <2>3. ASSUME NEW c \in Nat PROVE ((c + 1) % 2 = 1) = ~(c % 2 = 1)
    OBVIOUS
  <2> HIDE DEF S
  <2> QED
    BY <1>1, <1>2, <2>2, <2>3, ZenonT(60)
<1>4. ASSUME ~(typed[i].code = 58 /\ typed[i].press) PROVE CapsAt(i + 1) = CapsAt(i)
  <2>1. S(i + 1) = S(i)
    BY <1>0, <1>4
  <2> HIDE DEF S
  <2> QED
    BY <1>1, <2>1, ZenonT(60)
<1> QED
  BY <1>3, <1>4

-----------------------------------------------------------------------------
(* What decode_scancode makes of the bytes of a stroke *)

\* The state of the decoder before stroke i, half: its prefix was seen.
State(a, b, c) == [shift |-> a, caps_lock |-> b, extended |-> c]
StateAt(i, half) == State(ShiftAt(i), CapsAt(i), half)

\* The decoder, and one of its fields set.
LEMMA Fields ==
    ASSUME NEW a, NEW b, NEW c, NEW x
    PROVE  /\ State(a, b, c).shift = a /\ State(a, b, c).caps_lock = b /\ State(a, b, c).extended = c
           /\ [State(a, b, c) EXCEPT !.shift = x] = State(x, b, c)
           /\ [State(a, b, c) EXCEPT !.caps_lock = x] = State(a, x, c)
           /\ [State(a, b, c) EXCEPT !.extended = x] = State(a, b, x)
BY DEF State

\* The prefix.
LEMMA Prefix ==
    ASSUME NEW a, NEW b, NEW c
    PROVE  decode_scancode(State(a, b, c), 224) = [k |-> State(a, b, TRUE), key |-> NoKey]
<1> DEFINE k == State(a, b, c)
<1>1. k.extended = c /\ k.caps_lock = b
  BY Fields
<1>2. PICK x : x = TRUE
  BY ZenonT(60)
<1>3. [k EXCEPT !.extended = x] = State(a, b, x)
  BY Fields
<1> HIDE DEF k
<1>4. decode_scancode(k, 224) = [k |-> [k EXCEPT !.extended = TRUE], key |-> NoKey]
  BY <1>1 DEF decode_scancode
<1> QED
  BY <1>1, <1>2, <1>3, <1>4, ZenonT(60) DEF k

\* The byte after it.
LEMMA AfterPrefix ==
    ASSUME NEW a, NEW b, NEW n, n # 224
    PROVE  decode_scancode(State(a, b, TRUE), n) = [k |-> State(a, b, FALSE), key |-> IF IsRelease(n) THEN NoKey ELSE Special(Arrows, n)]
<1>5. PICK c : c = TRUE
  BY ZenonT(60)
<1> DEFINE k == State(a, b, c)
<1>1. k.extended = c /\ k.caps_lock = b
  BY Fields
<1>2. PICK x : x = FALSE
  BY ZenonT(60)
<1>3. [k EXCEPT !.extended = x] = State(a, b, x)
  BY Fields
<1> HIDE DEF k
<1>4. decode_scancode(k, n) = [k |-> [k EXCEPT !.extended = FALSE], key |-> IF IsRelease(n) THEN NoKey ELSE Special(Arrows, n)]
  BY <1>1, <1>5 DEF decode_scancode
<1> QED
  BY <1>2, <1>3, <1>4, <1>5, ZenonT(60) DEF k

\* Shift is pressed.
LEMMA ShiftDown ==
    ASSUME NEW a, NEW b, NEW c, ~c, NEW n \in {42, 54}
    PROVE  decode_scancode(State(a, b, c), n) = [k |-> State(TRUE, b, c), key |-> NoKey]
<1> DEFINE k == State(a, b, c)
<1>1. k.extended = c /\ k.caps_lock = b
  BY Fields
<1>2. PICK x : x = TRUE
  BY ZenonT(60)
<1>3. [k EXCEPT !.shift = x] = State(x, b, c)
  BY Fields
<1> HIDE DEF k
<1>4. decode_scancode(k, n) = [k |-> [k EXCEPT !.shift = TRUE], key |-> NoKey]
  BY <1>1 DEF decode_scancode
<1> QED
  BY <1>1, <1>2, <1>3, <1>4, ZenonT(60) DEF k

\* Shift is released.
LEMMA ShiftUp ==
    ASSUME NEW a, NEW b, NEW f \in BOOLEAN, ~f, NEW n \in {170, 182}
    PROVE  decode_scancode(State(a, b, f), n) = [k |-> State(f, b, f), key |-> NoKey]
<1>1. f = FALSE
  BY ZenonT(60)
<1> DEFINE k == State(a, b, f)
<1>2. k.extended = f
  BY Fields
<1>3. [k EXCEPT !.shift = f] = State(f, b, f)
  BY Fields
<1> HIDE DEF k
<1>4. decode_scancode(k, n) = [k |-> [k EXCEPT !.shift = FALSE], key |-> NoKey]
  BY <1>2 DEF decode_scancode
<1>5. decode_scancode(k, n) = [k |-> State(f, b, f), key |-> NoKey]
  BY <1>1, <1>3, <1>4, ZenonT(60)
<1> QED
  BY <1>5 DEF k

\* Caps lock is pressed.
LEMMA CapsDown ==
    ASSUME NEW a, NEW b, NEW c, ~c
    PROVE  decode_scancode(State(a, b, c), 58) = [k |-> State(a, ~b, c), key |-> NoKey]
<1> DEFINE k == State(a, b, c)
<1>1. k.extended = c /\ k.caps_lock = b
  BY Fields
<1>2. PICK x : x = ~b
  OBVIOUS
<1>3. [k EXCEPT !.caps_lock = x] = State(a, x, c)
  BY Fields
<1> HIDE DEF k
<1>4. decode_scancode(k, 58) = [k |-> [k EXCEPT !.caps_lock = ~@], key |-> NoKey]
  BY <1>1 DEF decode_scancode
<1> QED
  BY <1>1, <1>2, <1>3, <1>4, ZenonT(60) DEF k

\* Any other code.
LEMMA OtherCode ==
    ASSUME NEW a, NEW b, NEW c, ~c, NEW n, n \notin {224, 42, 54, 170, 182, 58}
    PROVE  decode_scancode(State(a, b, c), n) =
             [k |-> State(a, b, c),
              key |-> IF Special(Named, n) # NoKey THEN Special(Named, n)
                      ELSE IF IsRelease(n) THEN NoKey
                      ELSE scancode_to_ascii(State(a, b, c), n)]
<1> DEFINE k == State(a, b, c)
<1>1. k.extended = c
  BY Fields
<1> HIDE DEF k
<1>2. decode_scancode(k, n) =
        [k |-> k, key |-> IF Special(Named, n) # NoKey THEN Special(Named, n)
                          ELSE IF IsRelease(n) THEN NoKey
                          ELSE scancode_to_ascii(k, n)]
  BY <1>1 DEF decode_scancode
<1> QED
  BY <1>2 DEF k

\* No code is of two kinds.
LEMMA Kinds ==
    ASSUME NEW c
    PROVE  /\ c \in Letters => c \notin Pairs
           /\ c \in Letters \cup Pairs => c \notin {1, 14, 15, 28, 88, 42, 54, 58, 72, 75, 77, 80}
BY DEF Letters, Pairs

\* What the bytes of a stroke are.
LEMMA StrokeBits ==
    ASSUME NEW s \in Stroke
    PROVE  /\ s.press \in BOOLEAN
           /\ s.press => StrokeByte(s) = s.code /\ ~IsRelease(StrokeByte(s))
           /\ ~s.press => IsRelease(StrokeByte(s)) /\ StrokeByte(s) = s.code + 128
BY StrokeType DEF IsRelease, Stroke

\* The prefix is remembered and makes no key.
LEMMA DecodePrefix ==
    ASSUME NEW i
    PROVE  decode_scancode(StateAt(i, FALSE), 224) = [k |-> StateAt(i, TRUE), key |-> NoKey]
BY Prefix, ZenonT(60) DEF StateAt

\* The byte after the prefix makes an arrow, or nothing when it is released.
LEMMA DecodeArrow ==
    ASSUME DeviceInv, NEW i \in 1 .. Len(typed), typed[i].code \in Extended
    PROVE  decode_scancode(StateAt(i, TRUE), StrokeByte(typed[i]))
             = [k |-> StateAt(i + 1, FALSE), key |-> KeyAt(i)]
<1> DEFINE s == typed[i]
           c == s.code
           b == StrokeByte(s)
<1>1. s \in Stroke
  BY DEF DeviceInv
<1>2. c \in {72, 75, 77, 80}
  BY ExtendedCodes
<1>3. b # 224
  BY <1>1, StrokeType
<1>4. ShiftAt(i + 1) = ShiftAt(i) /\ CapsAt(i + 1) = CapsAt(i)
  BY <1>2, ShiftStep, CapsStep
<1>5. KeyAt(i) = CASE ~s.press \/ c \in {42, 54, 58} -> NoKey
                   [] c \in Letters /\ s.press -> Char(c, ShiftAt(i) # CapsAt(i))
                   [] c \in Pairs /\ s.press -> Char(c, ShiftAt(i))
                   [] c \in Extended /\ s.press -> Special(Arrows, c)
                   [] OTHER -> Special(Named, c)
  BY DEF KeyAt
<1>6. /\ s.press => b = c /\ ~IsRelease(b)
      /\ ~s.press => IsRelease(b)
  BY <1>1, StrokeBits, ZenonT(60)
<1> HIDE DEF s, c, b
<1>7. (IF IsRelease(b) THEN NoKey ELSE Special(Arrows, b)) = KeyAt(i)
  <2>1. CASE ~s.press
    BY <1>5, <1>6, <2>1
  <2>2. CASE s.press
    <3>1. c \notin {42, 54, 58} /\ c \notin Letters /\ c \notin Pairs /\ c \in Extended
      BY <1>2, ExtendedCodes DEF Letters, Pairs
    <3>2. KeyAt(i) = Special(Arrows, c)
      BY <1>5, <2>2, <3>1
    <3> QED
      BY <1>6, <2>2, <3>2, ZenonT(60)
  <2> QED
    BY <2>1, <2>2
<1>8. decode_scancode(StateAt(i, TRUE), b) =
        [k |-> State(ShiftAt(i), CapsAt(i), FALSE),
         key |-> IF IsRelease(b) THEN NoKey ELSE Special(Arrows, b)]
  BY <1>3, AfterPrefix, ZenonT(60) DEF StateAt
<1> QED
  BY <1>4, <1>7, <1>8, ZenonT(60) DEF StateAt, b, s

\* The one byte of any other stroke.
LEMMA DecodePlain ==
    ASSUME DeviceInv, NEW i \in 1 .. Len(typed), typed[i].code \notin Extended
    PROVE  decode_scancode(StateAt(i, FALSE), StrokeByte(typed[i]))
             = [k |-> StateAt(i + 1, FALSE), key |-> KeyAt(i)]
<1> DEFINE s == typed[i]
           c == s.code
           b == StrokeByte(s)
           k == StateAt(i, FALSE)
           next == StateAt(i + 1, FALSE)
<1>1. s \in Stroke
  BY DEF DeviceInv
<1>2. c \in 1 .. 88 /\ c \notin {72, 75, 77, 80}
  BY <1>1, ExtendedCodes DEF Stroke
<1>3. /\ s.press \in BOOLEAN
      /\ s.press => b = c /\ ~IsRelease(b)
      /\ ~s.press => b = c + 128 /\ IsRelease(b)
  BY <1>1, StrokeBits, ZenonT(60)
<1>4. k = State(ShiftAt(i), CapsAt(i), FALSE) /\ next = State(ShiftAt(i + 1), CapsAt(i + 1), FALSE)
  BY DEF StateAt
<1>5. /\ c \in {42, 54} => ShiftAt(i + 1) = s.press
      /\ c \notin {42, 54} => ShiftAt(i + 1) = ShiftAt(i)
  BY ShiftStep
<1>6. /\ c = 58 /\ s.press => CapsAt(i + 1) = ~CapsAt(i)
      /\ ~(c = 58 /\ s.press) => CapsAt(i + 1) = CapsAt(i)
  BY CapsStep
<1>7. KeyAt(i) = CASE ~s.press \/ c \in {42, 54, 58} -> NoKey
                   [] c \in Letters /\ s.press -> Char(c, ShiftAt(i) # CapsAt(i))
                   [] c \in Pairs /\ s.press -> Char(c, ShiftAt(i))
                   [] c \in Extended /\ s.press -> Special(Arrows, c)
                   [] OTHER -> Special(Named, c)
  BY DEF KeyAt
<1>8. c \notin Extended
  OBVIOUS
<1>13. k.shift = ShiftAt(i) /\ k.caps_lock = CapsAt(i)
  BY DEF StateAt, State
<1> HIDE DEF s, c, b, k, next
<1>9. CASE c \in {42, 54} /\ s.press
  <2>1. b \in {42, 54} /\ c # 58
    BY <1>3, <1>9
  <2>2. decode_scancode(k, b) = [k |-> State(TRUE, CapsAt(i), FALSE), key |-> NoKey]
    BY <1>4, <2>1, ShiftDown, ZenonT(60)
  <2>3. ShiftAt(i + 1) = TRUE /\ CapsAt(i + 1) = CapsAt(i)
    BY <1>3, <1>5, <1>6, <1>9, <2>1, ZenonT(60)
  <2>4. KeyAt(i) = NoKey
    BY <1>7, <1>8, <1>9, Kinds
  <2> QED
    BY <1>4, <2>2, <2>3, <2>4, ZenonT(60) DEF b, k, s, next
<1>10. CASE c \in {42, 54} /\ ~s.press
  <2>1. b \in {170, 182} /\ c # 58
    BY <1>3, <1>10
  <2>2. decode_scancode(k, b) = [k |-> State(FALSE, CapsAt(i), FALSE), key |-> NoKey]
    <3>1. PICK f \in BOOLEAN : ~f /\ f = FALSE
      BY ZenonT(60)
    <3>2. decode_scancode(State(ShiftAt(i), CapsAt(i), f), b) = [k |-> State(f, CapsAt(i), f), key |-> NoKey]
      BY <2>1, <3>1, ShiftUp
    <3> QED
      BY <1>4, <3>1, <3>2, ZenonT(60)
  <2>3. ShiftAt(i + 1) = FALSE /\ CapsAt(i + 1) = CapsAt(i)
    BY <1>3, <1>5, <1>6, <1>10, <2>1, ZenonT(60)
  <2>4. KeyAt(i) = NoKey
    BY <1>7, <1>10
  <2> QED
    BY <1>4, <2>2, <2>3, <2>4, ZenonT(60) DEF b, k, s, next
<1>11. CASE c = 58 /\ s.press
  <2>1. b = 58 /\ c \notin {42, 54}
    BY <1>3, <1>11
  <2>2. decode_scancode(k, b) = [k |-> State(ShiftAt(i), ~CapsAt(i), FALSE), key |-> NoKey]
    BY <1>4, <2>1, CapsDown, ZenonT(60)
  <2>3. ShiftAt(i + 1) = ShiftAt(i) /\ CapsAt(i + 1) = ~CapsAt(i)
    BY <1>5, <1>6, <1>11, <2>1, ZenonT(60)
  <2>4. KeyAt(i) = NoKey
    BY <1>7, <1>8, <1>11, Kinds
  <2> QED
    BY <1>4, <2>2, <2>3, <2>4, ZenonT(60) DEF b, k, s, next
<1>12. CASE c \notin {42, 54} /\ ~(c = 58 /\ s.press)
  <2>1. b \notin {224, 42, 54, 170, 182, 58}
    <3>1. CASE s.press
      BY <1>2, <1>3, <1>12, <3>1
    <3>2. CASE ~s.press
      BY <1>2, <1>3, <1>12, <3>2
    <3> QED
      BY <3>1, <3>2
  <2> DEFINE key == IF Special(Named, b) # NoKey THEN Special(Named, b)
                    ELSE IF IsRelease(b) THEN NoKey
                    ELSE scancode_to_ascii(k, b)
  <2>2. decode_scancode(k, b) = [k |-> k, key |-> key]
    BY <1>4, <2>1, OtherCode, ZenonT(60)
  <2>3. k = next
    BY <1>4, <1>5, <1>6, <1>12, ZenonT(60)
  <2>4. key = KeyAt(i)
    <3>1. CASE ~s.press
      <4>1. Special(Named, b) = NoKey
        <5>1. b \notin {1, 14, 15, 28, 88}
          BY <1>2, <1>3, <3>1
        <5> QED
          BY <5>1, Unnamed
      <4>2. KeyAt(i) = NoKey
        BY <1>7, <3>1
      <4> QED
        BY <1>3, <3>1, <4>1, <4>2, ZenonT(60)
    <3>2. CASE s.press
      <4>1. b = c /\ ~IsRelease(b) /\ c \notin {42, 54, 58}
        BY <1>3, <1>12, <3>2, ZenonT(60)
      <4>2. k.shift = ShiftAt(i) /\ k.caps_lock = CapsAt(i)
        BY <1>13
      <4>3. CASE c \in Letters
        <5>1. Special(Named, b) = NoKey /\ c \notin Pairs
          BY <4>1, <4>3, Unnamed, Kinds
        <5>2. scancode_to_ascii(k, c) = Char(c, k.shift # k.caps_lock)
          BY <4>3, <5>1 DEF scancode_to_ascii
        <5>3. KeyAt(i) = Char(c, ShiftAt(i) # CapsAt(i))
          BY <1>7, <1>8, <3>2, <4>1, <4>3, <5>1
        <5> QED
          BY <4>1, <4>2, <5>1, <5>2, <5>3, ZenonT(60)
      <4>4. CASE c \in Pairs
        <5>1. Special(Named, b) = NoKey /\ c \notin Letters
          BY <4>1, <4>4, Unnamed, Kinds
        <5>2. scancode_to_ascii(k, c) = Char(c, k.shift)
          BY <4>4, <5>1 DEF scancode_to_ascii
        <5>3. KeyAt(i) = Char(c, ShiftAt(i))
          BY <1>7, <1>8, <3>2, <4>1, <4>4, <5>1
        <5> QED
          BY <4>1, <4>2, <5>1, <5>2, <5>3, ZenonT(60)
      <4>5. CASE c \notin Letters /\ c \notin Pairs
        <5>1. scancode_to_ascii(k, c) = NoKey
          BY <4>5 DEF scancode_to_ascii
        <5>2. KeyAt(i) = Special(Named, c)
          BY <1>7, <1>8, <3>2, <4>1, <4>5
        <5> QED
          BY <4>1, <5>1, <5>2, ZenonT(60)
      <4> QED
        BY <4>3, <4>4, <4>5, ZenonT(60)
    <3> QED
      BY <3>1, <3>2
  <2> HIDE DEF key
  <2> QED
    BY <2>2, <2>3, <2>4, ZenonT(60) DEF b, k, s, next
<1> QED
  BY <1>3, <1>9, <1>10, <1>11, <1>12, ZenonT(60)

-----------------------------------------------------------------------------
(* The keys that the first strokes make *)

AllKeys == {KeyAt(i) : i \in 1 .. Len(typed)}

\* They are finitely many.
LEMMA KeyedFinite ==
    ASSUME NEW n \in Nat
    PROVE  IsFiniteSet(Keyed(n)) /\ Cardinality(Keyed(n)) \in Nat
<1>1. IsFiniteSet(1 .. n)
  BY FS_Interval
<1>2. Keyed(n) \subseteq 1 .. n
  BY DEF Keyed
<1> QED
  BY <1>1, <1>2, FS_Subset, FS_CardinalityType

\* One more stroke.
LEMMA KeyedStep ==
    ASSUME NEW n \in Nat
    PROVE  /\ KeyAt(n + 1) = NoKey => Keyed(n + 1) = Keyed(n)
           /\ KeyAt(n + 1) # NoKey => /\ Keyed(n + 1) = Keyed(n) \cup {n + 1}
                                      /\ Cardinality(Keyed(n + 1)) = Cardinality(Keyed(n)) + 1
<1>1. 1 .. n + 1 = (1 .. n) \cup {n + 1} /\ n + 1 \notin 1 .. n
  OBVIOUS
<1>2. KeyAt(n + 1) = NoKey => Keyed(n + 1) = Keyed(n)
  BY <1>1 DEF Keyed
<1>3. ASSUME KeyAt(n + 1) # NoKey
      PROVE  Keyed(n + 1) = Keyed(n) \cup {n + 1} /\ n + 1 \notin Keyed(n)
  BY <1>1, <1>3 DEF Keyed
<1> QED
  BY <1>2, <1>3, KeyedFinite, FS_AddElement, ZenonT(60)

\* Where the key of a stroke is.
LEMMA KeyedPlace ==
    ASSUME NEW n \in Nat, NEW i \in Keyed(n)
    PROVE  Cardinality(Keyed(i)) \in 1 .. Cardinality(Keyed(n))
<1>1. i \in 1 .. n /\ i \in Keyed(i) /\ Keyed(i) \subseteq Keyed(n) /\ i \in Nat
  BY DEF Keyed
<1>2. IsFiniteSet(Keyed(n)) /\ Cardinality(Keyed(n)) \in Nat
  BY KeyedFinite
<1>3. Cardinality(Keyed(i)) <= Cardinality(Keyed(n)) /\ IsFiniteSet(Keyed(i)) /\ Cardinality(Keyed(i)) \in Nat
  BY <1>1, <1>2, FS_Subset, KeyedFinite
<1>4. Cardinality(Keyed(i)) # 0
  BY <1>1, <1>3, FS_EmptySet
<1> QED
  BY <1>2, <1>3, <1>4

\* What typing means does not change.
LEMMA TypedKept ==
    ASSUME typed' = typed
    PROVE  /\ \A i : KeyAt(i)' = KeyAt(i) /\ Keyed(i)' = Keyed(i)
           /\ \A i : ShiftAt(i)' = ShiftAt(i) /\ CapsAt(i)' = CapsAt(i)
           /\ AllKeys' = AllKeys
<1>1. ASSUME NEW i PROVE ShiftAt(i)' = ShiftAt(i) /\ CapsAt(i)' = CapsAt(i)
  BY ZenonT(60) DEF ShiftAt, CapsAt
<1>2. ASSUME NEW i PROVE KeyAt(i)' = KeyAt(i)
  BY <1>1, ZenonT(60) DEF KeyAt
<1>3. ASSUME NEW i PROVE Keyed(i)' = Keyed(i)
  BY <1>2, ZenonT(60) DEF Keyed
<1>4. AllKeys' = AllKeys
  BY <1>2, ZenonT(60) DEF AllKeys
<1> QED
  BY <1>1, <1>2, <1>3, <1>4, ZenonT(60)

\* The reader takes the key of the next stroke.
LEMMA KeysStep ==
    ASSUME DeviceInv, typed' = typed, NEW n \in 0 .. Len(typed) - 1, KeysOf(n), keys \in Seq(AllKeys),
           keys' = IF KeyAt(n + 1) = NoKey THEN keys ELSE Append(keys, KeyAt(n + 1))
    PROVE  KeysOf(n + 1)' /\ keys' \in Seq(AllKeys)'
<1>0. n \in Nat /\ n + 1 \in 1 .. Len(typed)
  BY DEF DeviceInv
<1>1. /\ Len(keys) = Cardinality(Keyed(n))
      /\ \A i \in Keyed(n) : keys[Cardinality(Keyed(i))] = KeyAt(i)
  BY DEF KeysOf
<1>2. /\ \A i : KeyAt(i)' = KeyAt(i) /\ Keyed(i)' = Keyed(i)
      /\ AllKeys' = AllKeys
  BY TypedKept
<1>3. SUFFICES /\ Len(keys') = Cardinality(Keyed(n + 1))
               /\ \A i \in Keyed(n + 1) : keys'[Cardinality(Keyed(i))] = KeyAt(i)
               /\ keys' \in Seq(AllKeys)
  BY <1>2, ZenonT(60) DEF KeysOf
<1>4. CASE KeyAt(n + 1) = NoKey
  BY <1>0, <1>1, <1>4, KeyedStep, ZenonT(60)
<1>5. CASE KeyAt(n + 1) # NoKey
  <2> DEFINE x == KeyAt(n + 1)
             l == Cardinality(Keyed(n))
  <2>1. x \in AllKeys
    BY <1>0 DEF AllKeys
  <2>2. keys' = Append(keys, x) /\ l \in Nat
    BY <1>0, <1>5, KeyedFinite
  <2>3. Keyed(n + 1) = Keyed(n) \cup {n + 1} /\ Cardinality(Keyed(n + 1)) = l + 1
    BY <1>0, <1>5, KeyedStep
  <2>4. \A i \in Keyed(n) : Cardinality(Keyed(i)) \in 1 .. l
    BY <1>0, KeyedPlace
  <2> HIDE DEF x, l
  <2>5. /\ keys' \in Seq(AllKeys) /\ Len(keys') = l + 1 /\ keys'[l + 1] = x
        /\ \A j \in 1 .. l : keys'[j] = keys[j]
    BY <1>1, <2>1, <2>2 DEF l
  <2>6. ASSUME NEW i \in Keyed(n + 1) PROVE keys'[Cardinality(Keyed(i))] = KeyAt(i)
    <3>1. CASE i = n + 1
      BY <2>3, <2>5, <3>1 DEF x
    <3>2. CASE i # n + 1
      <4>1. i \in Keyed(n)
        BY <2>3, <3>2
      <4> QED
        BY <1>1, <2>4, <2>5, <4>1, ZenonT(60)
    <3> QED
      BY <3>1, <3>2, ZenonT(60)
  <2> QED
    BY <2>3, <2>5, <2>6, ZenonT(60)
<1> QED
  BY <1>4, <1>5, ZenonT(60)

-----------------------------------------------------------------------------
(* The keyboard.  A point of the typing lies after n strokes, or after the  *)
(* prefix of the next one too.  The decoder is at one point, the keyboard   *)
(* at a later one, and the bytes in between are in the queue, in the        *)
(* handler and in the controller, in this order.                            *)

Point == [n : Nat, half : {0, 1}]
Sent == [n |-> ksent, half |-> One(prefixed)]

\* Only a key of the extended set has a prefix.
Fits(p) ==
    /\ p \in Point /\ p.n <= Len(typed)
    /\ p.half = 1 => p.n < Len(typed) /\ typed[p.n + 1].code \in Extended

\* The byte that comes at a point, and the point after it.
Due(p) == typed[p.n + 1].code \in Extended /\ p.half = 0
ByteAt(p) == IF Due(p) THEN 224 ELSE StrokeByte(typed[p.n + 1])
After(p) == IF Due(p) THEN [n |-> p.n, half |-> 1] ELSE [n |-> p.n + 1, half |-> 0]

\* The bytes on the way, oldest first.
Flight == scancodes.len + One(InHandler("keyboard")) + One(InBuffer("keyboard"))
Byte(j) ==
    IF j <= scancodes.len THEN Contents(KEYS, scancodes)[j]
    ELSE IF InHandler("keyboard") /\ j = scancodes.len + 1 THEN handler.byte ELSE obf.byte

Decoded(p) == keyboard = StateAt(p.n + 1, p.half = 1) /\ KeysOf(p.n)

Points(P) ==
    /\ \A j \in 0 .. Flight : Fits(P[j])
    /\ P[Flight] = Sent
    /\ \A j \in 0 .. Flight - 1 :
          P[j].n < Len(typed) /\ P[j + 1] = After(P[j]) /\ Byte(j + 1) = ByteAt(P[j])

KeyInv ==
    ~klost => /\ keys \in Seq(AllKeys)
              /\ \E P : Points(P) /\ Decoded(P[0])

\* A byte leads from one point to another.
LEMMA AfterFits ==
    ASSUME DeviceInv, NEW p, Fits(p), p.n < Len(typed)
    PROVE  Fits(After(p))
<1>1. p.n \in Nat /\ Len(typed) \in Nat
  BY DEF Fits, Point, DeviceInv
<1>2. CASE Due(p)
  <2>1. After(p) = [n |-> p.n, half |-> 1] /\ typed[p.n + 1].code \in Extended
    BY <1>2, ZenonT(60) DEF After, Due
  <2> QED
    BY <1>1, <2>1 DEF Fits, Point
<1>3. CASE ~Due(p)
  <2>1. After(p) = [n |-> p.n + 1, half |-> 0]
    BY <1>3, ZenonT(60) DEF After
  <2> QED
    BY <1>1, <2>1 DEF Fits, Point
<1> QED
  BY <1>2, <1>3

\* The decoder takes the byte at its point, and is at the next one.
LEMMA DecodeStep ==
    ASSUME DeviceInv, typed' = typed, NEW p, Fits(p), p.n < Len(typed), Decoded(p),
           keys \in Seq(AllKeys), NEW d, d = decode_scancode(keyboard, ByteAt(p)),
           keyboard' = d.k, keys' = IF d.key = NoKey THEN keys ELSE Append(keys, d.key)
    PROVE  Decoded(After(p))' /\ keys' \in Seq(AllKeys)'
<1> DEFINE n == p.n
           i == p.n + 1
<1>1. n \in Nat /\ i \in 1 .. Len(typed) /\ n \in 0 .. Len(typed) - 1 /\ p.half \in {0, 1}
  BY DEF Fits, Point, DeviceInv
<1>2. keyboard = StateAt(i, p.half = 1) /\ KeysOf(n)
  BY DEF Decoded
<1>3. /\ \A j : KeyAt(j)' = KeyAt(j) /\ Keyed(j)' = Keyed(j)
      /\ \A j : ShiftAt(j)' = ShiftAt(j) /\ CapsAt(j)' = CapsAt(j)
      /\ AllKeys' = AllKeys
  BY TypedKept
<1>4. \A j, h : StateAt(j, h)' = StateAt(j, h)
  BY <1>3, ZenonT(60) DEF StateAt
<1>5. CASE Due(p)
  <2>1. After(p) = [n |-> n, half |-> 1] /\ p.half = 0 /\ ByteAt(p) = 224
    BY <1>5, ZenonT(60) DEF After, Due, ByteAt
  <2>2. (p.half = 1) = FALSE
    BY <2>1
  <2>3. keyboard = StateAt(i, FALSE)
    BY <1>2, <2>2, ZenonT(60)
  <2>4. d = [k |-> StateAt(i, TRUE), key |-> NoKey]
    <3>1. decode_scancode(StateAt(i, FALSE), 224) = [k |-> StateAt(i, TRUE), key |-> NoKey]
      BY DecodePrefix, ZenonT(60)
    <3>2. d = decode_scancode(StateAt(i, FALSE), 224)
      BY <2>1, <2>3
    <3> QED
      BY <3>1, <3>2, ZenonT(60)
  <2>5. keyboard' = StateAt(i, TRUE) /\ keys' = keys
    <3>1. d.k = StateAt(i, TRUE) /\ d.key = NoKey
      BY <2>4
    <3> QED
      BY <3>1
  <2>6. KeysOf(n)'
    BY <1>2, <1>3, <2>5, ZenonT(60) DEF KeysOf
  <2>7. PICK q : q = After(p) /\ q.n = n /\ q.half = 1
    BY <2>1
  <2>8. (q.half = 1) = TRUE
    BY <2>7
  <2>9. Decoded(q)'
    <3>1. keyboard' = StateAt(q.n + 1, q.half = 1)'
      BY <1>4, <2>5, <2>7, <2>8, ZenonT(60)
    <3>2. KeysOf(q.n)'
      BY <2>6, <2>7
    <3> QED
      BY <3>1, <3>2 DEF Decoded
  <2>10. After(p)' = After(p)
    BY ZenonT(60) DEF After, Due
  <2> QED
    BY <1>3, <2>5, <2>7, <2>9, <2>10
<1>6. CASE ~Due(p)
  <2>1. After(p) = [n |-> n + 1, half |-> 0] /\ ByteAt(p) = StrokeByte(typed[i])
    BY <1>6, ZenonT(60) DEF After, ByteAt
  <2>2. d = [k |-> StateAt(i + 1, FALSE), key |-> KeyAt(i)]
    <3>1. CASE p.half = 1
      <4>1. typed[i].code \in Extended
        BY <3>1 DEF Fits
      <4>2. keyboard = StateAt(i, TRUE)
        <5>1. (p.half = 1) = TRUE
          BY <3>1
        <5> QED
          BY <1>2, <5>1, ZenonT(60)
      <4> QED
        BY <1>1, <2>1, <4>1, <4>2, DecodeArrow, ZenonT(60)
    <3>2. CASE p.half = 0
      <4>1. typed[i].code \notin Extended
        BY <1>6, <3>2 DEF Due
      <4>2. keyboard = StateAt(i, FALSE)
        <5>1. (p.half = 1) = FALSE
          BY <3>2
        <5> QED
          BY <1>2, <5>1, ZenonT(60)
      <4> QED
        BY <1>1, <2>1, <4>1, <4>2, DecodePlain, ZenonT(60)
    <3> QED
      BY <1>1, <3>1, <3>2, ZenonT(60)
  <2>3. d.k = StateAt(i + 1, FALSE) /\ d.key = KeyAt(i)
    BY <2>2
  <2>4. KeysOf(n + 1)' /\ keys' \in Seq(AllKeys)'
    BY <1>1, <1>2, <2>3, KeysStep, ZenonT(60)
  <2>5. PICK q : q = After(p) /\ q.n = n + 1 /\ q.half = 0
    BY <2>1
  <2>6. (q.half = 1) = FALSE
    BY <2>5
  <2>7. Decoded(q)'
    <3>1. keyboard' = StateAt(q.n + 1, q.half = 1)'
      BY <1>4, <2>3, <2>5, <2>6, ZenonT(60)
    <3>2. KeysOf(q.n)'
      BY <2>4, <2>5
    <3> QED
      BY <3>1, <3>2 DEF Decoded
  <2>8. After(p)' = After(p)
    BY ZenonT(60) DEF After, Due
  <2> QED
    BY <2>4, <2>5, <2>7, <2>8
<1> QED
  BY <1>5, <1>6

\* Nothing is typed yet.
LEMMA InitKey == Init => KeyInv
<1> SUFFICES ASSUME Init PROVE KeyInv
  OBVIOUS
<1>1. /\ ksent = 0 /\ prefixed = FALSE /\ obf = None /\ handler = None /\ keys = <<>>
      /\ scancodes.len = 0
      /\ keyboard = [shift |-> FALSE, caps_lock |-> FALSE, extended |-> FALSE]
  BY ZenonT(60) DEF Init, Empty
<1>2. Flight = 0
  BY <1>1 DEF Flight, One, InHandler, InBuffer
<1>3. Sent = [n |-> 0, half |-> 0]
  BY <1>1, ZenonT(60) DEF Sent, One
<1>4. Len(typed) \in Nat
  BY InitDevice DEF DeviceInv
<1>5. Fits(Sent)
  BY <1>3, <1>4 DEF Fits, Point
<1>6. PICK P : P = [j \in 0 .. 0 |-> Sent]
  BY ZenonT(60)
<1>7. P[0] = Sent /\ 0 .. Flight = {0} /\ 0 .. Flight - 1 = {}
  BY <1>2, <1>6
<1>8. Points(P)
  BY <1>2, <1>5, <1>7, ZenonT(60) DEF Points
<1>9. ShiftAt(1) = FALSE /\ CapsAt(1) = FALSE
  <2>1. 1 .. 1 - 1 = {}
    OBVIOUS
  <2>2. ~ShiftAt(1)
    BY <2>1 DEF ShiftAt
  <2>3. {j \in 1 .. 1 - 1 : typed[j].code = 58 /\ typed[j].press} = {}
    BY <2>1
  <2>4. Cardinality({}) = 0
    BY FS_EmptySet
  <2>5. ~CapsAt(1)
    <3>1. 0 % 2 = 0
      OBVIOUS
    <3> QED
      BY <2>3, <2>4, <3>1 DEF CapsAt
  <2>6. ShiftAt(1) \in BOOLEAN /\ CapsAt(1) \in BOOLEAN
    BY DEF ShiftAt, CapsAt
  <2> QED
    BY <2>2, <2>5, <2>6, ZenonT(60)
<1>10. KeysOf(0) /\ keys \in Seq(AllKeys)
  <2>1. Keyed(0) = {}
    BY DEF Keyed
  <2>2. Cardinality(Keyed(0)) = 0
    BY <2>1, FS_EmptySet
  <2> QED
    BY <1>1, <2>1, <2>2 DEF KeysOf
<1>11. Decoded(Sent)
  <2>1. Sent.n = 0 /\ Sent.half = 0 /\ 0 + 1 = 1
    BY <1>3
  <2>2. (Sent.half = 1) = FALSE
    BY <2>1
  <2>3. StateAt(1, FALSE) = State(FALSE, FALSE, FALSE)
    BY <1>9, ZenonT(60) DEF StateAt
  <2>4. keyboard = State(FALSE, FALSE, FALSE)
    BY <1>1 DEF State
  <2>5. keyboard = StateAt(Sent.n + 1, Sent.half = 1)
    BY <2>1, <2>2, <2>3, <2>4, ZenonT(60)
  <2> QED
    BY <1>10, <2>1, <2>5 DEF Decoded
<1> QED
  BY <1>7, <1>8, <1>10, <1>11 DEF KeyInv

\* A step that leaves the bytes on the way where they are, or moves them on.
LEMMA PointsKept ==
    ASSUME KeyInv, UNCHANGED <<typed, ksent, prefixed, keyboard, keys>>, ~klost' => ~klost,
           ~klost' => /\ Flight' = Flight
                      /\ \A j \in 1 .. Flight : Byte(j)' = Byte(j),
           Flight \in Nat
    PROVE  KeyInv'
<1> SUFFICES ASSUME ~klost' PROVE keys' \in Seq(AllKeys)' /\ \E P : Points(P)' /\ Decoded(P[0])'
  BY DEF KeyInv
<1>1. keys \in Seq(AllKeys)
  BY DEF KeyInv
<1>2. PICK P : Points(P) /\ Decoded(P[0])
  BY DEF KeyInv
<1>3. /\ \A j : KeyAt(j)' = KeyAt(j) /\ Keyed(j)' = Keyed(j)
      /\ \A j : ShiftAt(j)' = ShiftAt(j) /\ CapsAt(j)' = CapsAt(j)
      /\ AllKeys' = AllKeys
  BY TypedKept, ZenonT(60)
<1>4. \A p : Fits(p)' = Fits(p) /\ After(p)' = After(p) /\ ByteAt(p)' = ByteAt(p) /\ Sent' = Sent
  BY ZenonT(60) DEF Fits, After, ByteAt, Due, Sent
<1>5. Decoded(P[0])'
  <2>1. \A j, h : StateAt(j, h)' = StateAt(j, h)
    BY <1>3, ZenonT(60) DEF StateAt
  <2>2. KeysOf(P[0].n)'
    BY <1>2, <1>3, ZenonT(60) DEF KeysOf, Decoded
  <2> QED
    BY <1>2, <2>1, <2>2, ZenonT(60) DEF Decoded
<1>6. \A j \in 0 .. Flight - 1 : j + 1 \in 1 .. Flight
  OBVIOUS
<1>7. Points(P)'
  <2>1. Flight' = Flight /\ \A j \in 0 .. Flight - 1 : Byte(j + 1)' = Byte(j + 1)
    BY <1>6
  <2>2. (\A j \in 0 .. Flight : Fits(P[j]))'
    BY <1>2, <1>4, <2>1, ZenonT(60) DEF Points
  <2>3. (P[Flight] = Sent)'
    BY <1>2, <1>4, <2>1, ZenonT(60) DEF Points
  <2>4. (\A j \in 0 .. Flight - 1 :
            P[j].n < Len(typed) /\ P[j + 1] = After(P[j]) /\ Byte(j + 1) = ByteAt(P[j]))'
    BY <1>2, <1>4, <2>1, ZenonT(60) DEF Points
  <2> QED
    BY <2>2, <2>3, <2>4, ZenonT(60) DEF Points
<1> QED
  BY <1>1, <1>3, <1>5, <1>7

\* A step that does not touch the bytes of the keyboard.
LEMMA BytesKept ==
    ASSUME KeyInv, QueueInv, UNCHANGED <<typed, ksent, prefixed, keyboard, keys, klost, scancodes>>,
           InHandler("keyboard")' <=> InHandler("keyboard"),
           InHandler("keyboard") => handler'.byte = handler.byte,
           InBuffer("keyboard")' <=> InBuffer("keyboard"),
           InBuffer("keyboard") => obf'.byte = obf.byte
    PROVE  KeyInv'
<1> DEFINE h == InHandler("keyboard")
           o == InBuffer("keyboard")
           l == scancodes.len
<1>1. l \in Nat
  BY DEF QueueInv, Ring
<1>2. One(h) \in {0, 1} /\ One(o) \in {0, 1} /\ One(h)' = One(h) /\ One(o)' = One(o)
  BY ZenonT(60) DEF One
<1>3. Flight = l + One(h) + One(o) /\ Flight' = Flight
  BY <1>2, ZenonT(60) DEF Flight
<1>4. Flight \in Nat
  BY ONLY <1>1, <1>2, <1>3
<1>5. ASSUME NEW j \in 1 .. Flight PROVE Byte(j)' = Byte(j)
  <2>1. CASE j <= l
    BY <2>1 DEF Byte, Contents
  <2>2. CASE ~(j <= l) /\ h /\ j = l + 1
    BY <2>2, ZenonT(60) DEF Byte
  <2>3. CASE ~(j <= l) /\ ~(h /\ j = l + 1)
    <3>1. o
      BY ONLY <1>1, <1>3, <2>3 DEF One
    <3> QED
      BY <2>3, <3>1, ZenonT(60) DEF Byte
  <2> QED
    BY <2>1, <2>2, <2>3, ZenonT(60)
<1> QED
  BY <1>3, <1>4, <1>5, PointsKept, ZenonT(60)

\* The keyboard sends the byte that is due.
LEMMA SendKey ==
    ASSUME DeviceInv, DeviceInv', QueueInv, KeyInv, Send, ksent < Len(typed), obf'.src = "keyboard",
           obf'.byte = IF PrefixDue THEN 224 ELSE StrokeByte(typed[ksent + 1]),
           ksent' = IF PrefixDue THEN ksent ELSE ksent + 1, prefixed' = PrefixDue
    PROVE  KeyInv'
<1> SUFFICES ASSUME ~klost' PROVE keys' \in Seq(AllKeys)' /\ \E P : Points(P)' /\ Decoded(P[0])'
  BY DEF KeyInv
<1>1. UNCHANGED <<typed, keyboard, keys, klost, scancodes, handler>> /\ obf = None
  BY ZenonT(60) DEF Send, queueVars, historyVars
<1>2. keys \in Seq(AllKeys) /\ \E P : Points(P) /\ Decoded(P[0])
  BY <1>1 DEF KeyInv
<1>3. PICK P : Points(P) /\ Decoded(P[0])
  BY <1>2
<1>4. /\ \A j : KeyAt(j)' = KeyAt(j) /\ Keyed(j)' = Keyed(j)
      /\ \A j : ShiftAt(j)' = ShiftAt(j) /\ CapsAt(j)' = CapsAt(j)
      /\ AllKeys' = AllKeys
  BY <1>1, TypedKept, ZenonT(60)
<1>5. \A p : Fits(p)' = Fits(p) /\ After(p)' = After(p) /\ ByteAt(p)' = ByteAt(p)
  BY <1>1, ZenonT(60) DEF Fits, After, ByteAt, Due
<1>6. PICK F \in Nat : F = Flight
  <2>1. scancodes.len \in Nat
    BY DEF QueueInv, Ring
  <2> QED
    BY <2>1 DEF Flight, One
<1>7. /\ InHandler("keyboard")' = InHandler("keyboard")
      /\ ~InBuffer("keyboard") /\ InBuffer("keyboard")'
  <2>1. obf' # None
    <3>1. obf'.src = "keyboard"
      BY ZenonT(60)
    <3> QED
      BY ONLY <3>1 DEF None
  <2> QED
    BY <1>1, <2>1 DEF InHandler, InBuffer
<1>8. scancodes.len \in Nat /\ One(InHandler("keyboard")) \in {0, 1}
      /\ F = scancodes.len + One(InHandler("keyboard"))
  <2>1. One(InBuffer("keyboard")) = 0
    BY <1>7 DEF One
  <2> QED
    <3>1. scancodes.len \in Nat
      <4>1. scancodes.len \in 0 .. KEYS
        BY ZenonT(60) DEF QueueInv, Ring
      <4> QED
        BY ONLY <4>1
    <3>2. One(InHandler("keyboard")) \in {0, 1}
      BY ZenonT(60) DEF One
    <3>3. F = scancodes.len + One(InHandler("keyboard")) + One(InBuffer("keyboard"))
      BY <1>6, ZenonT(60) DEF Flight
    <3> QED
      BY ONLY <2>1, <3>1, <3>2, <3>3
<1>9. Flight' = F + 1
  <2>1. One(InBuffer("keyboard"))' = 1 /\ One(InHandler("keyboard"))' = One(InHandler("keyboard"))
    BY <1>7 DEF One
  <2> QED
    BY <1>1, <1>8, <2>1 DEF Flight
<1>10. Byte(F + 1)' = obf'.byte
  <2>1. ~(F + 1 <= scancodes'.len) /\ ~(InHandler("keyboard")' /\ F + 1 = scancodes'.len + 1)
    <3>1. scancodes' = scancodes
      BY <1>1, ZenonT(60)
    <3>2. CASE InHandler("keyboard")
      <4>1. One(InHandler("keyboard")) = 1
        BY <3>2, ZenonT(60) DEF One
      <4> QED
        BY ONLY <1>8, <3>1, <4>1
    <3>3. CASE ~InHandler("keyboard")
      <4>1. ~InHandler("keyboard")'
        BY <1>7, <3>3, ZenonT(60)
      <4> QED
        BY ONLY <1>8, <3>1, <4>1
    <3> QED
      BY <3>2, <3>3, ZenonT(60)
  <2> QED
    BY <2>1, ZenonT(60) DEF Byte
<1>11. ASSUME NEW j \in 1 .. F PROVE Byte(j)' = Byte(j)
  <2>1. CASE j <= scancodes.len
    BY ONLY <1>1, <2>1 DEF Byte, Contents
  <2>2. CASE ~(j <= scancodes.len)
    <3>1. InHandler("keyboard") /\ j = scancodes.len + 1
      BY <1>8, <2>2 DEF One
    <3> QED
      BY <1>1, <1>7, <2>2, <3>1, ZenonT(60) DEF Byte
  <2> QED
    BY <2>1, <2>2
<1>12. Fits(Sent) /\ P[F] = Sent /\ Sent.n = ksent /\ (Sent.half = 0 <=> ~prefixed)
  <2>1. P[F] = Sent /\ Fits(P[F])
    BY ONLY <1>3, <1>6 DEF Points
  <2> QED
    BY ONLY <2>1 DEF Sent, One
<1>13. PrefixDue <=> Due(Sent)
  BY <1>12, ZenonT(60) DEF PrefixDue, Due
<1>14. Fits(After(Sent)) /\ ByteAt(Sent) = obf'.byte
  <2>1. Fits(After(Sent))
    BY <1>12, AfterFits, ZenonT(60)
  <2>2. ByteAt(Sent) = IF PrefixDue THEN 224 ELSE StrokeByte(typed[ksent + 1])
    BY <1>12, <1>13, ZenonT(60) DEF ByteAt
  <2> QED
    BY <2>1, <2>2
<1>15. After(Sent) = Sent'
  <2>1. CASE PrefixDue
    <3>1. After(Sent) = [n |-> ksent, half |-> 1]
      BY <1>12, <1>13, <2>1, ZenonT(60) DEF After
    <3>2. ksent' = ksent /\ prefixed'
      BY <2>1
    <3>3. One(prefixed)' = 1
      BY <3>2 DEF One
    <3> QED
      BY <3>1, <3>2, <3>3, ZenonT(60) DEF Sent
  <2>2. CASE ~PrefixDue
    <3>1. After(Sent) = [n |-> ksent + 1, half |-> 0]
      BY <1>12, <1>13, <2>2, ZenonT(60) DEF After
    <3>2. ksent' = ksent + 1 /\ ~prefixed'
      BY <2>2
    <3>3. One(prefixed)' = 0
      BY <3>2 DEF One
    <3> QED
      BY <3>1, <3>2, <3>3, ZenonT(60) DEF Sent
  <2> QED
    BY <2>1, <2>2
<1>16. PICK a : a = After(Sent) /\ Fits(a) /\ a = Sent'
  BY <1>14, <1>15
<1>17. PICK s : s = Sent
  OBVIOUS
<1>18. PICK R : R = [j \in 0 .. F + 1 |-> IF j = F + 1 THEN a ELSE P[j]]
  BY ZenonT(60)
<1>19. R[F + 1] = a /\ \A j \in 0 .. F : R[j] = P[j]
  BY <1>18
<1>20. (\A j \in 0 .. Flight : Fits(R[j]))'
  <2>1. \A j \in 0 .. F + 1 : Fits(R[j])
    <3> TAKE j \in 0 .. F + 1
    <3>1. CASE j = F + 1
      BY <1>16, <1>19, <3>1, ZenonT(60)
    <3>2. CASE j \in 0 .. F
      BY <1>3, <1>6, <1>19, <3>2, ZenonT(60) DEF Points
    <3> QED
      BY <3>1, <3>2
  <2> QED
    BY <1>5, <1>9, <2>1
<1>21. (R[Flight] = Sent)'
  BY <1>9, <1>16, <1>19, ZenonT(60)
<1>22. (\A j \in 0 .. Flight - 1 :
            R[j].n < Len(typed) /\ R[j + 1] = After(R[j]) /\ Byte(j + 1) = ByteAt(R[j]))'
  <2>1. ASSUME NEW j \in 0 .. F
        PROVE  R[j].n < Len(typed) /\ R[j + 1] = After(R[j]) /\ Byte(j + 1)' = ByteAt(R[j])
    <3>1. CASE j = F
      BY <1>10, <1>12, <1>14, <1>16, <1>19, <3>1, ZenonT(60)
    <3>2. CASE j # F
      <4>1. j \in 0 .. F - 1 /\ j + 1 \in 0 .. F /\ j + 1 \in 1 .. F
        BY <3>2
      <4>2. P[j].n < Len(typed) /\ P[j + 1] = After(P[j]) /\ Byte(j + 1) = ByteAt(P[j])
        BY <1>3, <1>6, <4>1, ZenonT(60) DEF Points
      <4> QED
        BY <1>11, <1>19, <4>1, <4>2, ZenonT(60)
    <3> QED
      BY <3>1, <3>2, ZenonT(60)
  <2>2. 0 .. Flight' - 1 = 0 .. F
    BY <1>9
  <2> QED
    BY <1>1, <1>5, <2>1, <2>2, ZenonT(60)
<1>23. Points(R)'
  BY <1>20, <1>21, <1>22, ZenonT(60) DEF Points
<1>24. Decoded(R[0])'
  <2>1. R[0] = P[0]
    BY <1>19
  <2>2. \A j, h : StateAt(j, h)' = StateAt(j, h)
    BY <1>4, ZenonT(60) DEF StateAt
  <2>3. KeysOf(P[0].n)'
    BY <1>1, <1>3, <1>4, ZenonT(60) DEF KeysOf, Decoded
  <2> QED
    BY <1>1, <1>3, <2>1, <2>2, <2>3, ZenonT(60) DEF Decoded
<1> QED
  BY <1>1, <1>2, <1>4, <1>23, <1>24, ZenonT(60)

\* The reader takes the oldest byte.
LEMMA PopKeyKey ==
    ASSUME DeviceInv, QueueInv, QueueInv', KeyInv, PopKey, scancodes.len # 0, typed' = typed
    PROVE  KeyInv'
<1> SUFFICES ASSUME ~klost' PROVE keys' \in Seq(AllKeys)' /\ \E P : Points(P)' /\ Decoded(P[0])'
  BY DEF KeyInv
<1>1. UNCHANGED <<ksent, prefixed, klost, handler, obf>> /\ scancodes' = Pop(KEYS, scancodes)
  BY ZenonT(60) DEF PopKey, deviceVars
<1>2. PICK d : d = decode_scancode(keyboard, Oldest(scancodes))
  OBVIOUS
<1>3. keyboard' = d.k /\ keys' = IF d.key = NoKey THEN keys ELSE Append(keys, d.key)
  BY <1>2, ZenonT(60) DEF PopKey
<1>4. keys \in Seq(AllKeys) /\ \E P : Points(P) /\ Decoded(P[0])
  BY <1>1 DEF KeyInv
<1>5. PICK P : Points(P) /\ Decoded(P[0])
  BY <1>4
<1> DEFINE q == Pop(KEYS, scancodes)
<1>6. /\ Oldest(scancodes) = Contents(KEYS, scancodes)[1] /\ q.len = scancodes.len - 1
      /\ \A i \in 1 .. q.len : Contents(KEYS, q)[i] = Contents(KEYS, scancodes)[i + 1]
  <2>1. scancodes \in Ring(KEYS, Int) /\ InOrder(KEYS, scancodes) /\ scancodes.len # 0
    BY ZenonT(60) DEF QueueInv
  <2> QED
    BY <2>1, PopDequeues, InputAssumption, ZenonT(60)
<1> HIDE DEF q
<1>7. scancodes.len \in Nat \ {0} /\ scancodes' = q
  <2>1. scancodes \in Ring(KEYS, Int)
    BY ZenonT(60) DEF QueueInv
  <2>2. scancodes.len \in Nat
    BY <2>1 DEF Ring
  <2>3. scancodes' = q
    BY <1>1 DEF q
  <2> QED
    BY <2>2, <2>3
<1>8. InHandler("keyboard")' = InHandler("keyboard") /\ InBuffer("keyboard")' = InBuffer("keyboard")
  BY <1>1 DEF InHandler, InBuffer
<1>9. PICK F \in Nat \ {0} : F = Flight
  BY <1>7 DEF Flight, One
<1>10. Flight' = F - 1
  <2>1. One(InBuffer("keyboard"))' = One(InBuffer("keyboard"))
        /\ One(InHandler("keyboard"))' = One(InHandler("keyboard"))
    BY <1>8 DEF One
  <2>2. One(InBuffer("keyboard")) \in {0, 1} /\ One(InHandler("keyboard")) \in {0, 1}
    BY DEF One
  <2> QED
    BY ONLY <1>6, <1>7, <1>9, <2>1, <2>2 DEF Flight
<1>11. Byte(1) = Oldest(scancodes)
  <2>1. 1 <= scancodes.len
    BY ONLY <1>7
  <2> QED
    BY <1>6, <2>1, ZenonT(60) DEF Byte
<1>12. ASSUME NEW j \in 1 .. F - 1 PROVE Byte(j)' = Byte(j + 1)
  <2>1. CASE j <= q.len
    <3>1. j + 1 <= scancodes.len /\ j \in 1 .. q.len
      BY <1>6, <1>7, <2>1
    <3>2. Byte(j)' = Contents(KEYS, q)[j]
      BY <1>7, <2>1, ZenonT(60) DEF Byte
    <3>3. Byte(j + 1) = Contents(KEYS, scancodes)[j + 1]
      BY <3>1, ZenonT(60) DEF Byte
    <3> QED
      BY <1>6, <3>1, <3>2, <3>3
  <2>2. CASE ~(j <= q.len)
    <3>1. ~(j + 1 <= scancodes.len) /\ (j = q.len + 1 <=> j + 1 = scancodes.len + 1)
      BY <1>6, <1>7, <2>2
    <3> QED
      BY <1>1, <1>7, <1>8, <2>2, <3>1, ZenonT(60) DEF Byte
  <2> QED
    BY <2>1, <2>2
<1>13. PICK p : p = P[0] /\ Fits(p) /\ p.n < Len(typed) /\ P[1] = After(p) /\ Byte(1) = ByteAt(p)
               /\ Decoded(p)
  <2>1. 0 \in 0 .. F /\ 0 \in 0 .. F - 1 /\ 0 + 1 = 1
    OBVIOUS
  <2> QED
    BY <1>5, <1>9, <2>1, ZenonT(60) DEF Points
<1>14. Decoded(After(p))' /\ keys' \in Seq(AllKeys)'
  <2>1. d = decode_scancode(keyboard, ByteAt(p))
    BY <1>2, <1>11, <1>13, ZenonT(60)
  <2> QED
    BY <1>3, <1>4, <1>13, <2>1, DecodeStep, ZenonT(60)
<1>15. \A x : Fits(x)' = Fits(x) /\ After(x)' = After(x) /\ ByteAt(x)' = ByteAt(x) /\ Sent' = Sent
  BY <1>1, ZenonT(60) DEF Fits, After, ByteAt, Due, Sent
<1>16. PICK R : R = [j \in 0 .. F - 1 |-> P[j + 1]]
  BY ZenonT(60)
<1>17. \A j \in 0 .. F - 1 : R[j] = P[j + 1]
  BY <1>16
<1>18. (\A j \in 0 .. Flight : Fits(R[j]))'
  <2>1. \A j \in 0 .. F - 1 : Fits(R[j])
    BY ONLY <1>5, <1>9, <1>17 DEF Points
  <2> QED
    BY <1>10, <1>15, <2>1
<1>19. (R[Flight] = Sent)'
  <2>1. R[F - 1] = P[F] /\ P[F] = Sent
    <3>1. F - 1 \in 0 .. F - 1 /\ (F - 1) + 1 = F
      BY ONLY <1>9
    <3> QED
      BY <1>5, <1>9, <1>17, <3>1, ZenonT(60) DEF Points
  <2> QED
    BY <1>10, <1>15, <2>1, ZenonT(60)
<1>20. (\A j \in 0 .. Flight - 1 :
            R[j].n < Len(typed) /\ R[j + 1] = After(R[j]) /\ Byte(j + 1) = ByteAt(R[j]))'
  <2>1. ASSUME NEW j \in 0 .. F - 2
        PROVE  R[j].n < Len(typed) /\ R[j + 1] = After(R[j]) /\ Byte(j + 1)' = ByteAt(R[j])
    <3>1. PICK k : k = j + 1 /\ k \in 0 .. F - 1 /\ k \in 1 .. F - 1 /\ j \in 0 .. F - 1
      OBVIOUS
    <3>2. P[k].n < Len(typed) /\ P[k + 1] = After(P[k]) /\ Byte(k + 1) = ByteAt(P[k])
      BY <1>5, <1>9, <3>1, ZenonT(60) DEF Points
    <3>3. R[j] = P[k] /\ R[k] = P[k + 1] /\ Byte(k)' = Byte(k + 1)
      BY <1>12, <1>17, <3>1, ZenonT(60)
    <3> QED
      BY <3>1, <3>2, <3>3, ZenonT(60)
  <2>2. 0 .. Flight' - 1 = 0 .. F - 2
    BY <1>10
  <2> QED
    BY <1>15, <2>1, <2>2, ZenonT(60)
<1>21. Points(R)'
  BY <1>18, <1>19, <1>20, ZenonT(60) DEF Points
<1>22. R[0] = After(p) /\ After(p)' = After(p)
  <2>1. 0 \in 0 .. F - 1 /\ 0 + 1 = 1
    BY ONLY <1>9
  <2> QED
    BY <1>13, <1>15, <1>17, <2>1, ZenonT(60)
<1>23. Decoded(R[0])'
  BY <1>14, <1>22
<1> QED
  BY <1>14, <1>21, <1>23

\* The handler puts its byte behind the others; when the queue is full, a byte
\* is lost and nothing is claimed.
LEMMA PushKey ==
    ASSUME QueueInv, KeyInv, PushScancode
    PROVE  KeyInv'
<1>1. /\ UNCHANGED <<typed, ksent, prefixed, keyboard, keys, obf>> /\ handler' = None
      /\ scancodes' = Push(KEYS, scancodes, handler.byte)
      /\ klost' = (klost \/ scancodes.len = KEYS) /\ InHandler("keyboard")
  BY ZenonT(60) DEF PushScancode, Iret, deviceVars, InHandler
<1>2. ~InHandler("keyboard")' /\ InBuffer("keyboard")' = InBuffer("keyboard")
  BY <1>1 DEF InHandler, InBuffer
<1>3. handler.byte \in Int /\ scancodes.len \in Nat
  <2>1. scancodes.len \in Nat
    <3>1. scancodes.len \in 0 .. KEYS
      BY ZenonT(60) DEF QueueInv, Ring
    <3> QED
      BY ONLY <3>1
  <2>2. "keyboard" \in Sources
    BY ZenonT(60) DEF Sources
  <2> QED
    BY <1>1, <2>1, <2>2, ZenonT(60) DEF QueueInv
<1> DEFINE q == Push(KEYS, scancodes, handler.byte)
           drop == IF scancodes.len = KEYS THEN 1 ELSE 0
<1>4. /\ q.len = scancodes.len - drop + 1 /\ Contents(KEYS, q)[q.len] = handler.byte
      /\ \A i \in 1 .. q.len - 1 : Contents(KEYS, q)[i] = Contents(KEYS, scancodes)[i + drop]
  <2>1. scancodes \in Ring(KEYS, Int) /\ InOrder(KEYS, scancodes)
    BY ZenonT(60) DEF QueueInv
  <2> QED
    BY ONLY <1>3, <2>1, PushEnqueues, InputAssumption
<1> HIDE DEF q
<1>5. scancodes' = q
  BY <1>1 DEF q
<1>6. One(InHandler("keyboard")) = 1 /\ One(InHandler("keyboard"))' = 0
      /\ One(InBuffer("keyboard"))' = One(InBuffer("keyboard")) /\ One(InBuffer("keyboard")) \in {0, 1}
  BY <1>1, <1>2 DEF One
<1>7. Flight \in Nat /\ Flight = scancodes.len + 1 + One(InBuffer("keyboard"))
  BY <1>3, <1>6 DEF Flight
<1>8. ASSUME ~klost'
      PROVE  Flight' = Flight /\ \A j \in 1 .. Flight : Byte(j)' = Byte(j)
  <2>1. drop = 0
    BY <1>1, <1>8, ZenonT(60)
  <2>2. q.len = scancodes.len + 1
        /\ \A i \in 1 .. scancodes.len : Contents(KEYS, q)[i] = Contents(KEYS, scancodes)[i]
    BY <1>3, <1>4, <2>1
  <2>3. Flight' = Flight
    BY ONLY <1>3, <1>5, <1>6, <1>7, <2>2 DEF Flight
  <2>4. ASSUME NEW j \in 1 .. Flight PROVE Byte(j)' = Byte(j)
    <3>1. CASE j <= scancodes.len
      <4>1. j <= q.len /\ j \in 1 .. scancodes.len
        BY <1>3, <2>2, <3>1
      <4> QED
        BY <1>5, <2>2, <3>1, <4>1, ZenonT(60) DEF Byte
    <3>2. CASE j = scancodes.len + 1
      <4>1. ~(j <= scancodes.len) /\ j <= q.len /\ j = q.len
        BY <1>3, <2>2, <3>2
      <4>2. Byte(j) = handler.byte
        BY <1>1, <3>2, <4>1, ZenonT(60) DEF Byte
      <4>3. Byte(j)' = Contents(KEYS, q)[j]
        BY <1>5, <4>1, ZenonT(60) DEF Byte
      <4> QED
        BY <1>4, <4>1, <4>2, <4>3, ZenonT(60)
    <3>3. CASE j > scancodes.len + 1
      <4>1. ~(j <= scancodes.len) /\ ~(j <= q.len) /\ j # scancodes.len + 1
        BY <1>3, <2>2, <3>3
      <4> QED
        BY <1>1, <1>2, <1>5, <4>1, ZenonT(60) DEF Byte
    <3> QED
      BY <1>3, <3>1, <3>2, <3>3
  <2> QED
    BY <2>3, <2>4
<1>9. ~klost' => ~klost
  BY <1>1, ZenonT(60)
<1> QED
  BY <1>1, <1>7, <1>8, <1>9, PointsKept, ZenonT(60)

\* A queue that drain finds empty loses nothing.
LEMMA DrainKey ==
    ASSUME QueueInv, KeyInv, DrainKeys
    PROVE  KeyInv'
<1>1. /\ UNCHANGED <<typed, ksent, prefixed, keyboard, keys, obf, handler>>
      /\ scancodes' = Clear(scancodes) /\ klost' = (klost \/ scancodes.len > 0)
  BY ZenonT(60) DEF DrainKeys, deviceVars
<1>2. InHandler("keyboard")' = InHandler("keyboard") /\ InBuffer("keyboard")' = InBuffer("keyboard")
  BY <1>1 DEF InHandler, InBuffer
<1>3. scancodes.len \in Nat /\ scancodes'.len = 0
  <2>1. scancodes \in Ring(KEYS, Int)
    BY DEF QueueInv
  <2>2. Clear(scancodes).len = 0
    BY <2>1, ClearRing, InputAssumption
  <2> QED
    BY <1>1, <2>1, <2>2 DEF Ring
<1>4. One(InHandler("keyboard"))' = One(InHandler("keyboard")) /\ One(InHandler("keyboard")) \in {0, 1}
      /\ One(InBuffer("keyboard"))' = One(InBuffer("keyboard")) /\ One(InBuffer("keyboard")) \in {0, 1}
  BY <1>2 DEF One
<1>5. Flight \in Nat
  BY <1>3, <1>4 DEF Flight
<1>6. ASSUME ~klost'
      PROVE  Flight' = Flight /\ \A j \in 1 .. Flight : Byte(j)' = Byte(j)
  <2>1. scancodes.len = 0
    <3>1. ~(scancodes.len > 0)
      BY <1>1, <1>6, ZenonT(60)
    <3> QED
      BY <1>3, <3>1
  <2>2. Flight' = Flight
    BY <1>3, <1>4, <2>1 DEF Flight
  <2>3. ASSUME NEW j \in 1 .. Flight PROVE Byte(j)' = Byte(j)
    <3>1. ~(j <= scancodes.len) /\ ~(j <= scancodes'.len)
      BY <1>3, <2>1
    <3> QED
      BY <1>1, <1>2, <1>3, <2>1, <3>1, ZenonT(60) DEF Byte
  <2> QED
    BY <2>2, <2>3
<1>7. ~klost' => ~klost
  BY <1>1, ZenonT(60)
<1> QED
  BY <1>1, <1>5, <1>6, <1>7, PointsKept

\* The handler takes the byte out of the controller, and it keeps its place.
LEMMA ReadKey ==
    ASSUME Inv, QueueInv, KeyInv, read_interrupt_data
    PROVE  KeyInv'
<1>1. /\ UNCHANGED <<typed, ksent, prefixed, keyboard, keys, klost, scancodes>>
      /\ handler # None /\ handler.step = "read"
  BY ZenonT(60) DEF read_interrupt_data, queueVars, historyVars, deviceVars
<1>2. ~InHandler("keyboard")
  BY <1>1 DEF InHandler
<1>3. CASE obf.src = handler.src
  <2>1. obf' = None /\ handler' = [src |-> handler.src, step |-> "push", byte |-> obf.byte]
    BY <1>3, ZenonT(60) DEF read_interrupt_data
  <2>2. ~InBuffer("keyboard")' /\ InHandler("keyboard")' = InBuffer("keyboard")
    <3>1. handler' # None /\ obf # None
      <4>1. handler.src \in Sources
        BY <1>1, ZenonT(60) DEF Inv, TypeInv
      <4> QED
        BY ONLY <1>3, <2>1, <4>1 DEF None, Sources
    <3> QED
      BY <1>3, <2>1, <3>1, ZenonT(60) DEF InHandler, InBuffer
  <2>3. scancodes.len \in Nat
    <3>1. scancodes.len \in 0 .. KEYS
      BY ZenonT(60) DEF QueueInv, Ring
    <3> QED
      BY ONLY <3>1
  <2>4. PICK b \in {0, 1} : b = One(InBuffer("keyboard"))
    BY DEF One
  <2>5. Flight = scancodes.len + b
    BY <1>2, <2>3, <2>4 DEF Flight, One
  <2>6. Flight' = scancodes.len + b
    <3>1. One(InHandler("keyboard"))' = b /\ One(InBuffer("keyboard"))' = 0
      BY <2>2, <2>4 DEF One
    <3> QED
      BY <1>1, <2>3, <3>1 DEF Flight
  <2>7. ASSUME NEW j \in 1 .. Flight PROVE Byte(j)' = Byte(j)
    <3>1. CASE j <= scancodes.len
      <4>1. scancodes' = scancodes
        BY <1>1, ZenonT(60)
      <4> QED
        BY ONLY <3>1, <4>1 DEF Byte, Contents
    <3>2. CASE ~(j <= scancodes.len)
      <4>1. j = scancodes.len + 1 /\ InBuffer("keyboard")
        BY <2>3, <2>4, <2>5, <3>2 DEF One
      <4>2. Byte(j) = obf.byte
        BY <1>2, <3>2 DEF Byte
      <4>3. Byte(j)' = handler'.byte
        BY <1>1, <2>2, <3>2, <4>1, ZenonT(60) DEF Byte
      <4> QED
        BY <2>1, <4>2, <4>3
    <3> QED
      BY <3>1, <3>2
  <2>8. Flight \in Nat
    BY <2>3, <2>5
  <2> QED
    BY <1>1, <2>5, <2>6, <2>7, <2>8, PointsKept
<1>4. CASE obf.src # handler.src
  <2>1. obf' = obf /\ handler' = None
    BY <1>4, ZenonT(60) DEF read_interrupt_data
  <2>2. ~InHandler("keyboard")' /\ InBuffer("keyboard")' = InBuffer("keyboard")
    BY <2>1 DEF InHandler, InBuffer
  <2> QED
    BY <1>1, <1>2, <2>1, <2>2, BytesKept
<1> QED
  BY <1>3, <1>4

\* Every step keeps the bytes in line.
LEMMA NextKey ==
    ASSUME Inv, DeviceInv, DeviceInv', QueueInv, QueueInv', KeyInv, [Next]_vars
    PROVE  KeyInv'
<1>1. typed' = typed
  BY NextDevice
<1>2. CASE Send
  <2>1. CASE /\ ksent < Len(typed)
             /\ obf' = [src |-> "keyboard",
                        byte |-> IF PrefixDue THEN 224 ELSE StrokeByte(typed[ksent + 1])]
             /\ ksent' = IF PrefixDue THEN ksent ELSE ksent + 1
             /\ prefixed' = PrefixDue
    <3>1. obf'.src = "keyboard" /\ obf'.byte = IF PrefixDue THEN 224 ELSE StrokeByte(typed[ksent + 1])
      BY <2>1
    <3> QED
      BY <1>2, <2>1, <3>1, SendKey, ZenonT(60)
  <2>2. CASE obf' = [src |-> "mouse", byte |-> MouseByte(msent)] /\ UNCHANGED <<ksent, prefixed>>
    <3>1. UNCHANGED <<keyboard, keys, klost, scancodes, handler>> /\ obf = None
      BY <1>2, ZenonT(60) DEF Send, queueVars, historyVars
    <3>2. InHandler("keyboard")' = InHandler("keyboard") /\ ~InBuffer("keyboard") /\ ~InBuffer("keyboard")'
      BY <2>2, <3>1, ZenonT(60) DEF InHandler, InBuffer
    <3> QED
      BY <1>1, <2>2, <3>1, <3>2, BytesKept, ZenonT(60)
  <2> QED
    BY <1>2, <2>1, <2>2, ZenonT(60) DEF Send
<1>3. CASE Interrupt
  <2>1. UNCHANGED <<ksent, prefixed, keyboard, keys, klost, scancodes, obf>> /\ handler = None /\ handler'.step = "read"
    BY ONLY <1>3 DEF Interrupt, queueVars, historyVars, deviceVars
  <2>2. ~InHandler("keyboard") /\ ~InHandler("keyboard")' /\ InBuffer("keyboard")' = InBuffer("keyboard")
    BY <2>1 DEF InHandler, InBuffer
  <2> QED
    BY <1>1, <2>1, <2>2, BytesKept, ZenonT(60)
<1>4. CASE push_byte
  <2>1. UNCHANGED <<ksent, prefixed, keyboard, keys, klost, scancodes, obf>> /\ handler.src = "mouse" /\ handler' = None
    BY <1>4, ZenonT(60) DEF push_byte, Iret, historyVars, deviceVars
  <2>2. ~InHandler("keyboard") /\ ~InHandler("keyboard")' /\ InBuffer("keyboard")' = InBuffer("keyboard")
    BY <2>1 DEF InHandler, InBuffer
  <2> QED
    BY <1>1, <2>1, <2>2, BytesKept, ZenonT(60)
<1>5. ASSUME UNCHANGED <<ksent, prefixed, keyboard, keys, klost, scancodes, obf, handler>> PROVE KeyInv'
  <2>1. InHandler("keyboard")' = InHandler("keyboard") /\ InBuffer("keyboard")' = InBuffer("keyboard")
    BY <1>5 DEF InHandler, InBuffer
  <2> QED
    BY <1>1, <1>5, <2>1, BytesKept, ZenonT(60)
<1>6. CASE PopKey
  <2>1. CASE scancodes.len = 0
    BY <1>5, <1>6, <2>1, ZenonT(60) DEF PopKey, deviceVars
  <2>2. CASE scancodes.len # 0
    BY <1>1, <1>6, <2>2, PopKeyKey
  <2> QED
    BY <2>1, <2>2
<1>7. ASSUME NEW from, NEW queue, NEW to, Lock(from, queue, to) PROVE KeyInv'
  BY <1>5, <1>7, ZenonT(60) DEF Lock, deviceVars, queueVars, historyVars
<1>8. CASE TimerInterrupt \/ InputPoll \/ Hlt
  BY <1>5, <1>8, ZenonT(60) DEF TimerInterrupt, InputPoll, Hlt, deviceVars, queueVars, historyVars
<1>9. CASE DrainMouse \/ PopEvent
  BY <1>5, <1>9, ZenonT(60) DEF DrainMouse, PopEvent, deviceVars
<1>10. CASE UNCHANGED vars
  BY <1>5, <1>10, ZenonT(60) DEF vars
<1> QED
  BY <1>2, <1>3, <1>4, <1>6, <1>7, <1>8, <1>9, <1>10, PushKey, DrainKey, ReadKey, ZenonT(60)
     DEF Next, Handle, Read

\* The invariant of the keyboard's bytes.
THEOREM KeyInvHolds == Spec => [](FlowInv /\ KeyInv)
<1>1. Init => FlowInv /\ KeyInv
  BY InitInv, InitDevice, InitQueue, InitMouse, InitKey DEF FlowInv
<1>2. FlowInv /\ KeyInv /\ [Next]_vars => FlowInv' /\ KeyInv'
  <2> SUFFICES ASSUME FlowInv, KeyInv, [Next]_vars PROVE FlowInv' /\ KeyInv'
    OBVIOUS
  <2>1. Inv' /\ DeviceInv' /\ QueueInv'
    BY NextInv, NextDevice, NextQueue DEF FlowInv
  <2>2. MouseInv'
    BY <2>1, NextMouse DEF FlowInv
  <2>3. KeyInv'
    BY <2>1, NextKey DEF FlowInv
  <2> QED
    BY <2>1, <2>2, <2>3 DEF FlowInv
<1> QED
  BY <1>1, <1>2, PTL DEF Spec

\* The reader gets the keys that were typed, in order and with the right shift,
\* and at rest all of them, whatever is typed, as long as no scancode was
\* dropped by a full queue or a drain.
THEOREM KeysMatchTypedHolds == Spec => []KeysMatchTyped
<1>1. FlowInv /\ KeyInv => KeysMatchTyped
  <2> SUFFICES ASSUME FlowInv, KeyInv PROVE KeysMatchTyped
    OBVIOUS
  <2>1. TypeOK
    <3>1. InOrder(KEYS, scancodes) /\ scancodes.len \in 0 .. KEYS
      BY ZenonT(60) DEF FlowInv, QueueInv, Ring
    <3>2. InOrder(EVENTS, mouse) /\ mouse.len \in 0 .. EVENTS
      BY ZenonT(60) DEF FlowInv, QueueInv, Ring
    <3> QED
      BY <3>1, <3>2, ZenonT(60) DEF TypeOK, FlowInv, QueueInv, Inv, TypeInv
  <2>2. ASSUME ~klost
        PROVE  (\E n \in 0 .. Len(typed) : KeysOf(n)) /\ (KeyboardIdle => KeysOf(Len(typed)))
    <3>1. PICK P : Points(P) /\ Decoded(P[0])
      BY <2>2 DEF KeyInv
    <3>2. scancodes.len \in Nat /\ Flight \in Nat /\ Len(typed) \in Nat
      BY DEF FlowInv, QueueInv, Ring, Flight, One, DeviceInv
    <3>3. Fits(P[0]) /\ KeysOf(P[0].n)
      <4>1. 0 \in 0 .. Flight
        BY ONLY <3>2
      <4> QED
        BY <3>1, <4>1, ZenonT(60) DEF Points, Decoded
    <3>4. P[0].n \in 0 .. Len(typed)
      BY ONLY <3>2, <3>3 DEF Fits, Point
    <3>5. ASSUME KeyboardIdle PROVE KeysOf(Len(typed))
      <4>1. Flight = 0
        BY <3>5 DEF KeyboardIdle, Flight, One, InHandler, InBuffer
      <4>2. P[0] = Sent
        BY <3>1, <4>1, ZenonT(60) DEF Points
      <4>3. P[0].n = Len(typed)
        BY ONLY <3>5, <4>2 DEF Sent, KeyboardIdle
      <4> QED
        BY <3>3, <4>3
    <3> QED
      BY <3>3, <3>4, <3>5, ZenonT(60)
  <2> QED
    BY <2>1, <2>2 DEF KeysMatchTyped
<1> QED
  BY <1>1, KeyInvHolds, PTL
=============================================================================
