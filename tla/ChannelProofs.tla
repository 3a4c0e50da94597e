---------------------------- MODULE ChannelProofs ----------------------------
(***************************************************************************)
(* Channel implements BoundedFifo for every capacity, any number of tasks  *)
(* and all programs in which tasks are not interrupted or do not call      *)
(* send [block].                                                           *)
(***************************************************************************)
EXTENDS Channel, TLAPS

\* A call that is interrupted while it awaits unlocks the monitor, whoever owns it:
\* in one program there are either no blocks or no deadlines and cancellations.
Uninterrupted ==
  \A f \in Programs :
    \/ \A t \in Tasks : "send_block" \notin f[t]
    \/ \A t \in Tasks : "timeout" \notin f[t] /\ "cancel" \notin f[t]

(***************************************************************************)
(* The monitor's operations leave the owner alone, unlock excepted.        *)
(***************************************************************************)

\* A record of the shared state.
IsShared(s) ==
  s = [ring |-> s.ring, state |-> s.state, owner |-> s.owner, awaiters |-> s.awaiters,
       waiters |-> s.waiters, fired |-> s.fired]

\* From s to r the owner stays the same.
KeepsOwner(s, r) == IsShared(r) /\ r.owner = s.owner

LEMMA NowIsShared == IsShared(Now) /\ Now.owner = owner
BY DEF IsShared, Now

\* Two fields are replaced.
LEMMA ReplaceRingState ==
  ASSUME NEW s, IsShared(s), NEW x, NEW y
  PROVE  KeepsOwner(s, [s EXCEPT !.ring = x, !.state = y])
<1> DEFINE r == [s EXCEPT !.ring = x]
           q == [r EXCEPT !.state = y]
<1>1. [s EXCEPT !.ring = x, !.state = y] = q
  BY Zenon
<1>2. r = [ring |-> x, state |-> s.state, owner |-> s.owner, awaiters |-> s.awaiters,
           waiters |-> s.waiters, fired |-> s.fired]
  BY DEF IsShared
<1> HIDE DEF r
<1>3. q = [ring |-> x, state |-> y, owner |-> s.owner, awaiters |-> s.awaiters,
           waiters |-> s.waiters, fired |-> s.fired]
  BY <1>2
<1> HIDE DEF q
<1>4. KeepsOwner(s, q)
  BY <1>3 DEF KeepsOwner, IsShared
<1> QED
  BY <1>1, <1>4, Zenon

LEMMA ReplaceLists ==
  ASSUME NEW s, IsShared(s), NEW x, NEW y
  PROVE  KeepsOwner(s, [s EXCEPT !.awaiters = x, !.waiters = y])
<1> DEFINE r == [s EXCEPT !.awaiters = x]
           q == [r EXCEPT !.waiters = y]
<1>1. [s EXCEPT !.awaiters = x, !.waiters = y] = q
  BY Zenon
<1>2. r = [ring |-> s.ring, state |-> s.state, owner |-> s.owner, awaiters |-> x,
           waiters |-> s.waiters, fired |-> s.fired]
  BY DEF IsShared
<1> HIDE DEF r
<1>3. q = [ring |-> s.ring, state |-> s.state, owner |-> s.owner, awaiters |-> x,
           waiters |-> y, fired |-> s.fired]
  BY <1>2
<1> HIDE DEF q
<1>4. KeepsOwner(s, q)
  BY <1>3 DEF KeepsOwner, IsShared
<1> QED
  BY <1>1, <1>4, Zenon

LEMMA LinkInOwner ==
  ASSUME NEW s, NEW woken, IsShared(s)
  PROVE  KeepsOwner(s, LinkIn(s, woken))
<1> DEFINE rg == s.ring \o SuspendedOf(s, woken)
           st == [u \in Tasks |-> IF \E i \in DOMAIN woken : woken[i] = u THEN "RUNNING" ELSE s.state[u]]
           q == [s EXCEPT !.ring = rg, !.state = st]
<1>1. LinkIn(s, woken) = q
  BY Zenon DEF LinkIn
<1> HIDE DEF rg, st
<1>2. KeepsOwner(s, q)
  BY ReplaceRingState, Zenon
<1> HIDE DEF q
<1> QED
  BY <1>1, <1>2

LEMMA ResumeOwner ==
  ASSUME NEW s, NEW changed \in BOOLEAN, IsShared(s)
  PROVE  KeepsOwner(s, resume_(s, changed))
<1> DEFINE woken == (IF changed THEN s.awaiters ELSE <<>>) \o s.waiters
           l == LinkIn(s, woken)
           aw == IF changed THEN <<>> ELSE l.awaiters
<1>1. KeepsOwner(s, l)
  BY LinkInOwner
<1>2. resume_(s, changed) = [l EXCEPT !.awaiters = aw, !.waiters = <<>>]
  BY DEF resume_
<1> HIDE DEF l, aw
<1> DEFINE q == [l EXCEPT !.awaiters = aw, !.waiters = <<>>]
<1>3. KeepsOwner(l, q)
  <2>1. IsShared(l)
    BY <1>1 DEF KeepsOwner
  <2> QED
    BY <2>1, ReplaceLists, Zenon
<1> HIDE DEF q
<1>4. resume_(s, changed) = q
  BY <1>2, Zenon DEF q
<1> QED
  BY <1>1, <1>3, <1>4 DEF KeepsOwner

LEMMA ProcessMessagesOwner ==
  ASSUME NEW s, NEW targets, IsShared(s)
  PROVE  KeepsOwner(s, process_messages_(s, targets))
<1> DEFINE r == IF s.fired \cap targets # {} THEN notify_(s) ELSE s
<1>1. KeepsOwner(s, r)
  BY ResumeOwner DEF notify_, KeepsOwner
<1>2. process_messages_(s, targets) = [r EXCEPT !.fired = {}]
  BY DEF process_messages_
<1> HIDE DEF r
<1>3. [r EXCEPT !.fired = {}] =
        [ring |-> r.ring, state |-> r.state, owner |-> r.owner, awaiters |-> r.awaiters,
         waiters |-> r.waiters, fired |-> {}]
  BY <1>1 DEF KeepsOwner, IsShared
<1> QED
  BY <1>1, <1>2, <1>3 DEF KeepsOwner, IsShared

LEMMA YieldOwner ==
  ASSUME NEW s, NEW t, IsShared(s)
  PROVE  KeepsOwner(s, yield(s, t))
<1> DEFINE r == process_messages_(s, Targets(t, FALSE))
           rg == Append(Tail(r.ring), t)
<1>1. KeepsOwner(s, r)
  BY ProcessMessagesOwner
<1>2. yield(s, t) = [r EXCEPT !.ring = rg]
  BY DEF yield
<1> HIDE DEF r, rg
<1>3. [r EXCEPT !.ring = rg] =
        [ring |-> rg, state |-> r.state, owner |-> r.owner, awaiters |-> r.awaiters,
         waiters |-> r.waiters, fired |-> r.fired]
  BY <1>1 DEF KeepsOwner, IsShared
<1> QED
  BY <1>1, <1>2, <1>3 DEF KeepsOwner, IsShared

LEMMA SuspendOwner ==
  ASSUME NEW s, NEW t, NEW own, IsShared(s)
  PROVE  KeepsOwner(s, suspend_(s, t, own))
<1> DEFINE st == [s.state EXCEPT ![t] = "SUSPENDING"]
           z == [s EXCEPT !.state = st]
           r == process_messages_(z, Targets(t, own))
           rt == [r.state EXCEPT ![t] = "SUSPENDED"]
           q == [r EXCEPT !.ring = Tail(r.ring), !.state = rt]
<1>1. suspend_(s, t, own) = q \/ suspend_(s, t, own) = r
  BY DEF suspend_
<1> HIDE DEF st
<1>2. z = [ring |-> s.ring, state |-> st, owner |-> s.owner, awaiters |-> s.awaiters,
           waiters |-> s.waiters, fired |-> s.fired]
  BY DEF IsShared
<1>3. KeepsOwner(s, z)
  BY <1>2 DEF KeepsOwner, IsShared
<1> HIDE DEF z
<1>4. KeepsOwner(s, r)
  BY <1>3, ProcessMessagesOwner DEF KeepsOwner
<1> HIDE DEF r, rt
<1>5. KeepsOwner(r, q)
  <2>1. IsShared(r)
    BY <1>4 DEF KeepsOwner
  <2> QED
    BY <2>1, ReplaceRingState, Zenon
<1> HIDE DEF q
<1>6. KeepsOwner(s, q)
  BY <1>4, <1>5 DEF KeepsOwner
<1> QED
  BY <1>1, <1>4, <1>6

\* The end of locked_ leaves nobody in the monitor.
LEMMA UnlockOwner ==
  ASSUME NEW t
  PROVE  unlock(Now, t).owner = None
<1> DEFINE z == [Now EXCEPT !.owner = None]
           r == resume_(z, TRUE)
<1>1. IsShared(z) /\ z.owner = None
  BY DEF Now, IsShared
<1> HIDE DEF z
<1>2. KeepsOwner(z, r)
  BY <1>1, ResumeOwner
<1> HIDE DEF r
<1>3. KeepsOwner(r, yield(r, t))
  BY <1>2, YieldOwner DEF KeepsOwner
<1>4. unlock(Now, t) = r \/ unlock(Now, t) = yield(r, t)
  BY DEF unlock, r, z
<1> QED
  BY <1>1, <1>2, <1>3, <1>4 DEF KeepsOwner

(***************************************************************************)
(* The ring buffer.                                                        *)
(***************************************************************************)

\* The buffer and its indices have their types.
BufferOK ==
  /\ buffer \in [Slots -> Tasks \cup {None}] /\ start \in Slots /\ size \in 0..Capacity
  /\ index \in [Tasks -> Slots]

\* An index wraps around at most once.
LEMMA Wraps ==
  ASSUME NEW i \in 0..(2 * Capacity - 1)
  PROVE  i % Capacity = IF i < Capacity THEN i ELSE i - Capacity
<1>1. Capacity \in Nat \ {0}
  BY CapacityAssumption
<1>2. CASE i < Capacity
  BY <1>1, <1>2
<1>3. CASE i >= Capacity
  BY <1>1, <1>3
<1> QED
  BY <1>1, <1>2, <1>3

LEMMA ContentsType ==
  ASSUME BufferOK
  PROVE  Contents \in Seq(Tasks \cup {None}) /\ Len(Contents) = size
<1>1. Capacity \in Nat \ {0} /\ size \in Nat /\ size <= Capacity /\ start \in 0..(Capacity - 1)
  BY CapacityAssumption DEF BufferOK, Slots
<1>2. ASSUME NEW i \in 1..size PROVE buffer[(start + i - 1) % Capacity] \in Tasks \cup {None}
  <2>1. start + i - 1 \in 0..(2 * Capacity - 1)
    BY <1>1
  <2>2. (start + i - 1) % Capacity \in 0..(Capacity - 1)
    BY <1>1, <2>1, Wraps
  <2> QED
    BY <2>2 DEF BufferOK, Slots
<1> QED
  BY <1>1, <1>2 DEF Contents

\* A message goes to the end of the queue.
LEMMA WriteAppends ==
  ASSUME BufferOK, size < Capacity, NEW t \in Tasks, Write(Free, t), index' \in [Tasks -> Slots]
  PROVE  BufferOK' /\ Contents' = Append(Contents, t) /\ last' = last
<1>1. /\ Capacity \in Nat \ {0} /\ size \in Nat /\ size < Capacity
      /\ start \in 0..(Capacity - 1)
  BY CapacityAssumption DEF BufferOK, Slots
<1>2. start + size \in 0..(2 * Capacity - 1)
  BY <1>1
<1>3. Free \in 0..(Capacity - 1) /\ Free = IF start + size < Capacity THEN start + size
                                           ELSE start + size - Capacity
  BY <1>1, <1>2, Wraps DEF Free
<1> HIDE DEF Free
<1>4. /\ buffer' = [buffer EXCEPT ![Free] = t] /\ size' = size + 1 /\ start' = start /\ last' = last
  BY DEF Write
<1>5. BufferOK'
  BY <1>1, <1>3, <1>4 DEF BufferOK, Slots
<1>6. Contents \in Seq(Tasks \cup {None}) /\ Len(Contents) = size
  BY ContentsType
<1>7. Contents' \in Seq(Tasks \cup {None}) /\ Len(Contents') = size + 1
  <2>1. Contents' \in Seq(Tasks \cup {None}) /\ Len(Contents') = size'
    <3>1. ASSUME NEW i \in 1..size' PROVE buffer'[(start' + i - 1) % Capacity] \in Tasks \cup {None}
      <4>1. start + i - 1 \in 0..(2 * Capacity - 1)
        BY <1>1, <1>4
      <4>2. (start + i - 1) % Capacity \in 0..(Capacity - 1)
        BY <1>1, <4>1, Wraps
      <4> QED
        BY <1>4, <1>5, <4>2 DEF BufferOK, Slots
    <3> QED
      BY <1>1, <1>4, <3>1 DEF Contents
  <2> QED
    BY <1>4, <2>1
<1>8. ASSUME NEW i \in 1..size PROVE Contents'[i] = Contents[i]
  <2>1. Contents[i] = buffer[(start + i - 1) % Capacity]
    BY DEF Contents
  <2>2. Contents'[i] = buffer'[(start + i - 1) % Capacity]
    BY <1>1, <1>4 DEF Contents
  <2>3. start + i - 1 \in 0..(2 * Capacity - 1)
    BY <1>1
  <2>4. (start + i - 1) % Capacity = IF start + i - 1 < Capacity THEN start + i - 1
                                     ELSE start + i - 1 - Capacity
    BY <1>1, <2>3, Wraps
  <2>5. (start + i - 1) % Capacity \in 0..(Capacity - 1) /\ (start + i - 1) % Capacity # Free
    BY <1>1, <1>3, <2>4
  <2> QED
    BY <1>4, <2>1, <2>2, <2>5 DEF BufferOK, Slots
<1>9. Contents'[size + 1] = t
  <2>1. Contents'[size + 1] = buffer'[(start + (size + 1) - 1) % Capacity]
    BY <1>1, <1>4 DEF Contents
  <2>2. start + (size + 1) - 1 = start + size
    BY <1>1
  <2>3. Contents'[size + 1] = buffer'[Free]
    BY <2>1, <2>2 DEF Free
  <2> QED
    BY <1>3, <1>4, <2>3 DEF BufferOK, Slots
<1>10. Contents' = Append(Contents, t)
  BY <1>1, <1>6, <1>7, <1>8, <1>9
<1> QED
  BY <1>4, <1>5, <1>10

\* receive takes the first message.
LEMMA ReadRemoves ==
  ASSUME BufferOK, size > 0, last' = buffer[start], start' = After(start), size' = size - 1,
         UNCHANGED <<buffer, index>>
  PROVE  BufferOK' /\ Contents # <<>> /\ last' = Head(Contents) /\ Contents' = Tail(Contents)
<1>1. /\ Capacity \in Nat \ {0} /\ size \in Nat /\ size <= Capacity /\ size > 0
      /\ start \in 0..(Capacity - 1)
  BY CapacityAssumption DEF BufferOK, Slots
<1>2. start + 1 \in 0..(2 * Capacity - 1) \/ (Capacity = 1 /\ start + 1 = 1)
  BY <1>1
<1>3. start' \in 0..(Capacity - 1) /\ start' = IF start + 1 < Capacity THEN start + 1
                                              ELSE start + 1 - Capacity
  BY <1>1, <1>2, Wraps DEF After
<1>4. BufferOK'
  BY <1>1, <1>3 DEF BufferOK, Slots
<1>5. Contents \in Seq(Tasks \cup {None}) /\ Len(Contents) = size
  BY ContentsType
<1>6. Contents[1] = buffer[start]
  <2>1. Contents[1] = buffer[(start + 1 - 1) % Capacity]
    BY <1>1 DEF Contents
  <2>2. start + 1 - 1 = start /\ start \in 0..(2 * Capacity - 1)
    BY <1>1
  <2>3. start % Capacity = start
    BY <1>1, <2>2, Wraps
  <2> QED
    BY <2>1, <2>2, <2>3
<1>7. ASSUME NEW i \in 1..(size - 1) PROVE Contents'[i] = Contents[i + 1]
  <2>1. Contents[i + 1] = buffer[(start + (i + 1) - 1) % Capacity]
    BY <1>1 DEF Contents
  <2>2. Contents'[i] = buffer[(start' + i - 1) % Capacity]
    BY <1>1 DEF Contents
  <2>3. start' + i - 1 \in 0..(2 * Capacity - 1) /\ start + (i + 1) - 1 \in 0..(2 * Capacity - 1)
    BY <1>1, <1>3
  <2>4. (start' + i - 1) % Capacity = IF start' + i - 1 < Capacity THEN start' + i - 1
                                      ELSE start' + i - 1 - Capacity
    BY <1>1, <1>3, <2>3, Wraps
  <2>5. (start + (i + 1) - 1) % Capacity = IF start + (i + 1) - 1 < Capacity THEN start + (i + 1) - 1
                                           ELSE start + (i + 1) - 1 - Capacity
    BY <1>1, <2>3, Wraps
  <2>6. (start' + i - 1) % Capacity = (start + (i + 1) - 1) % Capacity
    BY <1>1, <1>3, <2>4, <2>5
  <2> QED
    BY <2>1, <2>2, <2>6
<1>8. DOMAIN Contents' = 1..(size - 1)
  BY DEF Contents
<1>9. Contents' = [i \in 1..(size - 1) |-> Contents'[i]]
  BY DEF Contents
<1>10. /\ Tail(Contents) \in Seq(Tasks \cup {None}) /\ Len(Tail(Contents)) = size - 1
       /\ \A i \in 1..(size - 1) : Tail(Contents)[i] = Contents[i + 1]
  <2> HIDE DEF Contents
  <2> QED
    BY <1>1, <1>5
<1>11. Contents' = Tail(Contents)
  <2>1. Tail(Contents) = [i \in 1..(size - 1) |-> Tail(Contents)[i]]
    <3> DEFINE q == Tail(Contents)
    <3>1. q \in Seq(Tasks \cup {None}) /\ Len(q) = size - 1
      BY <1>10
    <3> HIDE DEF q
    <3>2. q = [i \in 1..(size - 1) |-> q[i]]
      BY <3>1
    <3> QED
      BY <3>2 DEF q
  <2> QED
    BY <1>7, <1>9, <1>10, <2>1
<1> QED
  BY <1>1, <1>4, <1>5, <1>6, <1>11

(***************************************************************************)
(* The monitor.                                                            *)
(***************************************************************************)

Places == {"run", "locking", "awaiting", "block", "exit", "done"}

\* Only the owner is in a block, a task waits in a method of its program, and
\* nobody is interrupted or in a block unless the programs provide for it.
MonitorInv ==
  /\ program \in Programs
  /\ pc \in [Tasks -> Places] /\ op \in [Tasks -> Methods \cup {None}]
  /\ owner \in Tasks \cup {None} /\ OwnerIsInside
  /\ canceled \in [Tasks -> BOOLEAN] /\ deadline \in [Tasks -> {"none", "set", "passed"}]
  /\ \A t \in Tasks : pc[t] \in Blocked => op[t] \in program[t]
  /\ (\A t \in Tasks : "timeout" \notin program[t] /\ "cancel" \notin program[t])
       => \A t \in Tasks : ~canceled[t] /\ deadline[t] = "none"
  /\ (\A t \in Tasks : "send_block" \notin program[t]) => \A t \in Tasks : pc[t] # "block"

\* The slot that a block was told stays the next free one.
IndexIsFree == \A t \in Tasks : pc[t] = "block" => index[t] = Free /\ size < Capacity

\* A task that is not in a block goes on to v, in method w.
LEMMA TaskMoves ==
  ASSUME MonitorInv, NEW t \in Tasks, pc[t] # "block",
         NEW v \in Places \ {"block"}, NEW w \in Methods \cup {None},
         v \in Blocked => w \in program[t],
         pc' = [pc EXCEPT ![t] = v], op' = [op EXCEPT ![t] = w],
         program' = program, owner' = owner,
         canceled' \in [Tasks -> BOOLEAN], deadline' \in [Tasks -> {"none", "set", "passed"}],
         (\A u \in Tasks : "timeout" \notin program[u] /\ "cancel" \notin program[u])
           => \A u \in Tasks : ~canceled'[u] /\ deadline'[u] = "none"
  PROVE  MonitorInv'
<1>1. /\ pc' \in [Tasks -> Places] /\ op' \in [Tasks -> Methods \cup {None}]
      /\ pc'[t] = v /\ op'[t] = w
      /\ \A u \in Tasks \ {t} : pc'[u] = pc[u] /\ op'[u] = op[u]
  BY DEF MonitorInv
<1>2. OwnerIsInside'
  BY <1>1 DEF MonitorInv, OwnerIsInside
<1>3. \A u \in Tasks : pc'[u] \in Blocked => op'[u] \in program[u]
  BY <1>1 DEF MonitorInv
<1>4. (\A u \in Tasks : "send_block" \notin program[u]) => \A u \in Tasks : pc'[u] # "block"
  BY <1>1 DEF MonitorInv
<1> QED
  BY <1>1, <1>2, <1>3, <1>4 DEF MonitorInv

\* All tasks stay where they are.
LEMMA TasksStay ==
  ASSUME MonitorInv, UNCHANGED <<pc, op, program, owner>>,
         canceled' \in [Tasks -> BOOLEAN], deadline' \in [Tasks -> {"none", "set", "passed"}],
         (\A u \in Tasks : "timeout" \notin program[u] /\ "cancel" \notin program[u])
           => \A u \in Tasks : ~canceled'[u] /\ deadline'[u] = "none"
  PROVE  MonitorInv'
BY DEF MonitorInv, OwnerIsInside

\* A task leaves the monitor when nobody else is in it.
LEMMA TaskLeaves ==
  ASSUME MonitorInv, NEW t \in Tasks, owner \in {None, t}, NEW v \in {"run", "exit"},
         owner' = None, pc' = [pc EXCEPT ![t] = v], op' = [op EXCEPT ![t] = None],
         program' = program, canceled' = canceled,
         deadline' \in [Tasks -> {"none", "set", "passed"}],
         \A u \in Tasks : deadline[u] = "none" => deadline'[u] = "none"
  PROVE  MonitorInv' /\ \A u \in Tasks : pc'[u] # "block"
<1>1. /\ pc' \in [Tasks -> Places] /\ op' \in [Tasks -> Methods \cup {None}]
      /\ pc'[t] = v
      /\ \A u \in Tasks \ {t} : pc'[u] = pc[u] /\ op'[u] = op[u]
  BY DEF MonitorInv, Places
<1>2. None \notin Tasks
  BY ProgramsAssumption
<1>3. \A u \in Tasks : pc'[u] # "block"
  BY <1>1, <1>2 DEF MonitorInv, OwnerIsInside
<1>4. \A u \in Tasks : pc'[u] \in Blocked => op'[u] \in program[u]
  BY <1>1 DEF MonitorInv, Blocked
<1> QED
  BY <1>1, <1>2, <1>3, <1>4 DEF MonitorInv, OwnerIsInside

\* Whoever is interrupted while it awaits finds nobody in a block.
LEMMA InterruptedWithoutBlocks ==
  ASSUME Uninterrupted, MonitorInv, NEW t \in Tasks, AwaitInterrupted(t)
  PROVE  owner = None
<1>1. ~(\A u \in Tasks : "timeout" \notin program[u] /\ "cancel" \notin program[u])
  BY DEF MonitorInv, AwaitInterrupted, IsCanceled
<1>2. \A u \in Tasks : "send_block" \notin program[u]
  BY <1>1 DEF Uninterrupted, MonitorInv
<1>3. \A u \in Tasks : pc[u] # "block"
  BY <1>2 DEF MonitorInv
<1> QED
  BY <1>3 DEF MonitorInv, OwnerIsInside

\* A task that is about to lock or to await is outside, in a method of its program.
LEMMA CallerOutside ==
  ASSUME MonitorInv, NEW t \in Tasks, NEW o \in Methods, Locking(t, o) \/ Awaiting(t, o)
  PROVE  pc[t] # "block" /\ o \in program[t]
BY DEF MonitorInv, Locking, Awaiting, Enters, Blocked

\* The channel is left alone.
Idle == UNCHANGED channelVars /\ MonitorInv' /\ \A t \in Tasks : pc'[t] = "block" => pc[t] = "block"

\* The steps of a task up to the point where it has the monitor.
LEMMA WaitingIsIdle ==
  ASSUME Uninterrupted, MonitorInv, NEW t \in Tasks, NEW o \in Methods,
         LockThrows(t, o) \/ wait_(t, o) \/ AwaitThrows(t, o)
           \/ \E first \in BOOLEAN : await_(t, o, first),
         UNCHANGED channelVars
  PROVE  Idle
<1>0. pc \in [Tasks -> Places]
  BY DEF MonitorInv
<1>1. pc[t] # "block" /\ o \in program[t]
  BY CallerOutside DEF LockThrows, wait_, AwaitThrows, await_
<1>2. ASSUME NEW v \in Places \ {"block"}, pc' = [pc EXCEPT ![t] = v]
      PROVE  \A u \in Tasks : pc'[u] = "block" => pc[u] = "block"
  BY <1>0, <1>2
<1>3. CASE LockThrows(t, o)
  <2> DEFINE v == IF IsCanceled(t) THEN "exit" ELSE "run"
  <2>1. /\ pc' = [pc EXCEPT ![t] = v] /\ op' = [op EXCEPT ![t] = None]
        /\ deadline' = [deadline EXCEPT ![t] = "none"] /\ UNCHANGED <<program, canceled, owner>>
    BY <1>3 DEF LockThrows, Thrown, taskVars
  <2>2. v \in Places \ {"block"} /\ v \notin Blocked
    BY DEF Places, Blocked
  <2> HIDE DEF v
  <2>3. MonitorInv'
    <3>1. /\ canceled' \in [Tasks -> BOOLEAN]
          /\ deadline' \in [Tasks -> {"none", "set", "passed"}]
          /\ (\A u \in Tasks : "timeout" \notin program[u] /\ "cancel" \notin program[u])
               => \A u \in Tasks : ~canceled'[u] /\ deadline'[u] = "none"
      BY <2>1 DEF MonitorInv
    <3> QED
      BY <1>1, <2>1, <2>2, <3>1, TaskMoves
  <2> QED
    BY <1>2, <2>1, <2>2, <2>3 DEF Idle
<1>4. CASE wait_(t, o)
  <2> DEFINE z == [Now EXCEPT !.waiters = Append(waiters, t)]
  <2>1. Become(suspend_(z, t, deadline[t] # "none"))
    BY <1>4 DEF wait_, Now
  <2>2. IsShared(z) /\ z.owner = owner
    BY DEF IsShared, Now
  <2> HIDE DEF z
  <2>3. owner' = owner
    BY <2>1, <2>2, SuspendOwner DEF Become, KeepsOwner
  <2>4. /\ pc' = [pc EXCEPT ![t] = "locking"] /\ op' = [op EXCEPT ![t] = o]
        /\ UNCHANGED <<program, deadline, canceled>>
    BY <1>4 DEF wait_
  <2>5. MonitorInv'
    <3>1. /\ canceled' \in [Tasks -> BOOLEAN]
          /\ deadline' \in [Tasks -> {"none", "set", "passed"}]
          /\ (\A u \in Tasks : "timeout" \notin program[u] /\ "cancel" \notin program[u])
               => \A u \in Tasks : ~canceled'[u] /\ deadline'[u] = "none"
      BY <2>4 DEF MonitorInv
    <3>2. "locking" \in Places \ {"block"}
      BY DEF Places
    <3> QED
      BY <1>1, <2>3, <2>4, <3>1, <3>2, TaskMoves
  <2> QED
    BY <1>2, <2>4, <2>5 DEF Idle, Places
<1>5. ASSUME NEW first \in BOOLEAN, await_(t, o, first) PROVE Idle
  <2> DEFINE s == IF owner = None THEN resume_(Now, first) ELSE Now
             z == [s EXCEPT !.awaiters = Append(s.awaiters, t)]
  <2>1. Become(suspend_(z, t, deadline[t] # "none"))
    BY <1>5 DEF await_
  <2>2. IsShared(s) /\ s.owner = owner
    BY NowIsShared, ResumeOwner DEF KeepsOwner
  <2> HIDE DEF s
  <2>3. z = [ring |-> s.ring, state |-> s.state, owner |-> s.owner,
             awaiters |-> Append(s.awaiters, t), waiters |-> s.waiters, fired |-> s.fired]
    BY <2>2 DEF IsShared
  <2>4. IsShared(z) /\ z.owner = owner
    BY <2>2, <2>3 DEF IsShared
  <2> HIDE DEF z
  <2>5. owner' = owner
    BY <2>1, <2>4, SuspendOwner DEF Become, KeepsOwner
  <2>6. /\ pc' = [pc EXCEPT ![t] = "awaiting"] /\ op' = [op EXCEPT ![t] = o]
        /\ UNCHANGED <<program, deadline, canceled>>
    BY <1>5 DEF await_
  <2>7. MonitorInv'
    <3>1. /\ canceled' \in [Tasks -> BOOLEAN]
          /\ deadline' \in [Tasks -> {"none", "set", "passed"}]
          /\ (\A u \in Tasks : "timeout" \notin program[u] /\ "cancel" \notin program[u])
               => \A u \in Tasks : ~canceled'[u] /\ deadline'[u] = "none"
      BY <2>6 DEF MonitorInv
    <3>2. "awaiting" \in Places \ {"block"}
      BY DEF Places
    <3> QED
      BY <1>1, <2>5, <2>6, <3>1, <3>2, TaskMoves
  <2> QED
    BY <1>2, <2>6, <2>7 DEF Idle, Places
<1>6. CASE AwaitThrows(t, o)
  <2> DEFINE v == IF IsCanceled(t) THEN "exit" ELSE "run"
  <2>1. owner = None /\ owner' = None
    BY <1>6, InterruptedWithoutBlocks, UnlockOwner DEF AwaitThrows, Become
  <2>2. /\ pc' = [pc EXCEPT ![t] = v] /\ op' = [op EXCEPT ![t] = None]
        /\ deadline' = [deadline EXCEPT ![t] = "none"] /\ UNCHANGED <<program, canceled>>
    BY <1>6 DEF AwaitThrows, Thrown
  <2>3. v \in {"run", "exit"}
    OBVIOUS
  <2> HIDE DEF v
  <2>4. /\ deadline' \in [Tasks -> {"none", "set", "passed"}]
        /\ \A u \in Tasks : deadline[u] = "none" => deadline'[u] = "none"
    BY <2>2 DEF MonitorInv
  <2>5. MonitorInv' /\ \A u \in Tasks : pc'[u] # "block"
    BY <2>1, <2>2, <2>3, <2>4, TaskLeaves
  <2> QED
    BY <2>5 DEF Idle
<1> QED
  BY <1>3, <1>4, <1>5, <1>6

\* What tasks do outside the monitor, or inside their blocks.
LEMMA CommonIsIdle ==
  ASSUME MonitorInv, NEW t \in Tasks, Common(t) \/ BlockYields(t), UNCHANGED channelVars
  PROVE  Idle
<1>0. /\ pc \in [Tasks -> Places] /\ op \in [Tasks -> Methods \cup {None}] /\ program \in Programs
      /\ canceled \in [Tasks -> BOOLEAN] /\ deadline \in [Tasks -> {"none", "set", "passed"}]
      /\ (\A u \in Tasks : "timeout" \notin program[u] /\ "cancel" \notin program[u])
           => \A u \in Tasks : ~canceled[u] /\ deadline[u] = "none"
  BY DEF MonitorInv
<1>1. CASE Yield(t) \/ BlockYields(t)
  <2>1. /\ Become(yield(Now, t)) /\ UNCHANGED <<program, pc, op, deadline, canceled>>
    BY <1>1 DEF Yield, BlockYields
  <2>2. owner' = owner
    BY <2>1, NowIsShared, YieldOwner DEF Become, KeepsOwner
  <2>3. MonitorInv'
    BY <1>0, <2>1, <2>2, TasksStay
  <2> QED
    BY <2>1, <2>3 DEF Idle
<1>2. CASE with_timeout(t) \/ DeadlinePasses(t)
  <2>1. /\ UNCHANGED <<program, pc, op, canceled, owner>>
        /\ \/ /\ deadline' = [deadline EXCEPT ![t] = IF @ = "none" THEN "set" ELSE "none"]
              /\ "timeout" \in program[t]
           \/ /\ deadline' = [deadline EXCEPT ![t] = "passed"]
              /\ deadline[t] = "set"
    BY <1>2 DEF with_timeout, DeadlinePasses, taskVars
  <2>2. /\ deadline' \in [Tasks -> {"none", "set", "passed"}]
        /\ (\A u \in Tasks : "timeout" \notin program[u] /\ "cancel" \notin program[u])
             => \A u \in Tasks : ~canceled[u] /\ deadline'[u] = "none"
    BY <1>0, <2>1
  <2>3. MonitorInv'
    BY <1>0, <2>1, <2>2, TasksStay
  <2> QED
    BY <2>1, <2>3 DEF Idle
<1>3. ASSUME NEW u \in Tasks, cancel(t, u) PROVE Idle
  <2>1. /\ UNCHANGED <<program, pc, op, deadline>> /\ "cancel" \in program[t]
        /\ canceled' = [canceled EXCEPT ![u] = TRUE]
        /\ Become(notify_(Now)) \/ Become(Now)
    BY <1>3 DEF cancel
  <2>2. owner' = owner
    BY <2>1, NowIsShared, ResumeOwner DEF Become, KeepsOwner, notify_
  <2>3. canceled' \in [Tasks -> BOOLEAN]
    BY <1>0, <2>1
  <2>4. MonitorInv'
    BY <1>0, <2>1, <2>2, <2>3, TasksStay
  <2> QED
    BY <2>1, <2>4 DEF Idle
<1>4. CASE exit_(t)
  <2>1. pc[t] \in {"run", "exit"} /\ UNCHANGED <<program, op, canceled>>
        /\ deadline' = [deadline EXCEPT ![t] = "none"]
    BY <1>4 DEF exit_
  <2>2. PICK v \in {"done", "exit"} : pc' = [pc EXCEPT ![t] = v]
    BY <1>4 DEF exit_
  <2>3. owner' = owner
    <3> DEFINE z == [Now EXCEPT !.ring = <<>>, !.state[t] = "SUSPENDED", !.fired = {}]
    <3>1. CASE \A u \in Tasks \ {t} : pc[u] = "done"
      <4>1. Become(z)
        BY <1>4, <3>1, Zenon DEF exit_
      <4>2. owner' = z.owner
        BY <4>1, Zenon DEF Become
      <4>3. z.owner = owner
        <5> DEFINE a == [Now EXCEPT !.ring = <<>>]
                   b == [a EXCEPT !.state[t] = "SUSPENDED"]
                   c == [b EXCEPT !.fired = {}]
        <5>1. z = c
          BY Zenon
        <5>2. IsShared(a) /\ a.owner = owner
          BY DEF IsShared, Now
        <5> HIDE DEF a
        <5> DEFINE st == [a.state EXCEPT ![t] = "SUSPENDED"]
        <5>3. b = [a EXCEPT !.state = st]
          BY Zenon
        <5> HIDE DEF b, st
        <5>4. b = [ring |-> a.ring, state |-> st, owner |-> a.owner, awaiters |-> a.awaiters,
                   waiters |-> a.waiters, fired |-> a.fired]
          BY <5>2, <5>3 DEF IsShared
        <5>5. c.owner = owner
          BY <5>2, <5>4
        <5> HIDE DEF z, c
        <5> QED
          BY <5>1, <5>5
      <4> QED
        BY <4>2, <4>3, Zenon
    <3>2. CASE ~(\A u \in Tasks \ {t} : pc[u] = "done")
      <4>1. Become(suspend_(Now, t, FALSE))
        BY <1>4, <3>2, Zenon DEF exit_
      <4> QED
        BY <4>1, NowIsShared, SuspendOwner DEF Become, KeepsOwner
    <3> QED
      BY <3>1, <3>2
  <2>4. v \in Places \ {"block"} /\ v \notin Blocked /\ pc[t] # "block"
    BY <2>1 DEF Places, Blocked
  <2>5. op' = [op EXCEPT ![t] = op[t]] /\ op[t] \in Methods \cup {None}
    BY <1>0, <2>1
  <2>6. /\ deadline' \in [Tasks -> {"none", "set", "passed"}]
        /\ (\A u \in Tasks : "timeout" \notin program[u] /\ "cancel" \notin program[u])
             => \A u \in Tasks : ~canceled[u] /\ deadline'[u] = "none"
    BY <1>0, <2>1
  <2>7. MonitorInv'
    BY <1>0, <2>1, <2>2, <2>3, <2>4, <2>5, <2>6, TaskMoves
  <2> QED
    BY <1>0, <2>2, <2>7 DEF Idle
<1>5. CASE Wakeup(t)
  <2>1. /\ UNCHANGED <<program, op, deadline, canceled>>
        /\ Become(suspend_(Now, t, HasTarget(t)))
    BY <1>5 DEF Wakeup
  <2>2. owner' = owner
    BY <2>1, NowIsShared, SuspendOwner DEF Become, KeepsOwner
  <2>3. pc' = pc \/ (pc[t] = "exit" /\ pc' = [pc EXCEPT ![t] = "done"])
    BY <1>0, <1>5 DEF Wakeup
  <2>4. CASE pc' = pc
    <3>1. MonitorInv'
      BY <1>0, <2>1, <2>2, <2>4, TasksStay
    <3> QED
      BY <2>4, <3>1 DEF Idle
  <2>5. CASE pc[t] = "exit" /\ pc' = [pc EXCEPT ![t] = "done"]
    <3>1. op' = [op EXCEPT ![t] = op[t]] /\ op[t] \in Methods \cup {None}
      BY <1>0, <2>1
    <3>2. "done" \in Places \ {"block"} /\ "done" \notin Blocked /\ pc[t] # "block"
      BY <2>5 DEF Places, Blocked
    <3>3. MonitorInv'
      BY <1>0, <2>1, <2>2, <2>5, <3>1, <3>2, TaskMoves
    <3> QED
      BY <1>0, <2>5, <3>3 DEF Idle
  <2> QED
    BY <2>3, <2>4, <2>5
<1>6. CASE Fire(t)
  <2>1. UNCHANGED <<program, pc, op, deadline, canceled, owner>>
    BY <1>6 DEF Fire
  <2>2. MonitorInv'
    BY <1>0, <2>1, TasksStay
  <2> QED
    BY <2>1, <2>2 DEF Idle
<1> QED
  BY <1>1, <1>2, <1>3, <1>4, <1>5, <1>6 DEF Common

\* A task returns from a method: it was the only one inside.
LEMMA ReturnLeaves ==
  ASSUME MonitorInv, NEW t \in Tasks, owner \in {None, t}, Returns(t)
  PROVE  MonitorInv' /\ \A u \in Tasks : pc'[u] # "block"
<1>1. owner' = None
  BY UnlockOwner DEF Returns, Become
<1>2. /\ pc' = [pc EXCEPT ![t] = "run"] /\ op' = [op EXCEPT ![t] = None]
      /\ UNCHANGED <<program, deadline, canceled>>
  BY DEF Returns
<1>3. /\ deadline' \in [Tasks -> {"none", "set", "passed"}]
      /\ \A u \in Tasks : deadline[u] = "none" => deadline'[u] = "none"
  BY <1>2 DEF MonitorInv
<1> QED
  BY <1>1, <1>2, <1>3, TaskLeaves

\* A step of the abstract queue, or none.
FifoStep == \/ Contents' = Contents /\ last' = last
            \/ /\ Contents # <<>> /\ last' = Head(Contents) /\ Contents' = Tail(Contents)
            \/ \E t \in Tasks : /\ Len(Contents) < Capacity
                                /\ Contents' = Append(Contents, t) /\ last' = last

ChannelInv == MonitorInv /\ BufferOK /\ IndexIsFree

LEMMA ChannelInit == Init => ChannelInv /\ Contents = <<>> /\ last = None
<1> SUFFICES ASSUME Init PROVE ChannelInv /\ Contents = <<>> /\ last = None
  OBVIOUS
<1>1. Capacity \in Nat \ {0} /\ None \notin Tasks
  BY CapacityAssumption, ProgramsAssumption
<1>2. MonitorInv
  BY <1>1 DEF Init, MonitorInit, MonitorInv, OwnerIsInside, Places, Blocked
<1>3. BufferOK
  BY <1>1 DEF Init, BufferOK, Slots
<1>4. IndexIsFree
  BY DEF Init, MonitorInit, IndexIsFree
<1>5. Contents = <<>>
  <2>1. size = 0
    BY DEF Init
  <2>2. Len(Contents) = 0 /\ Contents \in Seq(Tasks \cup {None})
    BY <1>3, <2>1, ContentsType
  <2> HIDE DEF Contents
  <2> QED
    BY <2>2
<1> QED
  BY <1>2, <1>3, <1>4, <1>5 DEF ChannelInv, Init

\* Every step keeps the invariant and is one of the abstract queue, or none.
LEMMA ChannelStep ==
  ASSUME Uninterrupted, ChannelInv, [Next]_vars
  PROVE  ChannelInv' /\ FifoStep
<1>0. MonitorInv /\ BufferOK /\ IndexIsFree /\ None \notin Tasks /\ Capacity \in Nat
  BY ProgramsAssumption, CapacityAssumption DEF ChannelInv
<1>1. ASSUME Idle PROVE ChannelInv' /\ FifoStep
  <2>1. UNCHANGED <<buffer, start, size, index, last>>
    BY <1>1 DEF Idle, channelVars
  <2>2. Contents' = Contents
    BY <2>1 DEF Contents
  <2>3. BufferOK' /\ IndexIsFree'
    BY <1>0, <1>1, <2>1 DEF BufferOK, IndexIsFree, Idle, Free
  <2> QED
    BY <1>1, <2>1, <2>2, <2>3 DEF ChannelInv, Idle, FifoStep
<1>2. CASE UNCHANGED vars
  <2>1. UNCHANGED channelVars /\ UNCHANGED <<program, pc, op, owner, deadline, canceled>>
    BY <1>2 DEF vars, monitorVars, taskVars
  <2>2. MonitorInv'
    BY <1>0, <2>1, TasksStay DEF MonitorInv
  <2> QED
    BY <1>1, <2>1, <2>2 DEF Idle
<1>3. ASSUME NEW t \in Tasks, Common(t) \/ BlockYields(t), UNCHANGED channelVars
      PROVE  ChannelInv' /\ FifoStep
  BY <1>0, <1>1, <1>3, CommonIsIdle
<1>4. ASSUME NEW t \in Tasks, NEW o \in Methods,
             LockThrows(t, o) \/ wait_(t, o) \/ AwaitThrows(t, o)
               \/ \E first \in BOOLEAN : await_(t, o, first),
             UNCHANGED channelVars
      PROVE  ChannelInv' /\ FifoStep
  BY <1>0, <1>1, <1>4, WaitingIsIdle
<1>5. ASSUME NEW t \in Tasks, owner \in {None, t}, Returns(t), UNCHANGED channelVars
      PROVE  ChannelInv' /\ FifoStep
  <2>1. MonitorInv' /\ \A u \in Tasks : pc'[u] # "block"
    BY <1>0, <1>5, ReturnLeaves
  <2> QED
    BY <1>1, <1>5, <2>1 DEF Idle
<1>6. ASSUME NEW t \in Tasks, owner \in {None, t}, Returns(t), size < Capacity,
             Write(Free, t), index' = index
      PROVE  ChannelInv' /\ FifoStep
  <2>1. MonitorInv' /\ \A u \in Tasks : pc'[u] # "block"
    BY <1>0, <1>6, ReturnLeaves
  <2>2. BufferOK' /\ Contents' = Append(Contents, t) /\ last' = last
    BY <1>0, <1>6, WriteAppends DEF BufferOK
  <2>3. Len(Contents) < Capacity
    BY <1>0, <1>6, ContentsType
  <2> QED
    BY <2>1, <2>2, <2>3 DEF ChannelInv, IndexIsFree, FifoStep
<1>7. ASSUME NEW t \in Tasks, send(t) PROVE ChannelInv' /\ FifoStep
  BY <1>6, <1>7 DEF send, Admitted, Condition
<1>8. ASSUME NEW t \in Tasks, try_send(t) PROVE ChannelInv' /\ FifoStep
  BY <1>5, <1>6, <1>8 DEF try_send, Enters
<1>9. ASSUME NEW t \in Tasks, BlockReturns(t) PROVE ChannelInv' /\ FifoStep
  <2>1. owner = t /\ index[t] = Free /\ size < Capacity
    BY <1>0, <1>9 DEF BlockReturns, MonitorInv, OwnerIsInside, IndexIsFree
  <2> QED
    BY <1>6, <1>9, <2>1 DEF BlockReturns
<1>10. ASSUME NEW t \in Tasks, BlockThrows(t) PROVE ChannelInv' /\ FifoStep
  <2>1. owner = t
    BY <1>0, <1>10 DEF BlockThrows, MonitorInv, OwnerIsInside
  <2> QED
    BY <1>5, <1>10, <2>1 DEF BlockThrows
<1>11. ASSUME NEW t \in Tasks, ReceiveNothing(t) PROVE ChannelInv' /\ FifoStep
  BY <1>5, <1>11 DEF ReceiveNothing, Enters
<1>12. ASSUME NEW t \in Tasks, receive(t) PROVE ChannelInv' /\ FifoStep
  <2>1. /\ owner = None /\ size > 0 /\ Returns(t) /\ UNCHANGED <<buffer, index>>
        /\ last' = buffer[start] /\ start' = After(start) /\ size' = size - 1
    BY <1>12 DEF receive, Admitted, Condition
  <2>2. MonitorInv' /\ \A u \in Tasks : pc'[u] # "block"
    BY <1>0, <2>1, ReturnLeaves
  <2>3. BufferOK' /\ Contents # <<>> /\ last' = Head(Contents) /\ Contents' = Tail(Contents)
    BY <1>0, <2>1, ReadRemoves
  <2> QED
    BY <2>2, <2>3 DEF ChannelInv, IndexIsFree, FifoStep
<1>13. ASSUME NEW t \in Tasks, send_block(t) PROVE ChannelInv' /\ FifoStep
  <2>1. /\ owner = None /\ size < Capacity /\ Awaiting(t, "send_block")
        /\ index' = [index EXCEPT ![t] = Free] /\ owner' = t
        /\ pc' = [pc EXCEPT ![t] = "block"] /\ op' = [op EXCEPT ![t] = "send_block"]
        /\ UNCHANGED <<program, deadline, canceled, buffer, start, size, last>>
    BY <1>13 DEF send_block, Admitted, Condition
  <2>2. "send_block" \in Methods
    BY CapacityAssumption
  <2>3. "send_block" \in program[t]
    BY <1>0, <2>1, <2>2, CallerOutside
  <2>4. /\ pc' \in [Tasks -> Places] /\ op' \in [Tasks -> Methods \cup {None}] /\ pc'[t] = "block"
        /\ \A u \in Tasks \ {t} : pc'[u] = pc[u] /\ op'[u] = op[u] /\ pc[u] # "block"
    BY <1>0, <2>1, <2>2 DEF MonitorInv, OwnerIsInside, Places
  <2>5. OwnerIsInside'
    BY <2>1, <2>4 DEF OwnerIsInside
  <2>6. MonitorInv'
    BY <1>0, <2>1, <2>3, <2>4, <2>5 DEF MonitorInv, Blocked
  <2>7. Free \in Slots
    <3>1. start + size \in 0..(2 * Capacity - 1)
      BY <1>0, <2>1 DEF BufferOK, Slots
    <3>2. (start + size) % Capacity \in 0..(Capacity - 1)
      BY <1>0, <2>1, <3>1, Wraps DEF BufferOK, Slots
    <3> QED
      BY <3>2 DEF Free, Slots
  <2>8. Free' = Free /\ Contents' = Contents
    BY <2>1 DEF Free, Contents
  <2> HIDE DEF Free, Contents
  <2>9. BufferOK' /\ IndexIsFree'
    BY <1>0, <2>1, <2>4, <2>7, <2>8 DEF BufferOK, IndexIsFree
  <2> QED
    BY <2>1, <2>6, <2>8, <2>9 DEF ChannelInv, FifoStep
<1>14. ASSUME NEW t \in Tasks, NEW o \in Methods, Await(t, o) PROVE ChannelInv' /\ FifoStep
  BY <1>4, <1>14 DEF Await
<1>15. ASSUME NEW t \in Tasks, Inside(t) PROVE ChannelInv' /\ FifoStep
  <2>1. BlockYields(t) => UNCHANGED channelVars
    BY DEF BlockYields
  <2> QED
    BY <1>3, <1>4, <1>7, <1>8, <1>9, <1>10, <1>11, <1>12, <1>13, <1>14, <1>15, <2>1 DEF Inside
<1> QED
  BY <1>2, <1>3, <1>15 DEF Next, Outside

\* Channel implements the bounded queue, whatever its capacity, the number of tasks
\* and their interleaving: the index that send [block] computes before it calls the
\* block is still the right one when the block returns.
THEOREM ChannelIsFifo ==
  ASSUME Uninterrupted
  PROVE  Spec => IsFifo
<1>1. Init => ChannelInv /\ Fifo!Init
  BY ChannelInit DEF Fifo!Init
<1>2. ChannelInv /\ [Next]_vars => ChannelInv' /\ [Fifo!Next]_<<Contents, last>>
  <2> SUFFICES ASSUME ChannelInv, [Next]_vars
               PROVE  ChannelInv' /\ [Fifo!Next]_<<Contents, last>>
    OBVIOUS
  <2>1. ChannelInv' /\ FifoStep
    BY ChannelStep
  <2> HIDE DEF Contents
  <2> QED
    BY <2>1 DEF FifoStep, Fifo!Next, Fifo!Send, Fifo!Receive
<1> QED
  BY <1>1, <1>2, PTL DEF Spec, IsFifo, Fifo!Spec

\* Mutual exclusion: the owner of the monitor is the task whose block runs.
THEOREM OwnerInside ==
  ASSUME Uninterrupted
  PROVE  Spec => []OwnerIsInside
<1>1. Init => ChannelInv
  BY ChannelInit
<1>2. ChannelInv /\ [Next]_vars => ChannelInv'
  BY ChannelStep
<1>3. ChannelInv => OwnerIsInside
  BY DEF ChannelInv, MonitorInv
<1> QED
  BY <1>1, <1>2, <1>3, PTL DEF Spec
=============================================================================
