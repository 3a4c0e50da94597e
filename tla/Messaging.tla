------------------------------ MODULE Messaging ------------------------------
(***************************************************************************)
(* Who owns the malloced memory of system messages (src/messaging.cc and   *)
(* the primitives process_send, spawn, spawn_arguments and                 *)
(* task_receive_message of src/primitive_core.cc).  A sender encodes an    *)
(* object into a buffer: long strings and byte arrays are copied into      *)
(* memory areas of their own, the areas of external byte arrays change     *)
(* hands.  The receiver makes external objects of the areas.  Processes    *)
(* with a ProcessRunner take part through ExternalSystemMessageHandler.    *)
(*                                                                         *)
(* An object is the sequence of the leaves its encoding visits:            *)
(*   "inline"  a number or a short string or byte array, kept in the       *)
(*             buffer;                                                     *)
(*   "copy"    a long one, copied by encode_copy;                          *)
(*   "ext"     an external byte array of the sender;                       *)
(*   "map"     the tag of a Map, whose keys and values follow;             *)
(*   "bad"     an object that cannot be encoded, or is nested too deeply.  *)
(* One leaf stands for itself, other sequences for a list of the leaves.   *)
(* Lengths are not told apart, so an area counts 1 in the accounting.      *)
(* External objects are told apart by their areas only, so that those of a *)
(* process are a bag: two objects may have one area.                       *)
(***************************************************************************)
EXTENDS Integers, Sequences, FiniteSets, Bags

CONSTANTS
  Procs,         \* processes that exist at some time
  Runners,       \* the ones an ExternalSystemMessageHandler runs
  Boot,          \* the process that is there from the start
  Blocks,        \* the memory areas malloc can hand out
  Values,        \* objects that programs send
  SpawnValues,   \* objects that programs pass to spawn
  MaxExternals,  \* MESSAGING_ENCODING_MAX_EXTERNALS
  MaxMessages,   \* bound on the messages in one queue
  MaxShared,     \* bound: nobody makes new calls when more blocks are shared
  None           \* null

ASSUME ConstantsAssumption ==
  /\ Runners \subseteq Procs /\ Boot \in Procs \ Runners
  /\ MaxExternals \in Nat \ {0} /\ MaxMessages \in Nat
  /\ MaxShared \in Nat /\ None \notin Blocks

VARIABLES
  status,    \* "unborn", "alive" or "dead"
  live,      \* the blocks that are malloced and not freed
  heap,      \* the areas of external objects with a VM finalizer (for a runner:
             \* the data its handler holds), a bag
  external,  \* ObjectHeap::external_memory_
  mq,        \* messages_: encoded system messages
  args,      \* spawn_arguments_
  pc,        \* "idle", or where in a primitive the process is
  enc,       \* the MessageEncoder of that primitive
  fatal,     \* the VM has stopped in FATAL, has freed memory twice or has used
             \* a wild pointer
  shared     \* history: the blocks whose address a message gave to a receiver
             \* twice, or to a receiver while the sender kept it

vars == <<status, live, heap, external, mq, args, pc, enc, fatal, shared>>

Fresh == Blocks \ live

\* The areas an encoded message points to, and all that its deallocation frees.
Pointers(m) ==
  LET at(b) == {i \in DOMAIN m.items : m.items[i].ptr = b}
  IN [b \in {m.items[i].ptr : i \in DOMAIN m.items} \ {None} |-> Cardinality(at(b))]
Memory(m) == Pointers(m) (+) SetToBag({m.buffer})
Tags(m) == {m.items[i].tag : i \in DOMAIN m.items}

\* free() of the blocks in a bag, after malloc() of those in new.
FreeAfter(new, bag) ==
  /\ live' = (live \cup new) \ BagToSet(bag)
  /\ fatal' = \E b \in BagToSet(bag) : b \notin live \/ CopiesIn(b, bag) > 1
Free(bag) == FreeAfter({}, bag)

CountOf(v, leaf) == Cardinality({i \in DOMAIN v : v[i] = leaf})

Init ==
  /\ status = [p \in Procs |-> IF p \in Runners \cup {Boot} THEN "alive" ELSE "unborn"]
  /\ live = {} /\ heap = [p \in Procs |-> EmptyBag] /\ external = [p \in Procs |-> 0]
  /\ mq = [p \in Procs |-> <<>>] /\ args = [p \in Procs |-> None]
  /\ pc = [p \in Procs |-> "idle"] /\ enc = [p \in Procs |-> None]
  /\ fatal = FALSE /\ shared = {}

Running(p, where) == status[p] = "alive" /\ pc[p] = where /\ ~fatal
Goes(p, where) == pc' = [pc EXCEPT ![p] = where]
Program(p) == p \notin Runners

\* New calls of programs and handlers stop at the bound; what is under way goes on.
MayCall(p) == Running(p, "idle") /\ Cardinality(shared) <= MaxShared

------------------------------------------------------------------------------
(* External objects of a process. *)

\* AllocationManager::alloc accounts for the area; keep_result keeps it.
allocate_byte_array(p) ==
  /\ MayCall(p) /\ Program(p)
  /\ \E b \in Fresh :
       live' = live \cup {b} /\ heap' = [heap EXCEPT ![p] = @ (+) SetToBag({b})]
  /\ external' = [external EXCEPT ![p] = @ + 1]
  /\ UNCHANGED <<status, mq, args, pc, enc, fatal, shared>>

\* A collection finds an external object dead, and its VM finalizer frees the
\* area.  The objects a primitive works on are alive.
free_external_memory(p) ==
  /\ status[p] = "alive" /\ Program(p) /\ pc[p] \in {"idle", "gc"} /\ ~fatal
  /\ \E b \in BagToSet(heap[p]) :
       heap' = [heap EXCEPT ![p] = @ (-) SetToBag({b})] /\ Free(SetToBag({b}))
  /\ external' = [external EXCEPT ![p] = @ - 1]
  /\ UNCHANGED <<status, mq, args, pc, enc, shared>>

\* A primitive that failed with ALLOCATION_FAILED is called again after a GC.
RetryAfterGc(p) ==
  /\ Running(p, "gc") /\ Goes(p, "idle")
  /\ UNCHANGED <<status, live, heap, external, mq, args, enc, fatal, shared>>

------------------------------------------------------------------------------
(* Encoding. *)

\* What the encoder that only computes the size accepts.
EncodesForSize(v) == CountOf(v, "bad") = 0 /\ CountOf(v, "ext") <= MaxExternals

\* The size pass, and malloc(size) of the buffer.
StartEncoding(p, o, v, q) ==
  /\ MayCall(p) /\ Program(p)
  /\ EncodesForSize(v) /\ (CountOf(v, "ext") > 0 => heap[p] # EmptyBag)
  /\ \E b \in Fresh :
       /\ live' = live \cup {b}
       /\ enc' = [enc EXCEPT ![p] = [op |-> o, to |-> q, left |-> v, buffer |-> b,
                                     items |-> <<>>, copied |-> {},
                                     externals |-> EmptyBag]]
  /\ Goes(p, "encoding")
  /\ UNCHANGED <<status, heap, external, mq, args, fatal, shared>>

\* Mutant: the copies are forgotten when an encoding fails.
free_copied_only_buffer(p) ==
  Free(SetToBag({enc[p].buffer})) /\ enc' = [enc EXCEPT ![p] = None] /\ Goes(p, "idle")

\* The primitive gives up: encoder.free_copied(), free(buffer).
free_copied(p) ==
  /\ Free(SetToBag(enc[p].copied \cup {enc[p].buffer}))
  /\ enc' = [enc EXCEPT ![p] = None] /\ Goes(p, "idle")

Writes(p, t, b, copied, externals) ==
  enc' = [enc EXCEPT ![p].left = Tail(@),
                     ![p].items = Append(@, [tag |-> t, ptr |-> b]),
                     ![p].copied = @ \cup copied,
                     ![p].externals = @ (+) externals]

Encoding(p, leaves) ==
  Running(p, "encoding") /\ enc[p].left # <<>> /\ Head(enc[p].left) \in leaves

encode_inline(p) ==
  /\ Encoding(p, {"inline", "map"}) /\ Writes(p, Head(enc[p].left), None, {}, EmptyBag)
  /\ UNCHANGED <<status, live, heap, external, mq, args, pc, fatal, shared>>

\* The encoder writes the address of the area: of an array that is not in the
\* message yet or, once more, of one that is.  externals has every array once:
\* to neuter an array again has no effect.
encode_byte_array(p) ==
  /\ Encoding(p, {"ext"})
  /\ \/ \E b \in BagToSet(heap[p] (-) enc[p].externals) :
          Writes(p, "pointer", b, {}, SetToBag({b}))
     \/ \E b \in BagToSet(enc[p].externals) : Writes(p, "pointer", b, {}, EmptyBag)
  /\ UNCHANGED <<status, live, heap, external, mq, args, pc, fatal, shared>>

\* encode_copy: an area that does not fit in copied_ is not remembered there.
encode_copy(p) ==
  /\ Encoding(p, {"copy"})
  /\ \/ free_copied(p)
     \/ \E b \in Fresh :
          \/ /\ Cardinality(enc[p].copied) >= MaxExternals
             /\ FreeAfter({b}, SetToBag(enc[p].copied \cup {enc[p].buffer}))
             /\ enc' = [enc EXCEPT ![p] = None] /\ Goes(p, "idle")
          \/ /\ Cardinality(enc[p].copied) < MaxExternals
             /\ live' = live \cup {b} /\ Writes(p, "pointer", b, {b}, EmptyBag)
             /\ UNCHANGED <<pc, fatal>>
  /\ UNCHANGED <<status, heap, external, mq, args, shared>>

Encoded(p, o) == Running(p, "encoding") /\ enc[p].left = <<>> /\ enc[p].op = o
Message(p) == [buffer |-> enc[p].buffer, items |-> enc[p].items]

\* The areas whose address is more than once in the encoding.
Repeated(p) ==
  {b \in BagToSet(Pointers(Message(p))) : CopiesIn(b, Pointers(Message(p))) > 1}

------------------------------------------------------------------------------
(* Sending. *)

\* Mutant: a message that is not sent is deleted with its externals.
process_send_DeletesMessage(p) ==
  LET q == enc[p].to IN
  /\ Encoded(p, "send")
  /\ \/ /\ status[q] = "alive" /\ Len(mq[q]) < MaxMessages
        /\ mq' = [mq EXCEPT ![q] = Append(@, Message(p))]
        /\ shared' = shared \cup Repeated(p)
        /\ Goes(p, "sent") /\ UNCHANGED <<live, enc, fatal>>
     \/ /\ Free(Memory(Message(p)))
        /\ enc' = [enc EXCEPT ![p] = None] /\ Goes(p, "idle") /\ UNCHANGED <<mq, shared>>
  /\ UNCHANGED <<status, heap, external, args>>

\* process_send after the encoding: new SystemMessage, and send_message under
\* the scheduler's lock.  Allocations may fail at any time, here and below.
process_send(p) ==
  LET q == enc[p].to IN
  /\ Encoded(p, "send")
  /\ \/ /\ status[q] = "alive" /\ Len(mq[q]) < MaxMessages
        /\ mq' = [mq EXCEPT ![q] = Append(@, Message(p))]
        /\ shared' = shared \cup Repeated(p)
        /\ Goes(p, "sent") /\ UNCHANGED <<live, enc, fatal>>
     \/ free_copied(p) /\ UNCHANGED <<mq, shared>>
  /\ UNCHANGED <<status, heap, external, args>>

\* neuter_externals of process_send, when the receiver may already be at work.
\* It reads externals_ of the second encoder, which only the first one has
\* stored to (messaging.cc:287): the read is undefined, and gives what the first
\* one left when the build uses the same stack for both, or else some of it, or
\* a wild pointer.
neuter_externals(p) ==
  /\ Running(p, "sent")
  /\ \E gone \in SubBag(enc[p].externals) :
       /\ heap' = [heap EXCEPT ![p] = @ (-) gone]
       /\ external' = [external EXCEPT ![p] = @ - BagCardinality(gone)]
       /\ shared' = shared \cup BagToSet(enc[p].externals (-) gone)
       /\ fatal' \in {FALSE, gone # enc[p].externals}
  /\ enc' = [enc EXCEPT ![p] = None] /\ Goes(p, "idle")
  /\ UNCHANGED <<status, live, mq, args>>

\* Scheduler::spawn: the new process takes the buffer as its spawn_arguments_,
\* and nobody takes the external byte arrays from the sender.
\* When the SPAWNED message cannot be allocated the process is deleted, which
\* deallocates the arguments and a second time the termination message; spawn
\* returns INVALID_PROCESS_ID and the primitive frees the arguments once more.
spawn(p) ==
  /\ Encoded(p, "spawn")
  /\ \/ \E c \in Procs :
          /\ status[c] = "unborn" /\ status' = [status EXCEPT ![c] = "alive"]
          /\ args' = [args EXCEPT ![c] = Message(p)]
          /\ shared' = shared \cup Repeated(p) \cup BagToSet(enc[p].externals)
          /\ enc' = [enc EXCEPT ![p] = None] /\ Goes(p, "idle")
          /\ UNCHANGED <<live, fatal>>
     \/ free_copied(p) /\ UNCHANGED <<status, args, shared>>
     \/ fatal' = TRUE /\ UNCHANGED <<status, live, args, enc, pc, shared>>
  /\ UNCHANGED <<heap, external, mq>>

------------------------------------------------------------------------------
(* Receiving. *)

\* register_external runs into FATAL when its table is full.
DecodeIsFatal(m) == BagCardinality(Pointers(m)) > MaxExternals

\* The decoder has made objects with VM finalizers of the areas in `made', but
\* could not make the next object.
remove_disposing_finalizers(p, made) == [heap EXCEPT ![p] = (@ (+) made) (-) made]

DecodeFails(p, m) ==
  /\ \E k \in DOMAIN m.items :
       heap' = remove_disposing_finalizers(p, Pointers([m EXCEPT !.items = SubSeq(@, 1, k - 1)]))
  /\ Goes(p, "gc") /\ UNCHANGED <<live, external, mq, args, fatal>>

\* Mutant: the receiver does not account for the areas.
DecodeWithoutRegistering(p, m) ==
  /\ ~DecodeIsFatal(m) /\ heap' = [heap EXCEPT ![p] = @ (+) Pointers(m)]
  /\ Free(SetToBag({m.buffer})) /\ UNCHANGED <<external, pc>>

\* The areas belong to the new objects, register_external_allocations accounts
\* for them, and free_data_but_keep_externals frees the buffer.
DecodeSucceeds(p, m) ==
  /\ ~DecodeIsFatal(m)
  /\ heap' = [heap EXCEPT ![p] = @ (+) Pointers(m)]
  /\ external' = [external EXCEPT ![p] = @ + BagCardinality(Pointers(m))]
  /\ Free(SetToBag({m.buffer})) /\ UNCHANGED pc

DecodeStops(m) == DecodeIsFatal(m) /\ fatal' = TRUE

task_receive_message(p) ==
  /\ Running(p, "idle") /\ Program(p) /\ mq[p] # <<>>
  /\ LET m == Head(mq[p]) IN
     \/ DecodeFails(p, m)
     \/ DecodeSucceeds(p, m) /\ mq' = [mq EXCEPT ![p] = Tail(@)] /\ UNCHANGED args
     \/ DecodeStops(m) /\ UNCHANGED <<live, heap, external, mq, args, pc>>
  /\ UNCHANGED <<status, enc, shared>>

spawn_arguments(p) ==
  /\ Running(p, "idle") /\ args[p] # None
  /\ \/ DecodeFails(p, args[p])
     \/ DecodeSucceeds(p, args[p]) /\ args' = [args EXCEPT ![p] = None] /\ UNCHANGED mq
     \/ DecodeStops(args[p]) /\ UNCHANGED <<live, heap, external, mq, args, pc>>
  /\ UNCHANGED <<status, enc, shared>>

------------------------------------------------------------------------------
(* Deleting a process. *)

\* MessageDecoder::deallocate knows all tags but that of a map.
DeallocateIsFatal(m) == "map" \in Tags(m)

\* ~Process: the arguments and the messages that nobody received are freed with
\* what they point to; ~ObjectHeap runs the VM finalizers.
Unread(p) == {mq[p][i] : i \in DOMAIN mq[p]} \cup ({args[p]} \ {None})

DeleteProcess(p) ==
  /\ Running(p, "idle")
  /\ \/ /\ \E m \in Unread(p) : DeallocateIsFatal(m)
        /\ fatal' = TRUE /\ UNCHANGED <<status, live, heap, external, mq, args>>
     \/ /\ \A m \in Unread(p) : ~DeallocateIsFatal(m)
        /\ status' = [status EXCEPT ![p] = "dead"]
        /\ Free(heap[p] (+) BagUnion({Memory(m) : m \in Unread(p)}))
        /\ heap' = [heap EXCEPT ![p] = EmptyBag] /\ external' = [external EXCEPT ![p] = 0]
        /\ mq' = [mq EXCEPT ![p] = <<>>] /\ args' = [args EXCEPT ![p] = None]
  /\ UNCHANGED <<pc, enc, shared>>

------------------------------------------------------------------------------
(* ExternalSystemMessageHandler. *)

\* run: a message that is one byte array is taken over or, when its bytes are in
\* the buffer, copied.  When that allocation fails and the handler does not retry
\* it, and when the message is something else, it is deleted.
HandlerReceives(r) ==
  /\ Running(r, "idle") /\ r \in Runners /\ mq[r] # <<>>
  /\ mq' = [mq EXCEPT ![r] = Tail(@)]
  /\ LET m == Head(mq[r])
         one == Len(m.items) = 1
     IN
     \/ /\ one /\ m.items[1].tag = "pointer"
        /\ heap' = [heap EXCEPT ![r] = @ (+) Pointers(m)]
        /\ Free(SetToBag({m.buffer}))
     \/ /\ one /\ m.items[1].tag = "inline"
        /\ \E b \in Fresh : /\ heap' = [heap EXCEPT ![r] = @ (+) SetToBag({b})]
                            /\ FreeAfter({b}, SetToBag({m.buffer}))
     \/ /\ DeallocateIsFatal(m) /\ fatal' = TRUE /\ UNCHANGED <<live, heap>>
     \/ ~DeallocateIsFatal(m) /\ Free(Memory(m)) /\ UNCHANGED heap
  /\ UNCHANGED <<status, external, args, pc, enc, shared>>

\* send: the receiver takes over the data when the message reaches it.
HandlerSends(r, q, discard) ==
  /\ MayCall(r) /\ r \in Runners
  /\ \E data \in BagToSet(heap[r]) :
     /\ heap' = [heap EXCEPT ![r] = @ (-) SetToBag({data})]
     /\ \/ /\ status[q] = "alive" /\ Len(mq[q]) < MaxMessages
           /\ \E b \in Fresh :
                /\ live' = live \cup {b}
                /\ mq' = [mq EXCEPT ![q] = Append(@, [buffer |-> b,
                             items |-> <<[tag |-> "pointer", ptr |-> data]>>])]
           /\ UNCHANGED fatal
        \/ discard /\ Free(SetToBag({data})) /\ UNCHANGED mq
  /\ UNCHANGED <<status, external, args, pc, enc, shared>>

\* The handler frees data that it was given.
HandlerFrees(r) ==
  /\ Running(r, "idle") /\ r \in Runners
  /\ \E b \in BagToSet(heap[r]) :
       heap' = [heap EXCEPT ![r] = @ (-) SetToBag({b})] /\ Free(SetToBag({b}))
  /\ UNCHANGED <<status, external, mq, args, pc, enc, shared>>

Next ==
  \/ \E p \in Procs :
       \/ allocate_byte_array(p) \/ free_external_memory(p) \/ RetryAfterGc(p)
       \/ \E v \in Values, q \in Procs \ {p} : StartEncoding(p, "send", v, q)
       \/ \E v \in SpawnValues : StartEncoding(p, "spawn", v, p)
       \/ encode_inline(p) \/ encode_byte_array(p) \/ encode_copy(p)
       \/ process_send(p) \/ neuter_externals(p) \/ spawn(p)
       \/ task_receive_message(p) \/ spawn_arguments(p) \/ DeleteProcess(p)
       \/ HandlerReceives(p) \/ HandlerFrees(p)
       \/ \E q \in Procs \ {p}, discard \in BOOLEAN : HandlerSends(p, q, discard)

Spec == Init /\ [][Next]_vars

------------------------------------------------------------------------------
(* Properties. *)

\* The parties that will free blocks, and which: the external objects of a
\* process, the primitive it is in, the arguments it has not read, each message
\* in its queue.
Owned(p) ==
  << IF pc[p] = "sent" THEN heap[p] (-) enc[p].externals ELSE heap[p],
     IF pc[p] = "encoding"
       THEN SetToBag(enc[p].copied \cup {enc[p].buffer}) ELSE EmptyBag,
     IF args[p] # None THEN Memory(args[p]) ELSE EmptyBag >>
  \o [i \in DOMAIN mq[p] |-> Memory(mq[p][i])]

\* An owner will free a block, for the nth time if n > 1.
Claims ==
  LET claims(owner, bag) ==
        UNION {{[owner |-> owner, block |-> b, n |-> n] : n \in 1..bag[b]} :
                 b \in BagToSet(bag)}
      ofProcess(p) ==
        LET owned == Owned(p)
        IN UNION {claims(<<p, i>>, owned[i]) : i \in DOMAIN owned}
  IN UNION {ofProcess(p) : p \in Procs}

\* A block has at most one owner, which frees it once, and is malloced as long as
\* it has it: between the moment send_message makes a message visible and the
\* moment neuter_externals takes the arrays from the sender, the receiver may
\* read, forward or free them, and no block is freed twice or used after it is
\* freed (deallocate, free_data_but_keep_externals, free_copied and the VM
\* finalizers).  Excepted are the blocks of an external byte array that was twice
\* in one message, that was passed to spawn, or that neuter_externals missed
\* because of its undefined read, and only they: the damage does not spread.
SingleOwner ==
  LET claims == Claims IN
  /\ \A c \in claims : c.block \in live \cup shared
  /\ \A c, d \in claims : c.block = d.block /\ c # d => c.block \in shared

\* Every malloced block has an owner, on all the paths on which an encoding, a
\* send, a spawn or a decoding fails, and after processes with unread messages
\* are deleted.
NoLeak == live \subseteq {c.block : c \in Claims}

\* external_memory_ of a process, which decides when it is collected and when it
\* has used up its memory, counts its external objects: what a receiver registers
\* once a message is decoded, also after a decoding that failed midway, is what
\* neuter_externals and the finalizers unregister.
Accounting == \A p \in Procs \ Runners : external[p] = BagCardinality(heap[p])

\* Messages that were never received are deallocated by traversing them
\* (messaging.h:245), and everything that was encoded can be decoded.  It does not
\* hold of maps: see the README.
NoFatal == ~fatal
=============================================================================
