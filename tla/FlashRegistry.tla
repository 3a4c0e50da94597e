--------------------------- MODULE FlashRegistry ---------------------------
(* The registry of container images in flash: FlashRegistry, the            *)
(* reservations and the image writers of the system process                 *)
(* (system/flash, system/containers.toit), and the primitives below them    *)
(* (primitive_flash_registry.cc, flash_registry_*.cc, flash_allocation.cc,  *)
(* resources/image.cc).                                                     *)
(*                                                                          *)
(* The unit is the flash page.  A page is clean, holds data of the image    *)
(* that starts at `me`, starts with the header of an image, or is garbage:  *)
(* an erase was cut short, or the write of a header, which is valid only    *)
(* when the uuid, its last field, is there.                                 *)
(*                                                                          *)
(* One system process does all the work and no operation yields inside, so  *)
(* other calls come between operations only (uninstall_image yields while   *)
(* it waits for containers to stop).  Power may go at any moment: erasing   *)
(* takes a step per page, the header of a commit two.                       *)
EXTENDS Integers, Sequences, FiniteSets, SequencesExt

CONSTANTS
  N,           \* Pages in the partition.
  Ids,         \* Program ids.
  Sizes,       \* Sizes of images in pages, assets included.
  MaxAssets,   \* Pages of assets behind a program, at most.
  MaxWriters,  \* Bound on writers that are open at a time.
  MaxSpoiled,  \* Bound on pages that are spoiled.
  None

ASSUME FlashAssumption ==
  /\ N \in Nat \ {0} /\ Sizes \subseteq 1..N
  /\ MaxAssets \in Nat /\ MaxWriters \in Nat /\ MaxSpoiled \in Nat

VARIABLES
  flash,         \* The pages.  All that survives a crash.
  allocations_,  \* Offsets of the allocations the registry knows.
  holes_,        \* The holes the registry knows.
  reservations,  \* The reservations of the primitives.
  writers,       \* The open image writers.
  images_,       \* The registered images: id and offset.
  deleting,      \* Images whose delete waits in stop_all.
  op,            \* The flash operation in progress.
  spoiled        \* History: the pages on which a write has failed, or which a
                 \* writer has hit beyond the end of its reservation.

vars == <<flash, allocations_, holes_, reservations, writers, images_,
          deleting, op, spoiled>>

Pages == 0..(N - 1)
Clean == [kind |-> "clean"]
Garbage == [kind |-> "garbage"]
Data(me) == [kind |-> "data", me |-> me]

\* The size is what the program says of itself; it is taken to fit the image.
Header(w) ==
  [kind |-> "header", me |-> w.offset, id |-> w.id, size |-> w.size - w.assets,
   assets |-> w.assets, body |-> flash[w.offset] = Data(w.offset)]

\* The pages of a hole, a reservation or a writer.
PagesOf(r) == r.offset..(r.offset + r.size - 1)
AllPages(rs) == UNION {PagesOf(r) : r \in rs}
Region(r) == [offset |-> r.offset, size |-> r.size]

\* The maximal runs of consecutive pages in S.
Runs(S) ==
  {[offset |-> a, size |-> b - a + 1] :
     <<a, b>> \in {<<x, y>> \in S \X S :
        /\ x <= y /\ x..y \subseteq S /\ x - 1 \notin S /\ y + 1 \notin S}}

-----------------------------------------------------------------------------
(* Scanning *)

is_valid(f, o) == f[o].kind = "header" /\ f[o].me = o

\* Mutant: reservations do not end a hole.
find_next_NoReservations(f, o, rs, i) ==
  CASE i <= Len(rs) /\ rs[i].offset = o -> o + rs[i].size
    [] is_valid(f, o) -> o + f[o].size
    [] OTHER -> CHOOSE p \in (o + 1)..N :
                  /\ p = N \/ is_valid(f, p)
                  /\ \A q \in (o + 1)..(p - 1) : ~is_valid(f, q)

\* The end of what starts at o; rs[i] is the reservation the scan is at.
find_next(f, o, rs, i) ==
  LET starts(p) == is_valid(f, p) \/ (i <= Len(rs) /\ rs[i].offset = p)
  IN CASE i <= Len(rs) /\ rs[i].offset = o -> o + rs[i].size
       [] is_valid(f, o) -> o + f[o].size
       [] OTHER -> CHOOSE p \in (o + 1)..N :
                     /\ p = N \/ starts(p)
                     /\ \A q \in (o + 1)..(p - 1) : ~starts(q)

InOrder(rs) == SetToSortSeq(rs, LAMBDA a, b : a.offset < b.offset)

\* The loop of scan_ over the primitives next and info: what it finds, and
\* where.  The iterator moves on at a reservation that holds no allocation.
Scanned(f, reserved) ==
  LET rs == InOrder(reserved)
      scan[at \in (0..N) \X (1..(Len(rs) + 1))] ==
        LET o == at[1]
            i == at[2]
            next == find_next(f, o, rs, i)
            item(kind) == [kind |-> kind, offset |-> o, size |-> next - o]
        IN CASE o >= N -> {}
             [] o < N /\ is_valid(f, o) ->
                  {item("allocation")} \cup scan[<<next, i>>]
             [] o < N /\ ~is_valid(f, o) /\ i <= Len(rs) /\ o = rs[i].offset ->
                  scan[<<next, i + 1>>]
             [] OTHER -> {item("hole")} \cup scan[<<next, i>>]
  IN scan[<<0, 1>>]

\* Adjacent holes become one.
coalesce_(items) == Runs(AllPages({h \in items : h.kind = "hole"}))
Found(items) == {a.offset : a \in {b \in items : b.kind = "allocation"}}

\* scan_ with update_allocations_: what is not found any more is freed.
scan_ ==
  LET items == Scanned(flash, reservations)
  IN /\ holes_' = coalesce_(items)
     /\ allocations_' = Found(items)
     /\ flash' = [p \in Pages |-> IF p \in allocations_ \ Found(items)
                                    THEN Clean ELSE flash[p]]

-----------------------------------------------------------------------------
(* Opening a writer *)

Fits(hs, size) == {h \in hs : h.size >= size}

\* image_writer_open up to the erase of the slot: reserve takes any hole that
\* is large enough, after a scan if there is none.  If there is still none,
\* the call throws.
image_writer_open(size, assets, id) ==
  LET rescan == Fits(holes_, size) = {}
      hs == IF rescan THEN coalesce_(Scanned(flash, reservations)) ELSE holes_
      erase(h) == [kind |-> "open", cursor |-> h.offset,
                   end |-> h.offset + size, hole |-> h,
                   image |-> [id |-> id, assets |-> assets]]
  IN /\ op = None
     /\ Cardinality(writers) < MaxWriters
     /\ assets < size
     /\ IF rescan THEN scan_ ELSE UNCHANGED <<flash, allocations_, holes_>>
     /\ op' \in IF Fits(hs, size) = {} THEN {None}
                ELSE {erase(h) : h \in Fits(hs, size)}
     /\ UNCHANGED <<reservations, writers, images_, deleting, spoiled>>

Erasing == op # None /\ op.kind \in {"open", "free"} /\ op.cursor < op.end

\* erase_chunk goes page by page and skips what is clean.
EraseNext ==
  /\ Erasing
  /\ flash' = [flash EXCEPT ![op.cursor] = Clean]
  /\ op' = [op EXCEPT !.cursor = @ + 1]
  /\ UNCHANGED <<allocations_, holes_, reservations, writers, images_,
                 deleting, spoiled>>

\* The flash after an erase that was cut short: the page is not clean, and a
\* header in it may be gone.
HalfErased ==
  {flash} \cup {[flash EXCEPT ![p] = Garbage] :
                 p \in {q \in {op.cursor} : is_valid(flash, q)}}

\* An erase of the hardware fails: reserve throws with the hole as it was;
\* free ignores it.
EraseFails ==
  /\ Erasing /\ flash[op.cursor] # Clean
  /\ flash' \in HalfErased
  /\ op' = None
  /\ UNCHANGED <<allocations_, holes_, reservations, writers, images_,
                 deleting, spoiled>>

\* Mutant: the hole stays as it is.
Shrink_Nothing(h, n) == {h}

\* The hole without its first n pages.  Empty holes fit no image and are
\* left out.
Shrink(h, n) ==
  IF h.size = n THEN {} ELSE {[offset |-> h.offset + n, size |-> h.size - n]}

\* The rest of reserve and the constructor of ContainerImageWriter.  Without
\* memory the reservation fails, and the hole is lost until the next scan; or
\* the writer fails, and nobody ever closes the reservation.
OpenDone ==
  /\ op # None /\ op.kind = "open" /\ op.cursor = op.end
  /\ LET n == op.end - op.hole.offset
         r == [offset |-> op.hole.offset, size |-> n]
         w == [offset |-> r.offset, size |-> n, id |-> op.image.id,
               assets |-> op.image.assets, written |-> 0]
         free == PagesOf(r) \cap AllPages(reservations) = {}
     IN /\ holes_' = (holes_ \ {op.hole}) \cup Shrink(op.hole, n)
        /\ \/ UNCHANGED <<reservations, writers>>
           \/ /\ free
              /\ reservations' = reservations \cup {r}
              /\ writers' \in {writers, writers \cup {w}}
  /\ op' = None
  /\ UNCHANGED <<flash, allocations_, images_, deleting, spoiled>>

-----------------------------------------------------------------------------
(* Writing and committing *)

\* Mutant: the writer can still be used.
on_closed_StaysOpen(w) ==
  /\ reservations' = reservations \ {Region(w)}
  /\ UNCHANGED writers

\* on_closed: the reservation of the writer is cancelled.
on_closed(w) ==
  /\ reservations' = reservations \ {Region(w)}
  /\ writers' = writers \ {w}

\* The chunks that fill the next page.  All but the header goes to flash.  The
\* end of the partition is the only bound: past its own end the writer hits
\* what comes behind.  The cursor moves also when the write fails with all or
\* part of the page missing, and the client may go on.
image_writer_write(w) ==
  LET p == w.offset + w.written
      outside == w.written >= w.size
  IN /\ op = None
     /\ p < N
     /\ writers' = (writers \ {w}) \cup {[w EXCEPT !.written = @ + 1]}
     /\ \/ /\ flash' = [flash EXCEPT ![p] =
                           IF @ = Clean THEN Data(w.offset) ELSE Garbage]
           /\ spoiled' = IF outside THEN spoiled \cup {p} ELSE spoiled
        \/ /\ flash' \in {flash, [flash EXCEPT ![p] = Garbage]}
           /\ spoiled' = spoiled \cup {p}
     /\ Cardinality(spoiled') <= MaxSpoiled
     /\ UNCHANGED <<allocations_, holes_, reservations, images_, deleting, op>>

\* The client closes the writer or ends, or commits an incomplete image.
image_writer_close(w) ==
  /\ op = None
  /\ on_closed(w)
  /\ UNCHANGED <<flash, allocations_, holes_, images_, deleting, op, spoiled>>

\* Mutants: the image need not be complete; the uuid is not the last part of
\* the header.
image_writer_commit_Incomplete(w) ==
  /\ op = None
  /\ flash' = [flash EXCEPT ![w.offset] = Garbage]
  /\ op' = [kind |-> "commit", writer |-> w, header |-> Header(w)]
  /\ UNCHANGED <<allocations_, holes_, reservations, writers, images_,
                 deleting, spoiled>>
image_writer_commit_UuidFirst(w) ==
  /\ op = None
  /\ w.written = w.size
  /\ flash' = [flash EXCEPT ![w.offset] = Header(w)]
  /\ op' = [kind |-> "commit", writer |-> w, header |-> Header(w)]
  /\ UNCHANGED <<allocations_, holes_, reservations, writers, images_,
                 deleting, spoiled>>

\* writer_commit writes the header, all but the uuid ...
image_writer_commit(w) ==
  /\ op = None
  /\ w.written = w.size
  /\ flash' = [flash EXCEPT ![w.offset] = Garbage]
  /\ op' = [kind |-> "commit", writer |-> w, header |-> Header(w)]
  /\ UNCHANGED <<allocations_, holes_, reservations, writers, images_,
                 deleting, spoiled>>

\* ... and the uuid.  commit closes the writer, also when the write fails or,
\* with the header in flash, the allocation of the FlashAllocation; otherwise
\* the service registers the image under its id.
CommitDone ==
  /\ op # None /\ op.kind = "commit"
  /\ LET w == op.writer
         registered == {i \in images_ : i.id # w.id}
                         \cup {[id |-> w.id, offset |-> w.offset]}
     IN /\ \/ /\ flash' = [flash EXCEPT ![w.offset] = op.header]
              /\ images_' \in {registered, images_}
           \/ UNCHANGED <<flash, images_>>
        /\ on_closed(w)
  /\ op' = None
  /\ UNCHANGED <<allocations_, holes_, deleting, spoiled>>

-----------------------------------------------------------------------------
(* Uninstalling *)

\* delete kills the containers of the image and waits until they are gone.
uninstall_image(i) ==
  /\ op = None
  /\ deleting' = deleting \cup {i}
  /\ UNCHANGED <<flash, allocations_, holes_, reservations, writers, images_,
                 op, spoiled>>

\* Mutant: the image stays registered.
DeleteDone_StaysRegistered(i) ==
  /\ op = None
  /\ deleting' = deleting \ {i}
  /\ allocations_' = allocations_ \ {i.offset}
  /\ op' = [kind |-> "free", cursor |-> i.offset, end |-> i.offset + 1]
  /\ UNCHANGED <<flash, holes_, reservations, writers, images_, spoiled>>

\* They are gone: the image loses its registration, the allocation its first
\* page.  Another uninstall_image that waits finds no allocation and throws.
DeleteDone(i) ==
  /\ op = None
  /\ deleting' = deleting \ {i}
  /\ images_' = {j \in images_ : j.id # i.id}
  /\ allocations_' = allocations_ \ {i.offset}
  /\ op' = [kind |-> "free", cursor |-> i.offset, end |-> i.offset + 1]
  /\ UNCHANGED <<flash, holes_, reservations, writers, spoiled>>

FreeDone ==
  /\ op # None /\ op.kind = "free" /\ op.cursor = op.end
  /\ op' = None
  /\ UNCHANGED <<flash, allocations_, holes_, reservations, writers, images_,
                 deleting, spoiled>>

-----------------------------------------------------------------------------
(* Boot *)

\* The registry scans the flash and the container manager registers what was
\* found; of two images with one id the last one stays.
Boot(f) ==
  LET items == Scanned(f, {})
      last(o) == \A q \in Found(items) : f[q].id = f[o].id => q <= o
  IN /\ holes_' = coalesce_(items)
     /\ allocations_' = Found(items)
     /\ images_' = {[id |-> f[o].id, offset |-> o] :
                      o \in {q \in Found(items) : last(q)}}
     /\ flash' = f
     /\ reservations' = {} /\ writers' = {} /\ deleting' = {} /\ op' = None
     /\ UNCHANGED spoiled

\* Power goes, perhaps while a page is being erased, and comes back.
Crash ==
  \E f \in IF Erasing THEN HalfErased ELSE {flash} : Boot(f)

-----------------------------------------------------------------------------

Init ==
  /\ flash = [p \in Pages |-> Clean]
  /\ allocations_ = {} /\ holes_ = {[offset |-> 0, size |-> N]}
  /\ reservations = {} /\ writers = {} /\ images_ = {} /\ deleting = {}
  /\ op = None /\ spoiled = {}

Next ==
  \/ \E size \in Sizes, assets \in 0..MaxAssets, id \in Ids :
       image_writer_open(size, assets, id)
  \/ EraseNext \/ EraseFails \/ OpenDone
  \/ \E w \in writers : image_writer_write(w)
  \/ \E w \in writers : image_writer_close(w)
  \/ \E w \in writers : image_writer_commit(w)
  \/ CommitDone
  \/ \E i \in images_ : uninstall_image(i)
  \/ \E i \in deleting : DeleteDone(i)
  \/ FreeDone \/ Crash

Spec == Init /\ [][Next]_vars

-----------------------------------------------------------------------------
(* Properties *)

Valid == {o \in Pages : is_valid(flash, o)}

\* All pages of an allocation, as the primitive get_size counts them.
Extent(o) == o..(o + flash[o].size + flash[o].assets - 1)

\* "Future calls to this method will not return an overlapping region"
\* (registry.toit:51): no two of the known holes, the reservations and the
\* allocations in flash share a page, and all lie in the partition, however
\* calls, failures and crashes interleave.
RegionsDisjoint ==
  LET regions == holes_ \cup reservations
                   \cup {[offset |-> o, size |-> Cardinality(Extent(o))] : o \in Valid}
  IN /\ AllPages(regions) \subseteq Pages
     /\ \A a, b \in regions : a = b \/ PagesOf(a) \cap PagesOf(b) = {}

\* What a scan takes for an allocation is a complete image: the header is the
\* last thing that is written and its uuid the last part of it (image.cc:114,
\* flash_allocation.h:84), and no later erase or write hits its pages.  Pages
\* on which a write failed, or that a writer hit beyond its own end, are
\* excepted, and only they: writer_commit counts what was written, not what
\* succeeded (image.cc:97), and image.cc:59 bounds a write by the partition.
ValidIsComplete ==
  \A o \in Valid :
    /\ o \in spoiled \/ flash[o].body
    /\ \A p \in Extent(o) \ ({o} \cup spoiled) : flash[p] = Data(o)

\* An open writer holds the reservation of its pages, and what it has written
\* there is still there, but for spoiled pages: reservations are cancelled
\* with their writer and not before, and neither a scan nor another writer
\* that keeps to its own reservation takes the pages (reservation.toit:26,
\* image_writer.toit:99).
WritersKeepTheirPages ==
  \A w \in writers :
    /\ Region(w) \in reservations
    /\ op = None =>
         \A p \in (w.offset..(w.offset + w.written - 1)) \cap PagesOf(w) :
           p \in spoiled \/ flash[p] = Data(w.offset)

\* A scan, in whatever state it comes, finds the allocations in flash and
\* every maximal run of pages that no allocation and no reservation takes.  So
\* a call that ends with "No space left in flash" was right, and the pages of
\* freed images, closed writers and failed calls come back (registry.toit:68,
\* primitive_flash_registry.cc:35).
ScanIsExact ==
  LET items == Scanned(flash, reservations)
      used == AllPages(reservations) \cup UNION {Extent(o) : o \in Valid}
  IN Found(items) = Valid /\ coalesce_(items) = Runs(Pages \ used)

\* Every registered image, and every image that waits to be deleted, is an
\* allocation in flash with its id: no rescan, crash or other uninstall takes
\* it away under the container manager (containers.toit:154,
\* registry.toit:106).  Only a write beyond the end of another image can.
ImagesAreValid ==
  \A i \in images_ \cup deleting :
    \/ i.offset \in spoiled
    \/ i.offset \in Valid /\ flash[i.offset].id = i.id

\* Allocations come by a commit of their writer, and go by a free of theirs
\* or by a writer whose cursor is beyond its own end and on their header; no
\* crash, failure, scan or other write loses one, and none comes back
\* (registry.toit:58, image.cc:59, image.cc:114).
AllocationsChangeByRequest ==
  [][/\ \A o \in Valid' \ Valid :
          op # None /\ op.kind = "commit" /\ op.writer.offset = o
     /\ \A o \in Valid \ Valid' :
          \/ op # None /\ op.kind = "free" /\ op.cursor = o
          \/ \E w \in writers \ writers' :
               o = w.offset + w.written /\ w.written >= w.size]_vars
=============================================================================
