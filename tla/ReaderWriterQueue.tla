------------------------- MODULE ReaderWriterQueue -------------------------
(***************************************************************************)
(* The lock-free queue of readerwriterqueue.h, which carries the           *)
(* accomplished device accesses from the thread of MainMemCosim::Run (the  *)
(* producer) to the ISS (the consumer): a circle of circular buffers       *)
(* ("blocks"), each with a front and a tail index, and a front and a tail  *)
(* block.                                                                  *)
(*                                                                         *)
(* A step is one access to what the other thread may write, with the local *)
(* work around it; what a thread owns is read in the same step.  The       *)
(* fences order the stores of each thread, so the model interleaves the    *)
(* accesses.                                                               *)
(*                                                                         *)
(* Elements are numbered in the order they are enqueued, so that a lost,   *)
(* repeated or overtaking element shows.                                   *)
(***************************************************************************)
EXTENDS Naturals, Sequences, FiniteSets

CONSTANTS
  MAX_BLOCK_SIZE,  \* the template parameter, a power of two
  MaxSizes,        \* the constructor's argument is one of them
  MaxAllocs,       \* memory for that many more blocks: beyond, malloc fails
  MaxElements,     \* bound on the elements enqueued in a behaviour
  NoElement        \* the contents of a slot nothing is constructed in

PowersOfTwo == {2^i : i \in 0 .. 30}

\* The asserts of the constructor; every size has its power of two in the range.
ASSUME QueueAssumption ==
  /\ PowersOfTwo \subseteq Nat /\ MAX_BLOCK_SIZE \in PowersOfTwo \ {0, 1}
  /\ MaxSizes \subseteq Nat \ {0}
  /\ \A m \in MaxSizes : \E p \in PowersOfTwo : m + 1 <= p /\ p < 2 * (m + 1)
  /\ MaxAllocs \in Nat /\ MaxElements \in Nat \ {0}
  /\ NoElement \notin Nat

Element == 1 .. MaxElements
Idle    == "idle"

VARIABLES
  maxSize, initialBlocks,             \* the capacity asked for and reserved
  blocks,                             \* the sequence of all blocks
  frontBlock, tailBlock, largestBlockSize,
  prod,    \* the thread that enqueues: pc and locals
  cons,    \* the thread that dequeues: pc and locals
  result,  \* what the last successful try_dequeue returned
  failed   \* history: an assert of the code did not hold

queueVars == <<maxSize, initialBlocks, blocks, frontBlock, tailBlock, largestBlockSize, prod, cons,
               result, failed>>

-----------------------------------------------------------------------------
\* The smallest power of two that is not below x.
ceilToPow2(x) == CHOOSE p \in PowersOfTwo : x <= p /\ p < 2 * x

\* The blocks the constructor reserves for m elements, if one is not enough.
initialBlockCount(m) ==
  (m + MAX_BLOCK_SIZE * 2 - 3) \div (MAX_BLOCK_SIZE - 1)

make_block(capacity, after) ==
  [front |-> 0, localTail |-> 0, tail |-> 0, localFront |-> 0, next |-> after,
   data |-> [i \in 0 .. capacity - 1 |-> NoElement]]

\* (i + 1) & sizeMask
Succ(b, i) == (i + 1) % Cardinality(DOMAIN blocks[b].data)

\* The constructor.
QueueInit ==
  /\ maxSize \in MaxSizes
  /\ LET large == ceilToPow2(maxSize + 1)
         many  == large > MAX_BLOCK_SIZE * 2
     IN  /\ initialBlocks = IF many THEN initialBlockCount(maxSize) ELSE 1
         /\ largestBlockSize = IF many THEN MAX_BLOCK_SIZE ELSE large
         /\ blocks = [b \in 1 .. initialBlocks |->
                      make_block(largestBlockSize, (b % initialBlocks) + 1)]
  /\ frontBlock = 1 /\ tailBlock = 1
  /\ prod = [pc |-> Idle, canAlloc |-> FALSE, element |-> 1, block |-> 1,
             answer |-> TRUE, room |-> TRUE]
  /\ cons = [pc |-> Idle, op |-> "none", block |-> 1, at |-> 0,
             element |-> NoElement, answer |-> FALSE, empty |-> TRUE]
  /\ result = NoElement
  /\ failed = FALSE

-----------------------------------------------------------------------------
(***************************************************************************)
(* What the queue holds: the elements from the front block to the tail     *)
(* block.  An element being taken out is still in it.                      *)
(***************************************************************************)

BlockSlot(b, i) ==
  IF cons.pc = "moveFront" /\ cons.block = b /\ cons.at = i
  THEN cons.element ELSE blocks[b].data[i]

BlockContents(b) ==
  LET k == blocks[b]
      n == Cardinality(DOMAIN k.data)
  IN  [i \in 1 .. (k.tail + n - k.front) % n |-> BlockSlot(b, (k.front + i - 1) % n)]

\* The i-th block after the front block.
Nth[i \in 0 .. Len(blocks)] ==
  IF i = 0 THEN frontBlock ELSE blocks[Nth[i - 1]].next

ContentsUpTo[i \in 0 .. Len(blocks)] ==
  IF i = 0 THEN BlockContents(frontBlock)
           ELSE ContentsUpTo[i - 1] \o BlockContents(Nth[i])

Contents ==
  ContentsUpTo[CHOOSE i \in 0 .. Len(blocks) :
                 Nth[i] = tailBlock /\ \A j \in 0 .. i - 1 : Nth[j] # tailBlock]

-----------------------------------------------------------------------------
(***************************************************************************)
(* The producer: inner_enqueue.                                            *)
(***************************************************************************)

\* The call returns; the locals are dead and forgotten.
Enqueued == [prod EXCEPT !.pc = Idle, !.answer = TRUE, !.element = @ + 1,
                         !.block = 1, !.canAlloc = FALSE, !.room = TRUE]
Refused  == [prod EXCEPT !.pc = Idle, !.answer = FALSE, !.block = 1,
                         !.canAlloc = FALSE]

\* A call starts: there is room in the tail block according to localFront, or
\* according to front, which is then read again.
enqueue(canAlloc) ==
  LET b     == tailBlock
      after == Succ(b, blocks[b].tail)
      stale == after = blocks[b].localFront
      noRoom == stale /\ after = blocks[b].front
  IN  /\ prod.pc = Idle /\ prod.element \in Element
      /\ prod' = [prod EXCEPT !.pc = IF noRoom THEN "full" ELSE "construct",
                              !.canAlloc = canAlloc, !.block = b, !.answer = TRUE,
                              !.room = Len(Contents) < maxSize]
      /\ blocks' = [blocks EXCEPT
                      ![b].localFront = IF stale THEN blocks[b].front ELSE @]
      /\ UNCHANGED <<maxSize, initialBlocks, frontBlock, tailBlock, largestBlockSize, cons,
                          result, failed>>

\* The producer stores into its block and goes on at pc.
Store(from, k, pc) ==
  /\ prod.pc = from
  /\ blocks' = [blocks EXCEPT ![prod.block] = k]
  /\ prod' = IF pc = Idle THEN Enqueued ELSE [prod EXCEPT !.pc = pc]
  /\ UNCHANGED <<maxSize, initialBlocks, frontBlock, tailBlock, largestBlockSize, cons, result,
                 failed>>

Constructed(b) == [blocks[b] EXCEPT !.data[blocks[b].tail] = prod.element]
TailMoved(b)   == [blocks[b] EXCEPT !.tail = Succ(b, @)]

\* Mutant of StoreInTailBlock: the tail moves before the element is there.
StoreInTailBlockEarly ==
  LET b == prod.block
      i == CHOOSE j \in DOMAIN blocks[b].data : Succ(b, j) = blocks[b].tail
  IN  \/ Store("construct", TailMoved(b), "moveTail")
      \/ Store("moveTail", [blocks[b] EXCEPT !.data[i] = prod.element], Idle)

\* Room in the tail block: construct the element, then move the tail.
StoreInTailBlock ==
  \/ Store("construct", Constructed(prod.block), "moveTail")
  \/ Store("moveTail", TailMoved(prod.block), Idle)

\* The block after a full tail block is free unless the consumer is in it.
nextFree(b) == blocks[b].next # frontBlock

\* The tail block is full: go on in the next block if it is free, else allocate
\* one, else give up.  The assert is that a free block is empty.
tailBlockFull ==
  LET n == blocks[prod.block].next IN
  /\ prod.pc = "full"
  /\ \/ /\ nextFree(prod.block)
        /\ blocks' = [blocks EXCEPT ![n].localFront = blocks[n].front]
        /\ failed' = (failed \/ blocks[n].front # blocks[n].tail)
        /\ prod' = [prod EXCEPT !.pc = "constructNext", !.block = n]
     \/ /\ ~nextFree(prod.block) /\ prod.canAlloc
        /\ prod' = [prod EXCEPT !.pc = "alloc"]
        /\ UNCHANGED <<blocks, failed>>
     \/ /\ ~nextFree(prod.block) /\ ~prod.canAlloc
        /\ prod' = Refused
        /\ UNCHANGED <<blocks, failed>>
  /\ UNCHANGED <<maxSize, initialBlocks, frontBlock, tailBlock, largestBlockSize, cons, result>>

StoreInNextBlock ==
  \/ Store("constructNext", Constructed(prod.block), "moveTailNext")
  \/ Store("moveTailNext", TailMoved(prod.block), "moveTailBlock")

\* A new block is twice the largest one, up to MAX_BLOCK_SIZE.  It gets the
\* element and its successor before anybody can reach it; malloc may fail.
alloc ==
  LET s == IF largestBlockSize >= MAX_BLOCK_SIZE THEN largestBlockSize
                                                 ELSE largestBlockSize * 2
      k == make_block(s, blocks[prod.block].next)
  IN  /\ prod.pc = "alloc"
      /\ \/ /\ Len(blocks) = initialBlocks + MaxAllocs
            /\ prod' = Refused
            /\ UNCHANGED <<largestBlockSize, blocks>>
         \/ /\ Len(blocks) < initialBlocks + MaxAllocs
            /\ largestBlockSize' = s
            /\ blocks' = Append(blocks, [k EXCEPT !.data[0] = prod.element,
                                                  !.tail = 1, !.localTail = 1])
            /\ prod' = [prod EXCEPT !.pc = "link"]
      /\ UNCHANGED <<maxSize, initialBlocks, frontBlock, tailBlock, cons, result, failed>>

\* tailBlock_->next = newBlock
link ==
  /\ prod.pc = "link"
  /\ blocks' = [blocks EXCEPT ![prod.block].next = Len(blocks)]
  /\ prod' = [prod EXCEPT !.pc = "moveTailBlock", !.block = Len(blocks)]
  /\ UNCHANGED <<maxSize, initialBlocks, frontBlock, tailBlock, largestBlockSize, cons, result,
                 failed>>

moveTailBlock ==
  /\ prod.pc = "moveTailBlock"
  /\ tailBlock' = prod.block
  /\ prod' = Enqueued
  /\ UNCHANGED <<maxSize, initialBlocks, blocks, frontBlock, largestBlockSize, cons, result,
                 failed>>

-----------------------------------------------------------------------------
(***************************************************************************)
(* The consumer: try_dequeue, pop and peek, which search alike.            *)
(***************************************************************************)

\* The consumer goes to pc; empty remembers whether the queue has been empty at
\* some moment of the call.
Goto(pc) == [cons EXCEPT !.pc = pc, !.empty = @ \/ Contents = <<>>]

\* The call returns; the locals are dead and forgotten.
Return(answer, element) ==
  [Goto(Idle) EXCEPT !.answer = answer, !.element = element, !.block = 1, !.at = 0,
                     !.op = IF answer /\ @ = "peek" THEN @ ELSE "none",
                     !.empty = @ /\ ~answer]

\* A call starts: the front block has an element according to localTail, or
\* according to tail, which is then read again.
dequeue(op) ==
  LET b == frontBlock
      k == blocks[b]
      t == IF k.front = k.localTail THEN k.tail ELSE k.localTail
  IN  /\ cons.pc = Idle
      /\ blocks' = [blocks EXCEPT ![b].localTail = t]
      /\ cons' = [pc |-> IF k.front # t THEN "take" ELSE "noElement", op |-> op,
                  block |-> b, at |-> k.front, element |-> NoElement,
                  answer |-> TRUE, empty |-> Contents = <<>>]
      /\ UNCHANGED <<maxSize, initialBlocks, frontBlock, tailBlock, largestBlockSize, prod,
                          result, failed>>

\* Mutant of noElement: an empty front block is taken for an empty queue.
noElementGivesUp ==
  /\ cons.pc = "noElement"
  /\ cons' = Return(FALSE, NoElement)
  /\ UNCHANGED <<maxSize, initialBlocks, blocks, frontBlock, tailBlock, largestBlockSize, prod,
                      result, failed>>

\* The front block is empty: so is the queue if it is the tail block.
noElement ==
  /\ cons.pc = "noElement"
  /\ cons' = IF cons.block = tailBlock
             THEN Return(FALSE, NoElement) ELSE Goto("recheck")
  /\ UNCHANGED <<maxSize, initialBlocks, blocks, frontBlock, tailBlock, largestBlockSize, prod,
                      result, failed>>

\* The producer has moved on, maybe after it filled the front block.
recheck ==
  LET t == blocks[cons.block].tail IN
  /\ cons.pc = "recheck"
  /\ blocks' = [blocks EXCEPT ![cons.block].localTail = t]
  /\ cons' = Goto(IF cons.at # t THEN "take" ELSE "readNext")
  /\ UNCHANGED <<maxSize, initialBlocks, frontBlock, tailBlock, largestBlockSize, prod, result,
                 failed>>

\* The assert is that the next block has an element; peek does not move to it.
readNext ==
  LET n == blocks[cons.block].next IN
  /\ cons.pc = "readNext"
  /\ failed' = (failed \/ blocks[n].front = blocks[n].tail)
  /\ blocks' = IF cons.op = "peek" THEN blocks
               ELSE [blocks EXCEPT ![n].localTail = blocks[n].tail]
  /\ cons' = [Goto(IF cons.op = "peek" THEN "take" ELSE "moveFrontBlock")
                EXCEPT !.block = n, !.at = blocks[n].front]
  /\ UNCHANGED <<maxSize, initialBlocks, frontBlock, tailBlock, largestBlockSize, prod, result>>

moveFrontBlock ==
  /\ cons.pc = "moveFrontBlock"
  /\ frontBlock' = cons.block
  /\ cons' = Goto("take")
  /\ UNCHANGED <<maxSize, initialBlocks, blocks, tailBlock, largestBlockSize, prod, result,
                 failed>>

\* peek returns the element where it is; the others move it out.
take ==
  LET b == cons.block IN
  /\ cons.pc = "take"
  /\ cons' = IF cons.op = "peek" THEN Return(TRUE, blocks[b].data[cons.at])
             ELSE [Goto("moveFront") EXCEPT !.element = blocks[b].data[cons.at]]
  /\ blocks' = IF cons.op = "peek" THEN blocks
               ELSE [blocks EXCEPT ![b].data[cons.at] = NoElement]
  /\ UNCHANGED <<maxSize, initialBlocks, frontBlock, tailBlock, largestBlockSize, prod, result,
                 failed>>

moveFront ==
  LET b == cons.block IN
  /\ cons.pc = "moveFront"
  /\ blocks' = [blocks EXCEPT ![b].front = Succ(b, cons.at)]
  /\ result' = IF cons.op = "pop" THEN result ELSE cons.element
  /\ cons' = Return(TRUE, NoElement)
  /\ UNCHANGED <<maxSize, initialBlocks, frontBlock, tailBlock, largestBlockSize, prod, failed>>

Producer ==
  \/ \E canAlloc \in BOOLEAN : enqueue(canAlloc)
  \/ StoreInTailBlock \/ tailBlockFull \/ StoreInNextBlock
  \/ alloc \/ link \/ moveTailBlock

Consumer ==
  \/ \E op \in {"try_dequeue", "pop", "peek"} : dequeue(op)
  \/ noElement \/ recheck \/ readNext \/ moveFrontBlock \/ take \/ moveFront

QueueNext == Producer \/ Consumer

QueueSpec == QueueInit /\ [][QueueNext]_queueVars

-----------------------------------------------------------------------------
(***************************************************************************)
(* Properties.                                                             *)
(***************************************************************************)

\* The indices stay inside their blocks, the links inside the list.
QueueTypeOK ==
  /\ maxSize \in MaxSizes
  /\ Len(blocks) - initialBlocks \in 0 .. MaxAllocs
  /\ {frontBlock, tailBlock, prod.block, cons.block} \subseteq DOMAIN blocks
  /\ \A b \in DOMAIN blocks : LET k == blocks[b] IN
       /\ {k.front, k.tail, k.localFront, k.localTail} \subseteq DOMAIN k.data
       /\ k.next \in DOMAIN blocks
       /\ \A i \in DOMAIN k.data : k.data[i] \in Element \cup {NoElement}
  /\ prod.element \in Element \cup {MaxElements + 1}
  /\ result \in Element \cup {NoElement}

\* Whatever the two threads do at the same time, the queue is a FIFO: an
\* element counts as enqueued when the tail or the tail block moves, as
\* dequeued when the front moves.
Fifo == INSTANCE FifoQueue WITH queue <- Contents
\* The queue implements FifoQueue (readerwriterqueue.h).
FifoSpec == Fifo!Spec

\* The asserts of inner_enqueue (a free block is empty) and of try_dequeue,
\* pop and peek (a block ahead holds an element).
QueueAssertsHold == ~failed

\* The constructor's promise, "a queue that can hold maxSize elements without
\* further allocations": enqueue refuses an element only if maxSize or more
\* were in the queue when it was called, wherever the consumer was.
CapacityKept == ~prod.answer => ~prod.room

\* try_dequeue, pop and peek answer "empty" only if the queue was empty at some
\* moment of the call.
EmptyIsTrue == cons.pc = Idle /\ ~cons.answer => cons.empty

\* The element peek points to is the front one until the consumer's next call.
PeekIsFront ==
  cons.pc = Idle /\ cons.op = "peek" /\ cons.answer =>
    Contents # <<>> /\ cons.element = Head(Contents)

\* What the queue answers to either thread is true although each side decides from an
\* old copy of the other's index: full, empty, the front element, and the asserts.
QueueAnswersTrue == QueueTypeOK /\ QueueAssertsHold /\ CapacityKept /\ EmptyIsTrue /\ PeekIsFront
=============================================================================
