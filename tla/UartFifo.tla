------------------------------ MODULE UartFifo ------------------------------
(***************************************************************************)
(* rtl/uart_fifo.sv with its storage and pointers, one step per clock      *)
(* edge, driven in every way its two ports allow.                          *)
(***************************************************************************)
EXTENDS FifoLevel

CONSTANT VALUES

VARIABLES
  mem, wr_ptr, rd_ptr,   \* storage, pointers
  rd_data                \* rd_data_o

fifoVars == <<levelVars, mem, wr_ptr, rd_ptr, rd_data>>

FifoInit ==
  /\ LevelInit
  /\ mem \in [0 .. DEPTH - 1 -> VALUES] /\ rd_data \in VALUES
  /\ wr_ptr = 0 /\ rd_ptr = 0

\* The pointers are as wide as the depth, a power of two: they wrap.
NextPtr(p) == IF p = DEPTH - 1 THEN 0 ELSE p + 1

\* Mutant: the read is of the word after.
StorageEdgeAhead(wr, v, rd) ==
  /\ mem' = IF DoWr(wr) THEN [mem EXCEPT ![wr_ptr] = v] ELSE mem
  /\ rd_data' = mem[NextPtr(rd_ptr)]
  /\ wr_ptr' = IF DoWr(wr) THEN NextPtr(wr_ptr) ELSE wr_ptr
  /\ rd_ptr' = IF DoRd(rd) THEN NextPtr(rd_ptr) ELSE rd_ptr

StorageEdge(wr, v, rd) ==
  /\ mem' = IF DoWr(wr) THEN [mem EXCEPT ![wr_ptr] = v] ELSE mem
  /\ rd_data' = mem[rd_ptr]
  /\ wr_ptr' = IF DoWr(wr) THEN NextPtr(wr_ptr) ELSE wr_ptr
  /\ rd_ptr' = IF DoRd(rd) THEN NextPtr(rd_ptr) ELSE rd_ptr

\* wr, v: the write port; rd: rd_en_i.
FifoEdge(wr, v, rd) == LevelEdge(wr, rd) /\ StorageEdge(wr, v, rd)

FifoNext == \E wr, rd \in BOOLEAN, v \in VALUES : FifoEdge(wr, v, rd)

FifoSpec == FifoInit /\ [][FifoNext]_fifoVars

-----------------------------------------------------------------------------
\* The ranges of the registers.
FifoTypeOK ==
  /\ level \in 0 .. DEPTH
  /\ rd_valid \in BOOLEAN /\ overflow \in BOOLEAN
  /\ mem \in [0 .. DEPTH - 1 -> VALUES] /\ rd_data \in VALUES
  /\ wr_ptr \in 0 .. DEPTH - 1 /\ rd_ptr \in 0 .. DEPTH - 1

\* The slot i words after the read pointer.
SlotAt(i) == IF rd_ptr + i < DEPTH THEN rd_ptr + i ELSE rd_ptr + i - DEPTH

\* Level and pointers never disagree, though each is counted on its own: a full
\* and an empty FIFO, whose pointers are equal, are told apart by the level only.
PointersAgree == wr_ptr = IF level = DEPTH THEN rd_ptr ELSE SlotAt(level)

\* The words between the pointers, oldest first.
Words == [i \in 1 .. level |-> mem[SlotAt(i - 1)]]

Queue == INSTANCE BoundedQueue WITH
  q <- Words,
  given <- IF rd_valid THEN <<rd_data>> ELSE <<>>,
  refused <- overflow

\* The FIFO implements a bounded queue: the words between the pointers, and the
\* word presented under rd_valid_o.  No word is lost, doubled or reordered when a
\* read meets a write, a full FIFO or the end of the storage.
ImplementsQueue == Queue!Spec
=============================================================================
