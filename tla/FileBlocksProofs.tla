-------------------------- MODULE FileBlocksProofs --------------------------
(***************************************************************************)
(* For any number of threads and files and blocks of any size: no block is *)
(* ever at two places, none is lost but by a write that fails, and what an *)
(* unlocked file gives back is what was written to it.                     *)
(***************************************************************************)
EXTENDS FileBlocks, TLAPS

-----------------------------------------------------------------------------
(* Division of a position in a file into a block and a cell of it *)

\* The cells of a block end where those of a later block begin.
LEMMA MulStep ==
  ASSUME NEW b \in Nat \ {0}, NEW x \in Int, NEW y \in Int, x < y
  PROVE  x * b \in Int /\ y * b \in Int /\ x * b + b <= y * b
  OBVIOUS

\* Products of naturals stay natural.
LEMMA MulNat ==
  ASSUME NEW b \in Nat \ {0}, NEW x \in Nat
  PROVE  x * b \in Nat
  OBVIOUS

\* A sum or difference of blocks, counted in cells.
LEMMA MulDist ==
  ASSUME NEW b \in Int, NEW x \in Int, NEW y \in Int
  PROVE  (x + y) * b = x * b + y * b /\ (x - y) * b = x * b - y * b
  OBVIOUS

\* A position is a block and a cell in it ...
LEMMA DivMod ==
  ASSUME NEW b \in Nat \ {0}, NEW x \in Int
  PROVE  /\ x \div b \in Int /\ x % b \in 0 .. b - 1
         /\ x = (x \div b) * b + (x % b)
  OBVIOUS

\* ... and there is one such block and cell only.
LEMMA DivUnique ==
  ASSUME NEW b \in Nat \ {0}, NEW q \in Int, NEW r \in 0 .. b - 1
  PROVE  (q * b + r) \div b = q /\ (q * b + r) % b = r
  OBVIOUS

\* A cell of block x that lies among those of block y: x is y.
LEMMA SameBlock ==
  ASSUME NEW b \in Nat \ {0}, NEW x \in Int, NEW y \in Int, NEW c \in 0 .. b - 1,
         y * b <= x * b + c, x * b + c < y * b + b
  PROVE  x = y
<1>1. ~ x < y
  BY MulStep
<1>2. ~ y < x
  BY MulStep
<1> QED
  BY <1>1, <1>2

\* BLOCK_SIZEOF is the least number of blocks that hold x cells.
LEMMA CeilDiv ==
  ASSUME NEW b \in Nat \ {0}, NEW x \in Nat
  PROVE  /\ (x + b - 1) \div b \in Nat
         /\ x <= ((x + b - 1) \div b) * b
         /\ x > 0 => ((x + b - 1) \div b) > 0 /\ ((x + b - 1) \div b) * b - b < x
         /\ x = 0 => (x + b - 1) \div b = 0
  OBVIOUS

\* More cells need no fewer blocks.
LEMMA CeilMono ==
  ASSUME NEW b \in Nat \ {0}, NEW x \in Nat, NEW y \in Nat, x <= y
  PROVE  (x + b - 1) \div b <= (y + b - 1) \div b
  OBVIOUS

\* Cells that fit m blocks need no more than m.
LEMMA CeilMax ==
  ASSUME NEW b \in Nat \ {0}, NEW x \in Nat, NEW m \in Nat, x <= m * b
  PROVE  (x + b - 1) \div b <= m
  OBVIOUS

\* A position below a size lies in one of the blocks that size needs.
LEMMA DivBelowCeil ==
  ASSUME NEW b \in Nat \ {0}, NEW x \in Nat, NEW y \in Nat, x < y
  PROVE  x \div b \in Nat /\ x \div b < (y + b - 1) \div b
  OBVIOUS

-----------------------------------------------------------------------------
(* The pieces of a write or read *)

\* What write_impl and read_impl rely on: the walk enters block start at o, ends
\* with the n-th byte, and that lies beyond the start of block last.
Spans(start, last, o, n) ==
    /\ start \in Nat /\ last \in Nat /\ start <= last
    /\ o \in 0 .. BLOCK_SIZE - 1
    /\ n \in Nat \ {0} /\ (last - start) * BLOCK_SIZE < o + n

\* A piece starts where the one before it ended, in the buffer and in the file.
PieceAt(p, start, last, o, n) ==
    /\ p.block \in start .. last
    /\ p.at \in 0 .. BLOCK_SIZE - 1
    /\ p.from \in Nat /\ p.len \in Nat
    /\ p.from = (p.block - start) * BLOCK_SIZE + p.at - o
    /\ p.from + p.len <= n
    /\ p.at = IF p.block = start THEN o ELSE 0
    /\ p.from + p.len = IF p.block = last THEN n
                        ELSE (p.block - start) * BLOCK_SIZE + BLOCK_SIZE - o

\* Each piece of a walk is one block of it, and begins where the ones before it ended.
LEMMA PieceShape ==
  ASSUME NEW start, NEW last, NEW o, NEW n, Spans(start, last, o, n),
         NEW p \in Pieces(start, last, o, n)
  PROVE  PieceAt(p, start, last, o, n)
<1> USE BlockAssumption
<1>t. start \in Nat /\ last \in Nat /\ start <= last /\ o \in 0 .. BLOCK_SIZE - 1
      /\ n \in Nat \ {0} /\ (last - start) * BLOCK_SIZE < o + n /\ BLOCK_SIZE \in Nat \ {0}
  BY DEF Spans
<1>1. CASE start = last
  <2>1. p = [block |-> start, at |-> o, from |-> 0, len |-> n]
    BY <1>1 DEF Pieces
  <2>2. (p.block - start) * BLOCK_SIZE = 0
    BY <2>1, <1>t
  <2> QED
    BY <1>1, <1>t, <2>1, <2>2 DEF PieceAt
<1>2. CASE start # last /\ p = [block |-> start, at |-> o, from |-> 0, len |-> BLOCK_SIZE - o]
  <2>1. (p.block - start) * BLOCK_SIZE = 0
    BY <1>2, <1>t
  <2>2. BLOCK_SIZE <= (last - start) * BLOCK_SIZE
    BY <1>2, <1>t
  <2> QED
    BY <1>2, <1>t, <2>1, <2>2 DEF PieceAt
<1>3. ASSUME start # last, NEW k \in start + 1 .. last - 1,
             p = [block |-> k, at |-> 0, from |-> BLOCK_SIZE - o + (k - start - 1) * BLOCK_SIZE,
                  len |-> BLOCK_SIZE]
      PROVE  PieceAt(p, start, last, o, n)
  <2>1. (k - start - 1) * BLOCK_SIZE = (k - start) * BLOCK_SIZE - BLOCK_SIZE
    BY <1>3, <1>t
  <2>2. (k - start) * BLOCK_SIZE + BLOCK_SIZE <= (last - start) * BLOCK_SIZE
        /\ (k - start) * BLOCK_SIZE \in Int /\ (last - start) * BLOCK_SIZE \in Int
    BY <1>3, <1>t, MulStep
  <2>3. BLOCK_SIZE <= (k - start) * BLOCK_SIZE
    BY <1>3, <1>t
  <2> QED
    BY <1>3, <1>t, <2>1, <2>2, <2>3 DEF PieceAt
<1>4. CASE /\ start # last
           /\ p = [block |-> last, at |-> 0,
                   from |-> BLOCK_SIZE - o + (last - start - 1) * BLOCK_SIZE,
                   len |-> n - (BLOCK_SIZE - o + (last - start - 1) * BLOCK_SIZE)]
  <2>1. (last - start - 1) * BLOCK_SIZE = (last - start) * BLOCK_SIZE - BLOCK_SIZE
        /\ (last - start) * BLOCK_SIZE \in Int
    BY <1>4, <1>t
  <2>2. BLOCK_SIZE <= (last - start) * BLOCK_SIZE
    BY <1>4, <1>t
  <2> QED
    BY <1>4, <1>t, <2>1, <2>2 DEF PieceAt
<1> QED
  BY <1>1, <1>2, <1>3, <1>4, <1>t DEF Pieces

\* Every block of the walk has a piece, and one only.
LEMMA PieceOfBlock ==
  ASSUME NEW start, NEW last, NEW o, NEW n, Spans(start, last, o, n)
  PROVE  /\ \A k \in start .. last : \E p \in Pieces(start, last, o, n) : p.block = k
         /\ \A p, q \in Pieces(start, last, o, n) : p.block = q.block => p = q
<1> USE BlockAssumption
<1>t. start \in Nat /\ last \in Nat /\ start <= last
  BY DEF Spans
<1>1. CASE start = last
  BY <1>1, <1>t DEF Pieces
<1>2. CASE start # last
  <2> DEFINE before(k) == BLOCK_SIZE - o + (k - start - 1) * BLOCK_SIZE
             First == [block |-> start, at |-> o, from |-> 0, len |-> BLOCK_SIZE - o]
             Middle(k) == [block |-> k, at |-> 0, from |-> before(k), len |-> BLOCK_SIZE]
             Last == [block |-> last, at |-> 0, from |-> before(last), len |-> n - before(last)]
  <2>1. Pieces(start, last, o, n) = {First} \cup {Middle(k) : k \in start + 1 .. last - 1} \cup {Last}
    BY <1>2, <1>t DEF Pieces
  <2>2. First.block = start /\ Last.block = last /\ \A k : Middle(k).block = k
    OBVIOUS
  <2> HIDE DEF First, Middle, Last
  <2> QED
    BY <1>2, <1>t, <2>1, <2>2
<1> QED
  BY <1>1, <1>2

\* Byte i of the buffer is in the piece that lies where byte i belongs.
LEMMA PieceOfByte ==
  ASSUME NEW start, NEW last, NEW o, NEW n, Spans(start, last, o, n),
         o + n <= (last - start) * BLOCK_SIZE + BLOCK_SIZE,
         NEW k \in start .. last, NEW c \in 0 .. BLOCK_SIZE - 1,
         NEW p \in Pieces(start, last, o, n), p.block = k
  PROVE  /\ p.at + p.len <= BLOCK_SIZE
         /\ p.at <= c /\ c < p.at + p.len <=>
              (k - start) * BLOCK_SIZE + c - o \in 0 .. n - 1
         /\ (k - start) * BLOCK_SIZE + c - o = p.from + (c - p.at)
<1> USE BlockAssumption
<1>t. start \in Nat /\ last \in Nat /\ start <= last /\ o \in 0 .. BLOCK_SIZE - 1
      /\ n \in Nat \ {0} /\ BLOCK_SIZE \in Nat \ {0}
  BY DEF Spans
<1> DEFINE m == (k - start) * BLOCK_SIZE
<1>1. m \in Int /\ (k = start => m = 0) /\ (k > start => BLOCK_SIZE <= m)
      /\ (k = last => m = (last - start) * BLOCK_SIZE)
  BY <1>t
<1>2. PieceAt(p, start, last, o, n)
  BY PieceShape
<1>3. /\ p.at \in 0 .. BLOCK_SIZE - 1 /\ p.from \in Nat /\ p.len \in Nat
      /\ p.from = m + p.at - o /\ p.from + p.len <= n
      /\ p.at = IF k = start THEN o ELSE 0
      /\ p.from + p.len = IF k = last THEN n ELSE m + BLOCK_SIZE - o
  BY <1>2 DEF PieceAt
<1> HIDE DEF m
<1>4. p.at + p.len <= BLOCK_SIZE
  BY <1>1, <1>3, <1>t
<1>5. p.at <= c /\ c < p.at + p.len <=> m + c - o \in 0 .. n - 1
  BY <1>1, <1>3, <1>t
<1>6. m + c - o = p.from + (c - p.at)
  BY <1>1, <1>3, <1>t
<1> QED
  BY <1>4, <1>5, <1>6 DEF m

-----------------------------------------------------------------------------
(* The inductive invariant *)

Freeing(f) ==
    \E t \in Thread : call[t].at \in {"freeing", "freeing_indirect"} /\ call[t].file = f

\* A file's lock is held by one call at a time.
LocksHeld ==
    /\ \A t \in Thread : call[t].at # "idle" => call[t].file \in File
    /\ \A t, u \in Thread :
         call[t].at # "idle" /\ call[u].at # "idle" /\ call[t].file = call[u].file => t = u

First == {"allocating_first", "failing_first"}
Extending == {"allocating", "failing"} \cup First

\* What a call has reached at each of its steps.
Placed(t) ==
    LET c == call[t]
        has == blocks_allocated(c.file)
        needs == rw_total_blocks(c.offset, c.to_write)
    IN /\ c.at = "freeing" => c.block < MAX_BLOCKS
       /\ c.at \in First \cup {"freeing_indirect"} => c.block = MAX_DIRECT
       /\ c.at \in Extending => has <= c.block /\ c.block < needs
       /\ c.at = "filling" => c.block = AtLeast(has, needs)
       /\ c.at \in Extending \cup {"filling"} =>
            c.to_write > 0 /\ c.offset + c.to_write <= MAX_FILE_SIZE

CallsPlaced == \A t \in Thread : Placed(t)

RootTaken == ROOT_BLOCK \notin free_blocks

\* OnePlacePerBlock and NoBlockLost, file by file.
BlocksDistinct ==
    health # "damaged" =>
        \A f \in File : \A k \in Indices(f) :
            /\ BlockOf(f, k) \in Block \ (free_blocks \cup {ROOT_BLOCK})
            /\ \A g \in File : \A j \in Indices(g) :
                 BlockOf(f, k) = BlockOf(g, j) => f = g /\ k = j

BlocksKept ==
    health = "sound" =>
        \A b \in Block \ (free_blocks \cup {ROOT_BLOCK}) :
            \E f \in File : \E k \in Indices(f) : BlockOf(f, k) = b

\* The cell of byte q of a file.
CellOf(f, q) == BlockOf(f, q \div BLOCK_SIZE) * BLOCK_SIZE + (q % BLOCK_SIZE)

\* The bytes written to a file lie where its indices say, all the time.
BytesInPlace ==
    health # "damaged" =>
        \A f \in File : ~ Freeing(f) =>
            \A q \in written[f] :
                q < inode_table[f].i_size /\ fs_data[CellOf(f, q)] = Data(f, q)

Laid == LocksHeld /\ CallsPlaced
Owned == RootTaken /\ BlocksDistinct /\ BlocksKept
IInv == TypeOK /\ Laid /\ Owned /\ BytesInPlace

-----------------------------------------------------------------------------
(* Constants, cells and sizes *)

\* What BlockAssumption says of the sizes.
LEMMA Constants ==
  /\ BLOCK_SIZE \in Nat \ {0} /\ DATA_BLOCKS \in Nat \ {0} /\ MAX_DIRECT \in Nat \ {0}
  /\ File \subseteq Nat \ {0}
  /\ MAX_BLOCKS \in Nat \ {0} /\ MAX_BLOCKS = MAX_DIRECT + BLOCK_SIZE
  /\ MAX_FILE_SIZE \in Nat \ {0} /\ MAX_FILE_SIZE = MAX_BLOCKS * BLOCK_SIZE
  /\ BLOCK_SIZE <= MAX_FILE_SIZE
  /\ Direct = 0 .. MAX_DIRECT - 1 /\ -1 \notin Block
<1>1. BLOCK_SIZE \in Nat \ {0} /\ MAX_DIRECT \in Nat \ {0}
  BY BlockAssumption
<1>2. (MAX_DIRECT + BLOCK_SIZE) * BLOCK_SIZE \in Nat \ {0}
      /\ BLOCK_SIZE <= (MAX_DIRECT + BLOCK_SIZE) * BLOCK_SIZE
  BY <1>1
<1> QED
  BY <1>1, <1>2, BlockAssumption DEF MAX_BLOCKS, MAX_FILE_SIZE, Direct, Block

\* An address of fs_data is a block and a cell of it.
LEMMA Cells ==
  /\ \A b \in Block, c \in 0 .. BLOCK_SIZE - 1 :
       /\ b * BLOCK_SIZE + c \in Address
       /\ (b * BLOCK_SIZE + c) \div BLOCK_SIZE = b
       /\ (b * BLOCK_SIZE + c) % BLOCK_SIZE = c
  /\ \A a \in Address :
       /\ a \div BLOCK_SIZE \in Block /\ a % BLOCK_SIZE \in 0 .. BLOCK_SIZE - 1
       /\ a = (a \div BLOCK_SIZE) * BLOCK_SIZE + (a % BLOCK_SIZE)
<1>1. ASSUME NEW b \in Block, NEW c \in 0 .. BLOCK_SIZE - 1
      PROVE  /\ b * BLOCK_SIZE + c \in Address
             /\ (b * BLOCK_SIZE + c) \div BLOCK_SIZE = b
             /\ (b * BLOCK_SIZE + c) % BLOCK_SIZE = c
  <2>1. b \in Nat /\ b < DATA_BLOCKS /\ DATA_BLOCKS \in Nat /\ BLOCK_SIZE \in Nat \ {0}
    BY Constants DEF Block
  <2>2. b * BLOCK_SIZE \in Nat /\ b * BLOCK_SIZE + BLOCK_SIZE <= DATA_BLOCKS * BLOCK_SIZE
    BY <2>1, MulStep, MulNat
  <2>3. b * BLOCK_SIZE + c \in Address
    BY <2>1, <2>2 DEF Address
  <2> QED
    BY <2>1, <2>3, DivUnique
<1>2. ASSUME NEW a \in Address
      PROVE  /\ a \div BLOCK_SIZE \in Block /\ a % BLOCK_SIZE \in 0 .. BLOCK_SIZE - 1
             /\ a = (a \div BLOCK_SIZE) * BLOCK_SIZE + (a % BLOCK_SIZE)
  <2>1. a \in Nat /\ DATA_BLOCKS \in Nat /\ BLOCK_SIZE \in Nat \ {0}
        /\ a < DATA_BLOCKS * BLOCK_SIZE
    BY Constants DEF Address
  <2>2. a \div BLOCK_SIZE \in Nat /\ a \div BLOCK_SIZE < DATA_BLOCKS
    BY <2>1
  <2> QED
    BY <2>1, <2>2, DivMod DEF Block
<1> QED
  BY <1>1, <1>2

\* No file has more blocks than the inode and its indirect block name.
LEMMA Sizes ==
  /\ \A x \in 0 .. MAX_FILE_SIZE :
        /\ BLOCK_SIZEOF(x) \in 0 .. MAX_BLOCKS
        /\ x <= BLOCK_SIZEOF(x) * BLOCK_SIZE
        /\ x > 0 => BLOCK_SIZEOF(x) > 0 /\ BLOCK_SIZEOF(x) * BLOCK_SIZE - BLOCK_SIZE < x
        /\ x = 0 => BLOCK_SIZEOF(x) = 0
        /\ \A q \in 0 .. x - 1 : q \div BLOCK_SIZE \in 0 .. BLOCK_SIZEOF(x) - 1
        /\ \A y \in 0 .. x : BLOCK_SIZEOF(y) <= BLOCK_SIZEOF(x)
  /\ TypeOK => \A f \in File : blocks_allocated(f) \in 0 .. MAX_BLOCKS
<1>1. ASSUME NEW x \in 0 .. MAX_FILE_SIZE
      PROVE  /\ BLOCK_SIZEOF(x) \in 0 .. MAX_BLOCKS
             /\ x <= BLOCK_SIZEOF(x) * BLOCK_SIZE
             /\ x > 0 => BLOCK_SIZEOF(x) > 0 /\ BLOCK_SIZEOF(x) * BLOCK_SIZE - BLOCK_SIZE < x
             /\ x = 0 => BLOCK_SIZEOF(x) = 0
             /\ \A q \in 0 .. x - 1 : q \div BLOCK_SIZE \in 0 .. BLOCK_SIZEOF(x) - 1
             /\ \A y \in 0 .. x : BLOCK_SIZEOF(y) <= BLOCK_SIZEOF(x)
  <2>1. x \in Nat /\ x <= MAX_BLOCKS * BLOCK_SIZE
    BY Constants
  <2>2. BLOCK_SIZEOF(x) <= MAX_BLOCKS
    BY <2>1, Constants, CeilMax DEF BLOCK_SIZEOF
  <2>3. \A q \in 0 .. x - 1 : q \div BLOCK_SIZE \in Nat /\ q \div BLOCK_SIZE < BLOCK_SIZEOF(x)
    BY <2>1, Constants, DivBelowCeil DEF BLOCK_SIZEOF
  <2>4. \A y \in 0 .. x : BLOCK_SIZEOF(y) <= BLOCK_SIZEOF(x)
    BY <2>1, Constants, CeilMono DEF BLOCK_SIZEOF
  <2>5. /\ BLOCK_SIZEOF(x) \in Nat
        /\ x <= BLOCK_SIZEOF(x) * BLOCK_SIZE
        /\ x > 0 => BLOCK_SIZEOF(x) > 0 /\ BLOCK_SIZEOF(x) * BLOCK_SIZE - BLOCK_SIZE < x
        /\ x = 0 => BLOCK_SIZEOF(x) = 0
    BY <2>1, Constants, CeilDiv DEF BLOCK_SIZEOF
  <2>6. BLOCK_SIZEOF(x) \in 0 .. MAX_BLOCKS
    BY <2>2, <2>5, Constants
  <2>7. \A q \in 0 .. x - 1 : q \div BLOCK_SIZE \in 0 .. BLOCK_SIZEOF(x) - 1
    <3> TAKE q \in 0 .. x - 1
    <3> DEFINE d == q \div BLOCK_SIZE
    <3>1. d \in Nat /\ d < BLOCK_SIZEOF(x)
      BY <2>3
    <3> HIDE DEF d
    <3>2. d \in 0 .. BLOCK_SIZEOF(x) - 1
      BY <3>1, <2>6, Constants
    <3> QED
      BY <3>2 DEF d
  <2> QED
    BY <2>4, <2>5, <2>6, <2>7
<1>2. TypeOK => \A f \in File : inode_table[f].i_size \in 0 .. MAX_FILE_SIZE
  BY DEF TypeOK
<1> QED
  BY <1>1, <1>2 DEF blocks_allocated

-----------------------------------------------------------------------------
(* The blocks of a file in the middle of a call *)

UpTo(k) == (0 .. k - 1) \cup (IF k > MAX_DIRECT THEN {-1} ELSE {})

CallIndices(c) ==
    CASE c.at = "freeing" -> UpTo(c.block + 1)
      [] c.at \in First \cup {"freeing_indirect"} -> UpTo(c.block) \cup {-1}
      [] OTHER -> UpTo(c.block)

\* What a locked file's blocks are is said by its call's step ...
LEMMA IndicesOfCall ==
  LocksHeld => \A t \in Thread :
    call[t].at # "idle" => Indices(call[t].file) = CallIndices(call[t])
<1> SUFFICES ASSUME LocksHeld, NEW t \in Thread, call[t].at # "idle"
             PROVE  Indices(call[t].file) = CallIndices(call[t])
  OBVIOUS
<1> DEFINE f == call[t].file
           u == CHOOSE u \in Thread : call[u].at # "idle" /\ call[u].file = f
<1>1. Locked(f)
  BY DEF Locked
<1>2. u \in Thread /\ call[u].at # "idle" /\ call[u].file = f
  BY <1>1 DEF Locked
<1>3. u = t
  BY <1>2 DEF LocksHeld
<1>4. call[CHOOSE v \in Thread : call[v].at # "idle" /\ call[v].file = f] = call[t]
  BY <1>3
<1> HIDE DEF f, u
<1>5. Indices(f) = CallIndices(call[t])
  BY <1>1, <1>4 DEF Indices, CallIndices, UpTo, First
<1> QED
  BY <1>5 DEF f

\* ... and an unlocked file's by its size.
LEMMA IndicesUnlocked ==
  \A f \in File : ~ Locked(f) => Indices(f) = UpTo(blocks_allocated(f))
BY DEF Indices, UpTo

\* A file has the indirect block if it has a block that this one names.
LEMMA IndicesRange ==
  TypeOK /\ Laid => \A f \in File :
    /\ Indices(f) \subseteq -1 .. MAX_BLOCKS - 1
    /\ \A k \in Indices(f) : k >= MAX_DIRECT => -1 \in Indices(f)
<1> SUFFICES ASSUME TypeOK, Laid, NEW f \in File
             PROVE  /\ Indices(f) \subseteq -1 .. MAX_BLOCKS - 1
                    /\ \A k \in Indices(f) : k >= MAX_DIRECT => -1 \in Indices(f)
  OBVIOUS
<1>1. ASSUME NEW m \in 0 .. MAX_BLOCKS
      PROVE  /\ UpTo(m) \subseteq -1 .. MAX_BLOCKS - 1
             /\ \A k \in UpTo(m) : k >= MAX_DIRECT => -1 \in UpTo(m)
  BY Constants DEF UpTo
<1>2. CASE Locked(f)
  <2>1. PICK t \in Thread : call[t].at # "idle" /\ call[t].file = f
    BY <1>2 DEF Locked
  <2>2. Indices(f) = CallIndices(call[t])
    BY <2>1, IndicesOfCall DEF Laid
  <2>3. call[t].block \in 0 .. MAX_BLOCKS
    BY DEF TypeOK
  <2>4. call[t].at = "freeing" => call[t].block + 1 \in 0 .. MAX_BLOCKS
    BY <2>3, Constants DEF Laid, CallsPlaced, Placed
  <2> QED
    BY <2>2, <2>3, <2>4, <1>1, Constants DEF CallIndices
<1>3. CASE ~ Locked(f)
  BY <1>3, <1>1, IndicesUnlocked, Sizes
<1> QED
  BY <1>2, <1>3

\* Where get_block_number finds a block: in the inode, or in the indirect block.
LEMMA NumberCases ==
  ASSUME NEW f \in File
  PROVE  /\ BlockOf(f, -1) = inode_table[f].i_indirect_data_block
         /\ \A k \in Direct : BlockOf(f, k) = inode_table[f].i_direct_data_blocks[k]
         /\ \A k \in MAX_DIRECT .. MAX_BLOCKS - 1 :
              BlockOf(f, -1) \in Block =>
                BlockOf(f, k) =
                  fs_data[BlockOf(f, -1) * BLOCK_SIZE + (k - MAX_DIRECT)]
  BY Constants DEF BlockOf, get_block_number

\* The same in the state after a step.
LEMMA NumberCasesNext ==
  ASSUME NEW f \in File
  PROVE  /\ BlockOf(f, -1)' = inode_table'[f].i_indirect_data_block
         /\ \A k \in Direct : BlockOf(f, k)' = inode_table'[f].i_direct_data_blocks[k]
         /\ \A k \in MAX_DIRECT .. MAX_BLOCKS - 1 :
              BlockOf(f, -1)' \in Block =>
                BlockOf(f, k)' =
                  fs_data'[BlockOf(f, -1)' * BLOCK_SIZE + (k - MAX_DIRECT)]
  BY Constants DEF BlockOf, get_block_number

-----------------------------------------------------------------------------
(* What a step of one call leaves alone *)

\* The step is one of thread t, in a call on file f.
StepOf(t, f) ==
    /\ \A u \in Thread \ {t} : call'[u] = call[u]
    /\ call[t].at # "idle" => call[t].file = f
    /\ call'[t].at # "idle" => call'[t].file = f
    /\ call[t].at = "idle" => ~ Locked(f)
    /\ \A g \in File \ {f} : inode_table'[g] = inode_table[g] /\ written'[g] = written[g]

\* A call that stays on its file, or takes an unlocked one, keeps the locks apart.
LEMMA LocksKept ==
  ASSUME LocksHeld, NEW t \in Thread, NEW f \in File, StepOf(t, f)
  PROVE  LocksHeld'
<1>1. ASSUME NEW u \in Thread, call'[u].at # "idle"
      PROVE  call'[u].file \in File /\ (u # t => call[u].at # "idle" /\ call'[u] = call[u])
             /\ (u = t => call'[u].file = f)
  BY <1>1 DEF StepOf, LocksHeld
<1>2. ASSUME NEW u \in Thread, u # t, call'[u].at # "idle", call'[t].at # "idle"
      PROVE  call'[u].file # f
  <2>1. call[u].at # "idle" /\ call'[u] = call[u]
    BY <1>1, <1>2
  <2>2. CASE call[t].at # "idle"
    BY <2>1, <2>2, <1>2 DEF StepOf, LocksHeld
  <2>3. CASE call[t].at = "idle"
    BY <2>1, <2>3, <1>2 DEF StepOf, Locked
  <2> QED
    BY <2>2, <2>3
<1>3. ASSUME NEW u \in Thread, NEW v \in Thread, call'[u].at # "idle", call'[v].at # "idle",
             call'[u].file = call'[v].file
      PROVE  u = v
  <2>1. CASE u = t
    BY <2>1, <1>1, <1>2, <1>3
  <2>2. CASE v = t
    BY <2>2, <1>1, <1>2, <1>3
  <2>3. CASE u # t /\ v # t
    BY <2>3, <1>1, <1>3 DEF LocksHeld
  <2> QED
    BY <2>1, <2>2, <2>3
<1> QED
  BY <1>1, <1>3 DEF LocksHeld

\* A step on one file leaves the others' locks and indices alone.
LEMMA OthersKept ==
  ASSUME LocksHeld, NEW t \in Thread, NEW f \in File, StepOf(t, f), NEW g \in File \ {f}
  PROVE  /\ Indices(g)' = Indices(g)
         /\ Locked(g)' <=> Locked(g)
         /\ Freeing(g)' <=> Freeing(g)
<1>1. LocksHeld'
  BY LocksKept
<1>2. ASSUME NEW u \in Thread
      PROVE  /\ call'[u].at # "idle" /\ call'[u].file = g <=> call[u].at # "idle" /\ call[u].file = g
             /\ call'[u].at # "idle" /\ call'[u].file = g => call'[u] = call[u]
  BY DEF StepOf
<1>3. Locked(g)' <=> Locked(g)
  BY <1>2 DEF Locked
<1>4. Freeing(g)' <=> Freeing(g)
  <2>1. ASSUME NEW u \in Thread
        PROVE  call'[u].at \in {"freeing", "freeing_indirect"} /\ call'[u].file = g
               <=> call[u].at \in {"freeing", "freeing_indirect"} /\ call[u].file = g
    BY <1>2
  <2> QED
    BY <2>1 DEF Freeing
<1>5. ASSUME Locked(g)
      PROVE  Indices(g)' = Indices(g)
  <2>1. PICK u \in Thread : call[u].at # "idle" /\ call[u].file = g
    BY <1>5 DEF Locked
  <2>2. Indices(g) = CallIndices(call[u])
    BY <2>1, IndicesOfCall
  <2>4. call'[u] = call[u] /\ call'[u].at # "idle" /\ call'[u].file = g
    BY <2>1, <1>2
  <2>5. ASSUME LocksHeld', call'[u].at # "idle", call'[u].file = g
        PROVE  Indices(g)' = CallIndices(call'[u])
    <3> DEFINE v == CHOOSE v \in Thread : call'[v].at # "idle" /\ call'[v].file = g
    <3>1. v \in Thread /\ call'[v].at # "idle" /\ call'[v].file = g
      BY <2>5
    <3>2. v = u
      BY <2>5, <3>1 DEF LocksHeld
    <3>3. call'[CHOOSE w \in Thread : call'[w].at # "idle" /\ call'[w].file = g] = call'[u]
      BY <3>2
    <3>4. Locked(g)'
      BY <2>5 DEF Locked
    <3> HIDE DEF v
    <3> QED
      BY <3>3, <3>4 DEF Indices, CallIndices, UpTo, First
  <2>6. Indices(g)' = CallIndices(call'[u])
    BY <2>4, <2>5, <1>1
  <2>7. CallIndices(call'[u]) = CallIndices(call[u])
    BY <2>4
  <2> QED
    BY <2>2, <2>6, <2>7
<1>6. ASSUME ~ Locked(g)
      PROVE  Indices(g)' = Indices(g)
  <2>1. ~ Locked(g)'
    BY <1>6, <1>3
  <2>2. Indices(g)' = UpTo(blocks_allocated(g)')
    BY <2>1 DEF Indices, UpTo
  <2>3. blocks_allocated(g)' = blocks_allocated(g)
    BY DEF StepOf, blocks_allocated, BLOCK_SIZEOF
  <2>4. Indices(g) = UpTo(blocks_allocated(g))
    BY <1>6, IndicesUnlocked
  <2> QED
    BY <2>2, <2>3, <2>4
<1> QED
  BY <1>3, <1>4, <1>5, <1>6

\* After its step, what a thread's call holds of its file.
LEMMA OwnIndices ==
  ASSUME LocksHeld, NEW t \in Thread, NEW f \in File, StepOf(t, f)
  PROVE  /\ call[t].at # "idle" => Indices(f) = CallIndices(call[t])
         /\ call'[t].at # "idle" => Indices(f)' = CallIndices(call'[t])
         /\ ~ Locked(f) => Indices(f) = UpTo(blocks_allocated(f))
         /\ call'[t].at = "idle" =>
              ~ Locked(f)' /\ Indices(f)' = UpTo(blocks_allocated(f)')
<1>1. LocksHeld'
  BY LocksKept
<1>2. call[t].at # "idle" => Indices(f) = CallIndices(call[t])
  BY IndicesOfCall DEF StepOf
<1>3. ~ Locked(f) => Indices(f) = UpTo(blocks_allocated(f))
  BY IndicesUnlocked
<1>4. ASSUME call'[t].at # "idle"
      PROVE  Indices(f)' = CallIndices(call'[t])
  <2> DEFINE v == CHOOSE v \in Thread : call'[v].at # "idle" /\ call'[v].file = f
  <2>0. call'[t].file = f
    BY <1>4 DEF StepOf
  <2>1. v \in Thread /\ call'[v].at # "idle" /\ call'[v].file = f
    BY <2>0, <1>4
  <2>2. v = t
    BY <2>0, <2>1, <1>1, <1>4 DEF LocksHeld
  <2>3. call'[CHOOSE w \in Thread : call'[w].at # "idle" /\ call'[w].file = f] = call'[t]
    BY <2>2
  <2>4. Locked(f)'
    BY <2>0, <1>4 DEF Locked
  <2> HIDE DEF v
  <2> QED
    BY <2>3, <2>4 DEF Indices, CallIndices, UpTo, First
<1>5. ASSUME call'[t].at = "idle"
      PROVE  ~ Locked(f)' /\ Indices(f)' = UpTo(blocks_allocated(f)')
  <2>1. ASSUME NEW u \in Thread, call'[u].at # "idle", call'[u].file = f
        PROVE  FALSE
    BY <2>1, <1>5 DEF StepOf, LocksHeld, Locked
  <2>2. ~ Locked(f)'
    BY <2>1 DEF Locked
  <2>3. Indices(f)' = UpTo(blocks_allocated(f)')
    BY <2>2 DEF Indices, UpTo
  <2> QED
    BY <2>2, <2>3
<1> QED
  BY <1>2, <1>3, <1>4, <1>5

\* A step of one call leaves the others where they are.
LEMMA PlacedKept ==
  ASSUME LocksHeld, CallsPlaced, NEW t \in Thread, NEW f \in File, StepOf(t, f), Placed(t)'
  PROVE  CallsPlaced'
<1>1. ASSUME NEW u \in Thread, u # t, call[u].at # "idle"
      PROVE  Placed(u)'
  <2>1. call[u].file \in File \ {f}
    BY <1>1 DEF StepOf, LocksHeld, Locked
  <2>2. call'[u] = call[u]
    BY <1>1 DEF StepOf
  <2>3. inode_table'[call[u].file] = inode_table[call[u].file]
    BY <2>1 DEF StepOf
  <2>4. Placed(u)
    BY DEF CallsPlaced
  <2> QED
    BY <2>2, <2>3, <2>4 DEF Placed, blocks_allocated
<1>2. ASSUME NEW u \in Thread, u # t, call[u].at = "idle"
      PROVE  Placed(u)'
  <2>1. call'[u].at = "idle"
    BY <1>2 DEF StepOf
  <2> QED
    BY <2>1 DEF Placed, First, Extending
<1>3. \A u \in Thread : Placed(u)'
  BY <1>1, <1>2
<1> QED
  BY <1>3 DEF CallsPlaced

\* Only cells of the blocks at the indices K of file f change.
ChangesOnly(f, K) ==
    \A a \in Address : fs_data'[a] # fs_data[a] =>
        \E k \in K : a \div BLOCK_SIZE = BlockOf(f, k)

\* A pointer is kept where the inode or the indirect block keeps it.
LEMMA NumberKept ==
  ASSUME TypeOK, Laid, health # "damaged", BlocksDistinct,
         NEW g \in File, NEW k \in Indices(g),
         k \in Direct =>
            inode_table'[g].i_direct_data_blocks[k] = inode_table[g].i_direct_data_blocks[k],
         k \notin Direct =>
            inode_table'[g].i_indirect_data_block = inode_table[g].i_indirect_data_block,
         k >= MAX_DIRECT =>
            LET a == BlockOf(g, -1) * BLOCK_SIZE + (k - MAX_DIRECT)
            IN fs_data'[a] = fs_data[a]
  PROVE  BlockOf(g, k)' = BlockOf(g, k)
<1>1. k \in -1 .. MAX_BLOCKS - 1 /\ (k >= MAX_DIRECT => -1 \in Indices(g))
  BY IndicesRange
<1>2. CASE k = -1
  <2>1. k \notin Direct
    BY <1>2, Constants
  <2> QED
    BY <1>2, <2>1, NumberCases, NumberCasesNext
<1>3. CASE k \in Direct
  BY <1>3, NumberCases, NumberCasesNext
<1>4. CASE k \in MAX_DIRECT .. MAX_BLOCKS - 1
  <2>1. BlockOf(g, -1) \in Block
    BY <1>1, <1>4, Constants DEF BlocksDistinct
  <2>2. BlockOf(g, -1)' = BlockOf(g, -1)
    <3>1. k \notin Direct
      BY <1>4, Constants
    <3> QED
      BY <3>1, NumberCases, NumberCasesNext
  <2>3. k >= MAX_DIRECT
    BY <1>4, Constants
  <2> QED
    BY <1>4, <2>1, <2>2, <2>3, NumberCases, NumberCasesNext
<1> QED
  BY <1>1, <1>2, <1>3, <1>4, Constants

\* Pointers in an indirect block are kept when the blocks that change are
\* other blocks.
LEMMA IndirectCellKept ==
  ASSUME TypeOK, Laid, health # "damaged", BlocksDistinct,
         NEW f \in File, NEW K, K \subseteq Indices(f), ChangesOnly(f, K),
         NEW g \in File, g # f \/ -1 \notin K, NEW k \in Indices(g), k >= MAX_DIRECT
  PROVE  LET a == BlockOf(g, -1) * BLOCK_SIZE + (k - MAX_DIRECT)
         IN a \in Address /\ a \div BLOCK_SIZE = BlockOf(g, -1) /\ fs_data'[a] = fs_data[a]
<1> DEFINE a == BlockOf(g, -1) * BLOCK_SIZE + (k - MAX_DIRECT)
<1>1. k \in -1 .. MAX_BLOCKS - 1 /\ -1 \in Indices(g)
  BY IndicesRange
<1>2. BlockOf(g, -1) \in Block
  BY <1>1 DEF BlocksDistinct
<1>3. k - MAX_DIRECT \in 0 .. BLOCK_SIZE - 1
  BY <1>1, Constants
<1>4. a \in Address /\ a \div BLOCK_SIZE = BlockOf(g, -1)
  BY <1>2, <1>3, Cells
<1> HIDE DEF a
<1>5. ~ \E j \in K : a \div BLOCK_SIZE = BlockOf(f, j)
  BY <1>1, <1>4 DEF BlocksDistinct
<1>6. fs_data'[a] = fs_data[a]
  BY <1>4, <1>5 DEF ChangesOnly
<1> QED
  BY <1>4, <1>6 DEF a

\* A step that changes only blocks of its own file keeps the pointers of every other.
LEMMA OthersNumbers ==
  ASSUME TypeOK, Laid, health # "damaged", BlocksDistinct,
         NEW t \in Thread, NEW f \in File, StepOf(t, f),
         NEW K, K \subseteq Indices(f), ChangesOnly(f, K)
  PROVE  \A g \in File \ {f} : \A k \in Indices(g) :
            BlockOf(g, k)' = BlockOf(g, k)
<1> SUFFICES ASSUME NEW g \in File \ {f}, NEW k \in Indices(g)
             PROVE  BlockOf(g, k)' = BlockOf(g, k)
  OBVIOUS
<1>1. inode_table'[g] = inode_table[g]
  BY DEF StepOf
<1>2. k >= MAX_DIRECT =>
        LET a == BlockOf(g, -1) * BLOCK_SIZE + (k - MAX_DIRECT)
        IN fs_data'[a] = fs_data[a]
  BY IndirectCellKept
<1> QED
  BY <1>1, <1>2, NumberKept

\* A file that is not being truncated has all the blocks of its size.
LEMMA SizeHeld ==
  TypeOK /\ Laid => \A f \in File : ~ Freeing(f) => 0 .. blocks_allocated(f) - 1 \subseteq Indices(f)
<1> SUFFICES ASSUME TypeOK, Laid, NEW f \in File, ~ Freeing(f)
             PROVE  0 .. blocks_allocated(f) - 1 \subseteq Indices(f)
  OBVIOUS
<1>1. CASE Locked(f)
  <2>1. PICK t \in Thread : call[t].at # "idle" /\ call[t].file = f
    BY <1>1 DEF Locked
  <2>2. Indices(f) = CallIndices(call[t])
    BY <2>1, IndicesOfCall DEF Laid
  <2>3. call[t].at \notin {"freeing", "freeing_indirect"}
    BY <2>1 DEF Freeing
  <2>4. UpTo(call[t].block) \subseteq Indices(f)
    BY <2>2, <2>3 DEF CallIndices
  <2>5. /\ call[t].block \in Nat /\ blocks_allocated(f) \in Nat
        /\ call[t].offset \in 0 .. MAX_FILE_SIZE /\ call[t].to_write \in 0 .. MAX_FILE_SIZE
        /\ call[t].at \in Extending \cup {"filling"}
    BY <2>1, <2>3, Sizes DEF TypeOK, Extending, First
  <2>6. call[t].offset + call[t].to_write \in 0 .. MAX_FILE_SIZE
    BY <2>5, Constants DEF Laid, CallsPlaced, Placed
  <2>7. rw_total_blocks(call[t].offset, call[t].to_write) \in 0 .. MAX_BLOCKS
    BY <2>6, Sizes DEF rw_total_blocks
  <2>8. blocks_allocated(f) <= call[t].block
    BY <2>1, <2>5, <2>7, Constants DEF Laid, CallsPlaced, Placed, AtLeast
  <2> QED
    BY <2>4, <2>5, <2>8 DEF UpTo
<1>2. CASE ~ Locked(f)
  BY <1>2, IndicesUnlocked DEF UpTo
<1> QED
  BY <1>1, <1>2

\* Where a written byte lies, and that a step leaves it there.
LEMMA ByteHeld ==
  ASSUME TypeOK, Laid, health # "damaged", BlocksDistinct, BytesInPlace,
         NEW g \in File, ~ Freeing(g), NEW q \in written[g]
  PROVE  /\ q \in 0 .. MAX_FILE_SIZE - 1 /\ q < inode_table[g].i_size
         /\ q \div BLOCK_SIZE \in Indices(g) /\ q \div BLOCK_SIZE \in Nat
         /\ BlockOf(g, q \div BLOCK_SIZE) \in Block
         /\ CellOf(g, q) \in Address
         /\ CellOf(g, q) \div BLOCK_SIZE = BlockOf(g, q \div BLOCK_SIZE)
         /\ fs_data[CellOf(g, q)] = Data(g, q)
<1>1. q \in 0 .. MAX_FILE_SIZE - 1 /\ inode_table[g].i_size \in 0 .. MAX_FILE_SIZE
  BY DEF TypeOK
<1>2. q < inode_table[g].i_size /\ fs_data[CellOf(g, q)] = Data(g, q)
  BY DEF BytesInPlace
<1>3. q \in 0 .. inode_table[g].i_size - 1
  BY <1>1, <1>2, Constants
<1> DEFINE d == q \div BLOCK_SIZE
           c == q % BLOCK_SIZE
<1>4. d \in 0 .. blocks_allocated(g) - 1
  BY <1>1, <1>3, Sizes DEF blocks_allocated
<1>5. d \in Indices(g)
  BY <1>4, SizeHeld
<1>6. BlockOf(g, d) \in Block
  BY <1>5 DEF BlocksDistinct
<1>7. c \in 0 .. BLOCK_SIZE - 1
  <2>1. q \in Int /\ BLOCK_SIZE \in Nat \ {0}
    BY <1>1, Constants
  <2> QED
    BY <2>1, DivMod
<1>8. CellOf(g, q) = BlockOf(g, d) * BLOCK_SIZE + c
  BY DEF CellOf
<1> HIDE DEF c
<1>9. CellOf(g, q) \in Address /\ CellOf(g, q) \div BLOCK_SIZE = BlockOf(g, d)
  BY <1>6, <1>7, <1>8, Cells
<1>10. d \in Nat
  BY <1>4
<1> QED
  BY <1>1, <1>2, <1>5, <1>6, <1>9, <1>10

\* A byte outside of the blocks that change stays where it is.
LEMMA ByteKept ==
  ASSUME TypeOK, Laid, health # "damaged", BlocksDistinct, BytesInPlace,
         NEW f \in File, NEW K, K \subseteq Indices(f), ChangesOnly(f, K),
         NEW g \in File, ~ Freeing(g),
         \A k \in Indices(g) \ {-1} : BlockOf(g, k)' = BlockOf(g, k),
         NEW q \in written[g], g # f \/ q \div BLOCK_SIZE \notin K
  PROVE  q < inode_table[g].i_size /\ fs_data'[CellOf(g, q)'] = Data(g, q)
<1> DEFINE d == q \div BLOCK_SIZE
<1>1. /\ q < inode_table[g].i_size
      /\ d \in Indices(g) /\ d \in Nat
      /\ CellOf(g, q) \in Address
      /\ CellOf(g, q) \div BLOCK_SIZE = BlockOf(g, d)
      /\ fs_data[CellOf(g, q)] = Data(g, q)
  BY ByteHeld
<1>2. CellOf(g, q)' = CellOf(g, q)
  <2>1. BlockOf(g, d)' = BlockOf(g, d)
    BY <1>1
  <2> QED
    BY <2>1 DEF CellOf
<1> HIDE DEF d
<1>3. ~ \E k \in K : CellOf(g, q) \div BLOCK_SIZE = BlockOf(f, k)
  <2>1. ASSUME NEW k \in K, BlockOf(g, d) = BlockOf(f, k)
        PROVE  FALSE
    <3>1. g = f /\ d = k
      BY <2>1, <1>1 DEF BlocksDistinct
    <3> QED
      BY <3>1, <1>1 DEF d
  <2> QED
    BY <2>1, <1>1
<1>4. fs_data'[CellOf(g, q)] = fs_data[CellOf(g, q)]
  BY <1>1, <1>3 DEF ChangesOnly
<1> QED
  BY <1>1, <1>2, <1>4

\* A step on one file has to care for the bytes of that file only.
LEMMA BytesStep ==
  ASSUME TypeOK, Laid, health # "damaged", BlocksDistinct, BytesInPlace,
         NEW t \in Thread, NEW f \in File, StepOf(t, f),
         NEW K, K \subseteq Indices(f), ChangesOnly(f, K),
         ~ Freeing(f)' => \A q \in written'[f] :
            q < inode_table'[f].i_size /\ fs_data'[CellOf(f, q)'] = Data(f, q)
  PROVE  BytesInPlace'
<1>1. ASSUME NEW g \in File, ~ Freeing(g)', NEW q \in written'[g]
      PROVE  q < inode_table'[g].i_size /\ fs_data'[CellOf(g, q)'] = Data(g, q)
  <2>1. CASE g = f
    BY <1>1, <2>1
  <2>2. CASE g # f
    <3>1. ~ Freeing(g)
      BY <1>1, <2>2, OthersKept DEF Laid
    <3>2. inode_table'[g] = inode_table[g] /\ written'[g] = written[g]
      BY <2>2 DEF StepOf
    <3>3. \A k \in Indices(g) : BlockOf(g, k)' = BlockOf(g, k)
      BY <2>2, OthersNumbers
    <3>4. q \in written[g]
      BY <1>1, <3>2
    <3>5. q < inode_table[g].i_size /\ fs_data'[CellOf(g, q)'] = Data(g, q)
      BY <2>2, <3>1, <3>3, <3>4, ByteKept
    <3> QED
      BY <3>2, <3>5
  <2> QED
    BY <2>1, <2>2
<1> QED
  BY <1>1 DEF BytesInPlace

\* The bytes of a file that is being extended, or whose call only goes on.
LEMMA OwnBytesKept ==
  ASSUME TypeOK, Laid, health # "damaged", BlocksDistinct, BytesInPlace,
         NEW t \in Thread, NEW f \in File, StepOf(t, f),
         NEW K, K \subseteq Indices(f), K \subseteq {-1}, ChangesOnly(f, K),
         ~ Freeing(f) \/ Freeing(f)',
         \A k \in Indices(f) \ {-1} : BlockOf(f, k)' = BlockOf(f, k),
         inode_table'[f].i_size = inode_table[f].i_size, written'[f] = written[f]
  PROVE  BytesInPlace'
<1>1. ASSUME ~ Freeing(f)', NEW q \in written'[f]
      PROVE  q < inode_table'[f].i_size /\ fs_data'[CellOf(f, q)'] = Data(f, q)
  <2>1. ~ Freeing(f) /\ q \in written[f]
    BY <1>1
  <2>3. q \div BLOCK_SIZE \notin K
    <3>1. q \div BLOCK_SIZE \in Nat
      BY <2>1, ByteHeld
    <3> QED
      BY <3>1
  <2>2. q < inode_table[f].i_size /\ fs_data'[CellOf(f, q)'] = Data(f, q)
    BY <2>1, <2>3, ByteKept
  <2> QED
    BY <2>2
<1> QED
  BY <1>1, BytesStep

-----------------------------------------------------------------------------
(* Taking blocks from free_blocks and giving them back *)

\* A FREE block becomes a file's: nothing is shared, nothing lost.
LEMMA AllocStep ==
  ASSUME Owned, health # "damaged", health' = health,
         NEW t \in Thread, NEW f \in File, LocksHeld, StepOf(t, f), NEW k, NEW b \in Block,
         b \in free_blocks, free_blocks' = free_blocks \ {b},
         Indices(f)' = Indices(f) \cup {k}, BlockOf(f, k)' = b,
         \A g \in File : \A j \in Indices(g) :
            BlockOf(g, j)' = BlockOf(g, j)
  PROVE  Owned'
<1>1. \A g \in File \ {f} : Indices(g)' = Indices(g)
  BY OthersKept
<1>2. RootTaken' /\ b # ROOT_BLOCK
  BY DEF Owned, RootTaken
<1>3. ASSUME NEW g \in File, NEW j \in Indices(g)'
      PROVE  \/ j \in Indices(g) /\ BlockOf(g, j)' = BlockOf(g, j)
             \/ g = f /\ j = k /\ BlockOf(g, j)' = b
  BY <1>1, <1>3
<1>4. \A g \in File : \A j \in Indices(g) :
        /\ BlockOf(g, j) \in Block \ (free_blocks \cup {ROOT_BLOCK})
        /\ \A h \in File : \A i \in Indices(h) :
             BlockOf(g, j) = BlockOf(h, i) => g = h /\ j = i
  BY DEF Owned, BlocksDistinct
<1>5. ASSUME NEW g \in File, NEW j \in Indices(g)'
      PROVE  /\ BlockOf(g, j)' \in Block \ (free_blocks' \cup {ROOT_BLOCK})
             /\ \A h \in File : \A i \in Indices(h)' :
                  BlockOf(g, j)' = BlockOf(h, i)' => g = h /\ j = i
  <2>1. BlockOf(g, j)' \in Block \ (free_blocks' \cup {ROOT_BLOCK})
    BY <1>5, <1>2, <1>3, <1>4
  <2>2. ASSUME NEW h \in File, NEW i \in Indices(h)',
               BlockOf(g, j)' = BlockOf(h, i)'
        PROVE  g = h /\ j = i
    BY <1>5, <2>2, <1>3, <1>4
  <2> QED
    BY <2>1, <2>2
<1>6. BlocksDistinct'
  BY <1>5 DEF BlocksDistinct, ROOT_BLOCK
<1>7. BlocksKept'
  <2> SUFFICES ASSUME health = "sound", NEW c \in Block, c \notin free_blocks' \cup {ROOT_BLOCK}
               PROVE  \E g \in File : \E j \in Indices(g)' : BlockOf(g, j)' = c
    BY DEF BlocksKept, ROOT_BLOCK, Block
  <2>1. CASE c = b
    <3>1. k \in Indices(f)'
      OBVIOUS
    <3> QED
      BY <2>1, <3>1
  <2>2. CASE c # b
    <3>1. PICK g \in File : \E j \in Indices(g) : BlockOf(g, j) = c
      BY <2>2 DEF Owned, BlocksKept
    <3>3. PICK j \in Indices(g) : BlockOf(g, j) = c
      BY <3>1
    <3>2. j \in Indices(g)' /\ BlockOf(g, j)' = c
      BY <3>3, <1>1
    <3> QED
      BY <3>2
  <2> QED
    BY <2>1, <2>2
<1> QED
  BY <1>2, <1>6, <1>7 DEF Owned

\* A file's block becomes FREE: nothing is shared, nothing lost.
LEMMA FreeStep ==
  ASSUME Owned, health # "damaged", health' = health,
         NEW t \in Thread, NEW f \in File, LocksHeld, StepOf(t, f), NEW k \in Indices(f),
         free_blocks' = free_blocks \cup {BlockOf(f, k)},
         Indices(f)' = Indices(f) \ {k},
         \A g \in File : \A j \in Indices(g) :
            g # f \/ j # k => BlockOf(g, j)' = BlockOf(g, j)
  PROVE  Owned'
<1>1. \A g \in File \ {f} : Indices(g)' = Indices(g)
  BY OthersKept
<1>4. \A g \in File : \A j \in Indices(g) :
        /\ BlockOf(g, j) \in Block \ (free_blocks \cup {ROOT_BLOCK})
        /\ \A h \in File : \A i \in Indices(h) :
             BlockOf(g, j) = BlockOf(h, i) => g = h /\ j = i
  BY DEF Owned, BlocksDistinct
<1>2. RootTaken'
  BY <1>4 DEF Owned, RootTaken, ROOT_BLOCK
<1>3. ASSUME NEW g \in File, NEW j \in Indices(g)'
      PROVE  /\ j \in Indices(g) /\ BlockOf(g, j)' = BlockOf(g, j)
             /\ g # f \/ j # k
  BY <1>1, <1>3
<1>5. ASSUME NEW g \in File, NEW j \in Indices(g)'
      PROVE  /\ BlockOf(g, j)' \in Block \ (free_blocks' \cup {ROOT_BLOCK})
             /\ \A h \in File : \A i \in Indices(h)' :
                  BlockOf(g, j)' = BlockOf(h, i)' => g = h /\ j = i
  <2>1. BlockOf(g, j)' \in Block \ (free_blocks' \cup {ROOT_BLOCK})
    BY <1>5, <1>3, <1>4
  <2>2. ASSUME NEW h \in File, NEW i \in Indices(h)',
               BlockOf(g, j)' = BlockOf(h, i)'
        PROVE  g = h /\ j = i
    BY <1>5, <2>2, <1>3, <1>4
  <2> QED
    BY <2>1, <2>2
<1>6. BlocksDistinct'
  BY <1>5 DEF BlocksDistinct, ROOT_BLOCK
<1>7. BlocksKept'
  <2> SUFFICES ASSUME health = "sound", NEW c \in Block, c \notin free_blocks' \cup {ROOT_BLOCK}
               PROVE  \E g \in File : \E j \in Indices(g)' : BlockOf(g, j)' = c
    BY DEF BlocksKept, ROOT_BLOCK, Block
  <2>4. PICK g \in File : \E j \in Indices(g) : BlockOf(g, j) = c
    BY DEF Owned, BlocksKept
  <2>1. PICK j \in Indices(g) : BlockOf(g, j) = c
    BY <2>4
  <2>2. g # f \/ j # k
    BY <2>1
  <2>3. j \in Indices(g)' /\ BlockOf(g, j)' = c
    BY <2>1, <2>2, <1>1
  <2> QED
    BY <2>3
<1> QED
  BY <1>2, <1>6, <1>7 DEF Owned

\* A call that takes no block and gives none back.  What it drops is lost.
LEMMA KeepStep ==
  ASSUME Owned, health # "damaged", NEW t \in Thread, NEW f \in File, LocksHeld, StepOf(t, f),
         free_blocks' = free_blocks, Indices(f)' \subseteq Indices(f),
         health' = "sound" => health = "sound" /\ Indices(f)' = Indices(f),
         \A g \in File : \A j \in Indices(g) :
            BlockOf(g, j)' = BlockOf(g, j)
  PROVE  Owned'
<1>1. \A g \in File \ {f} : Indices(g)' = Indices(g)
  BY OthersKept
<1>2. \A g \in File : Indices(g)' \subseteq Indices(g)
  BY <1>1
<1>3. RootTaken'
  BY DEF Owned, RootTaken, ROOT_BLOCK
<1>4. BlocksDistinct'
  BY <1>2 DEF Owned, BlocksDistinct, ROOT_BLOCK
<1>5. BlocksKept'
  <2> SUFFICES ASSUME health' = "sound", NEW c \in Block, c \notin free_blocks \cup {ROOT_BLOCK}
               PROVE  \E g \in File : \E j \in Indices(g)' : BlockOf(g, j)' = c
    BY DEF BlocksKept, ROOT_BLOCK, Block
  <2>4. PICK g \in File : \E j \in Indices(g) : BlockOf(g, j) = c
    BY DEF Owned, BlocksKept
  <2>1. PICK j \in Indices(g) : BlockOf(g, j) = c
    BY <2>4
  <2>2. j \in Indices(g)' /\ BlockOf(g, j)' = c
    BY <2>1, <1>1
  <2> QED
    BY <2>2
<1> QED
  BY <1>3, <1>4, <1>5 DEF Owned

-----------------------------------------------------------------------------
(* Filling blocks *)

Base(f, p) == get_block_number(f, p.block) * BLOCK_SIZE + p.at
Over(f, pieces, a) == {p \in pieces : Base(f, p) <= a /\ a < Base(f, p) + p.len}
Final(f, pieces, a) ==
    CHOOSE p \in Over(f, pieces, a) : \A q \in Over(f, pieces, a) : q.from <= p.from

Buffers == [0 .. MAX_FILE_SIZE - 1 -> Int]

\* The block at an index a write or a read asks for.
LEMMA NumberOf ==
  ASSUME NEW f, NEW k \in Nat
  PROVE  BlockOf(f, k) = get_block_number(f, k)
  BY DEF BlockOf

\* What fill_blocks leaves in a cell: the byte of the last piece over it, if there is one.
LEMMA FillCell ==
  ASSUME NEW f, NEW pieces, NEW buffer, fill_blocks(f, pieces, buffer), NEW a \in Address
  PROVE  fs_data'[a] = IF Over(f, pieces, a) = {} THEN fs_data[a]
                       ELSE buffer[Final(f, pieces, a).from + a
                                    - Base(f, Final(f, pieces, a))]
  BY DEF fill_blocks, Over, Final, Base

\* Whatever piece a cell is filled from, it gets a byte of the buffer.
LEMMA FillTyped ==
  ASSUME TypeOK, NEW f, NEW pieces, NEW buffer \in Buffers, fill_blocks(f, pieces, buffer),
         \A p \in pieces :
            /\ p.from \in Nat /\ p.len \in Nat /\ p.from + p.len <= MAX_FILE_SIZE
            /\ Base(f, p) \in Int,
         \A a \in Address : Over(f, pieces, a) # {} =>
            \E p \in Over(f, pieces, a) : \A q \in Over(f, pieces, a) : q.from <= p.from
  PROVE  fs_data' \in [Address -> Int]
<1>1. ASSUME NEW a \in Address
      PROVE  fs_data'[a] \in Int
  <2>1. CASE Over(f, pieces, a) = {}
    BY <2>1, FillCell DEF TypeOK
  <2>2. CASE Over(f, pieces, a) # {}
    <3> DEFINE p == Final(f, pieces, a)
    <3>1. p \in Over(f, pieces, a)
      BY <2>2 DEF Final
    <3>2. p \in pieces /\ Base(f, p) <= a /\ a < Base(f, p) + p.len
      BY <3>1 DEF Over
    <3>3. fs_data'[a] = buffer[p.from + a - Base(f, p)]
      BY <2>2, FillCell
    <3> HIDE DEF p
    <3>4. a \in Int
      BY DEF Address
    <3>5. p.from \in Nat /\ p.len \in Nat /\ p.from + p.len <= MAX_FILE_SIZE /\ Base(f, p) \in Int
      BY <3>2
    <3>7. MAX_FILE_SIZE \in Nat
      BY Constants
    <3>6. p.from + a - Base(f, p) \in 0 .. MAX_FILE_SIZE - 1
      BY <3>2, <3>4, <3>5, <3>7
    <3> QED
      BY <3>3, <3>6 DEF Buffers
  <2> QED
    BY <2>1, <2>2
<1>2. fs_data' = [x \in Address |-> fs_data'[x]]
  BY DEF fill_blocks
<1> QED
  BY <1>1, <1>2

\* The walk of a write over blocks that its file has.
Walk(f, start, last, o, n) ==
    /\ Spans(start, last, o, n)
    /\ start .. last \subseteq Indices(f)
    /\ n <= MAX_FILE_SIZE

\* The pieces of a walk over the blocks of a file, with numbers that are blocks.
LEMMA WalkPieces ==
  ASSUME health # "damaged", BlocksDistinct, NEW f \in File,
         NEW start, NEW last, NEW o, NEW n, Walk(f, start, last, o, n),
         NEW p \in Pieces(start, last, o, n)
  PROVE  /\ PieceAt(p, start, last, o, n)
         /\ BlockOf(f, p.block) \in Block
         /\ Base(f, p) \in Int
         /\ p.from \in Nat /\ p.len \in Nat /\ p.from + p.len <= MAX_FILE_SIZE
<1>1. PieceAt(p, start, last, o, n)
  BY PieceShape DEF Walk
<1>2. p.block \in start .. last /\ p.at \in 0 .. BLOCK_SIZE - 1 /\ p.from \in Nat /\ p.len \in Nat
      /\ p.from + p.len <= n
  BY <1>1 DEF PieceAt
<1>3. BlockOf(f, p.block) \in Block
  BY <1>2 DEF BlocksDistinct, Walk
<1>4. Base(f, p) \in Int
  <2>1. p.block \in Nat
    BY <1>2 DEF Walk, Spans
  <2> QED
    BY <1>2, <1>3, <2>1, NumberOf, Constants DEF Base, Block
<1>5. n \in Nat /\ n <= MAX_FILE_SIZE /\ MAX_FILE_SIZE \in Nat
  BY Constants DEF Walk, Spans
<1> QED
  BY <1>1, <1>2, <1>3, <1>4, <1>5

\* A cell is filled from the piece of its own block, except that the last
\* piece may go beyond its own.
LEMMA OverPiece ==
  ASSUME health # "damaged", BlocksDistinct, NEW f \in File,
         NEW start, NEW last, NEW o, NEW n, Walk(f, start, last, o, n), NEW a \in Address,
         NEW p \in Over(f, Pieces(start, last, o, n), a),
         p.block # last \/ o + n <= (last - start) * BLOCK_SIZE + BLOCK_SIZE
  PROVE  BlockOf(f, p.block) = a \div BLOCK_SIZE
<1>1. p \in Pieces(start, last, o, n) /\ Base(f, p) <= a /\ a < Base(f, p) + p.len
  BY DEF Over
<1>2. PieceAt(p, start, last, o, n) /\ BlockOf(f, p.block) \in Block
  BY <1>1, WalkPieces
<1>3. start \in Nat /\ last \in Nat /\ o \in 0 .. BLOCK_SIZE - 1 /\ n \in Nat
      /\ BLOCK_SIZE \in Nat \ {0} /\ Spans(start, last, o, n)
  BY Constants DEF Walk, Spans
<1>4. /\ p.at \in 0 .. BLOCK_SIZE - 1 /\ p.len \in Nat /\ p.from \in Nat /\ p.block \in start .. last
      /\ p.from = (p.block - start) * BLOCK_SIZE + p.at - o
      /\ p.from + p.len = IF p.block = last THEN n
                          ELSE (p.block - start) * BLOCK_SIZE + BLOCK_SIZE - o
  BY <1>2 DEF PieceAt
<1>5. p.at + p.len <= BLOCK_SIZE
  <2> DEFINE m == (p.block - start) * BLOCK_SIZE
  <2>1. m \in Int /\ (p.block = last => m = (last - start) * BLOCK_SIZE)
    BY <1>3, <1>4
  <2>2. p.from = m + p.at - o /\ p.from + p.len = IF p.block = last THEN n ELSE m + BLOCK_SIZE - o
    BY <1>4
  <2> HIDE DEF m
  <2> QED
    BY <2>1, <2>2, <1>3, <1>4
<1> DEFINE b == BlockOf(f, p.block)
           d == a \div BLOCK_SIZE
           c == a % BLOCK_SIZE
<1>6. b \in Int /\ d \in Int /\ c \in 0 .. BLOCK_SIZE - 1 /\ a = d * BLOCK_SIZE + c
  BY <1>2, Cells DEF Block
<1>7. b * BLOCK_SIZE + p.at <= a /\ a < b * BLOCK_SIZE + p.at + p.len
  <2>1. b = get_block_number(f, p.block)
    BY <1>3, <1>4, NumberOf
  <2> HIDE DEF b
  <2> QED
    BY <1>1, <2>1 DEF Base
<1> HIDE DEF b, c, d
<1>8. b * BLOCK_SIZE \in Int /\ d * BLOCK_SIZE \in Int
  BY <1>3, <1>6
<1>9. b * BLOCK_SIZE <= d * BLOCK_SIZE + c /\ d * BLOCK_SIZE + c < b * BLOCK_SIZE + BLOCK_SIZE
  BY <1>3, <1>4, <1>5, <1>6, <1>7, <1>8
<1> QED
  BY <1>3, <1>6, <1>9, SameBlock DEF b, d

\* Also a write that overruns its last block leaves bytes in every cell.
LEMMA WalkTyped ==
  ASSUME TypeOK, health # "damaged", BlocksDistinct, NEW f \in File,
         NEW start, NEW last, NEW o, NEW n, Walk(f, start, last, o, n),
         NEW buffer \in Buffers, fill_blocks(f, Pieces(start, last, o, n), buffer)
  PROVE  fs_data' \in [Address -> Int]
<1> DEFINE pieces == Pieces(start, last, o, n)
<1>1. \A p \in pieces :
            /\ p.from \in Nat /\ p.len \in Nat /\ p.from + p.len <= MAX_FILE_SIZE
            /\ Base(f, p) \in Int
  BY WalkPieces
<1>2. ASSUME NEW a \in Address, Over(f, pieces, a) # {}
      PROVE  \E p \in Over(f, pieces, a) : \A q \in Over(f, pieces, a) : q.from <= p.from
  <2>0. \A p \in Over(f, pieces, a) : p \in pieces
    BY DEF Over
  <2>1. CASE \E p \in Over(f, pieces, a) : p.block = last
    <3>1. PICK p \in Over(f, pieces, a) : p.block = last
      BY <2>1
    <3>2. ASSUME NEW q \in Over(f, pieces, a)
          PROVE  q.from <= p.from
      <4>1. PieceAt(p, start, last, o, n) /\ PieceAt(q, start, last, o, n)
        BY <2>0, WalkPieces
      <4>2. CASE q.block = last
        BY <4>1, <4>2, <3>1 DEF PieceAt
      <4>3. CASE q.block # last
        <5>1. /\ q.block \in start .. last - 1 /\ start \in Nat /\ last \in Nat
              /\ o \in 0 .. BLOCK_SIZE - 1 /\ BLOCK_SIZE \in Nat \ {0}
          <6>1. start \in Nat /\ last \in Nat /\ o \in 0 .. BLOCK_SIZE - 1
            BY DEF Walk, Spans
          <6>2. q.block \in start .. last
            BY <4>1 DEF PieceAt
          <6>3. q.block \in start .. last - 1
            BY <6>1, <6>2, <4>3
          <6>4. BLOCK_SIZE \in Nat \ {0}
            BY Constants
          <6> QED
            BY <6>1, <6>3, <6>4
        <5> DEFINE x == (q.block - start) * BLOCK_SIZE
                   y == (last - start) * BLOCK_SIZE
        <5>2. x \in Int /\ y \in Int /\ x + BLOCK_SIZE <= y
          BY <5>1, MulStep
        <5>3. /\ q.from = x + q.at - o /\ p.from = y + p.at - o
              /\ q.at \in 0 .. BLOCK_SIZE - 1 /\ p.at \in 0 .. BLOCK_SIZE - 1
          BY <4>1, <3>1 DEF PieceAt
        <5> HIDE DEF x, y
        <5> QED
          BY <5>1, <5>2, <5>3
      <4> QED
        BY <4>2, <4>3
    <3> QED
      BY <3>2
  <2>2. CASE ~ \E p \in Over(f, pieces, a) : p.block = last
    <3>1. PICK p \in Over(f, pieces, a) : TRUE
      BY <1>2
    <3>2. ASSUME NEW q \in Over(f, pieces, a)
          PROVE  q = p
      <4>1. BlockOf(f, p.block) = BlockOf(f, q.block)
        BY <2>2, OverPiece
      <4>2. p.block \in start .. last /\ q.block \in start .. last
        BY <2>0, WalkPieces DEF PieceAt
      <4>3. p.block \in Indices(f) /\ q.block \in Indices(f)
        BY <4>2 DEF Walk
      <4>4. p.block = q.block
        BY <4>1, <4>3 DEF BlocksDistinct
      <4> QED
        BY <4>4, <2>0, PieceOfBlock DEF Walk
    <3>3. p.from <= p.from
      <4>1. p.from \in Nat
        BY <2>0, <1>1
      <4> QED
        BY <4>1
    <3> QED
      BY <3>2, <3>3
  <2> QED
    BY <2>1, <2>2
<1> HIDE DEF pieces
<1> QED
  BY <1>1, <1>2, FillTyped DEF pieces

\* A write that stays within its blocks changes these only, and puts byte i of
\* the buffer where byte i belongs.
LEMMA WalkFills ==
  ASSUME health # "damaged", BlocksDistinct, NEW f \in File,
         NEW start, NEW last, NEW o, NEW n, Walk(f, start, last, o, n),
         o + n <= (last - start) * BLOCK_SIZE + BLOCK_SIZE,
         NEW buffer, fill_blocks(f, Pieces(start, last, o, n), buffer)
  PROVE  /\ ChangesOnly(f, start .. last)
         /\ \A k \in start .. last : \A c \in 0 .. BLOCK_SIZE - 1 :
              LET a == BlockOf(f, k) * BLOCK_SIZE + c
                  i == (k - start) * BLOCK_SIZE + c - o
              IN fs_data'[a] = IF i \in 0 .. n - 1 THEN buffer[i] ELSE fs_data[a]
<1> DEFINE pieces == Pieces(start, last, o, n)
<1>0. Spans(start, last, o, n)
  BY DEF Walk
<1>1. ChangesOnly(f, start .. last)
  <2> SUFFICES ASSUME NEW a \in Address, fs_data'[a] # fs_data[a]
               PROVE  \E k \in start .. last : a \div BLOCK_SIZE = BlockOf(f, k)
    BY DEF ChangesOnly
  <2>1. Over(f, pieces, a) # {}
    BY FillCell
  <2>2. PICK p \in Over(f, pieces, a) : TRUE
    BY <2>1
  <2>3. BlockOf(f, p.block) = a \div BLOCK_SIZE
    BY OverPiece
  <2>4. p.block \in start .. last
    <3>1. p \in pieces
      BY DEF Over
    <3> QED
      BY <3>1, PieceShape, <1>0 DEF PieceAt
  <2> QED
    BY <2>3, <2>4
<1>2. ASSUME NEW k \in start .. last, NEW c \in 0 .. BLOCK_SIZE - 1
      PROVE  LET a == BlockOf(f, k) * BLOCK_SIZE + c
                 i == (k - start) * BLOCK_SIZE + c - o
             IN fs_data'[a] = IF i \in 0 .. n - 1 THEN buffer[i] ELSE fs_data[a]
  <2> DEFINE b == BlockOf(f, k)
             a == b * BLOCK_SIZE + c
             i == (k - start) * BLOCK_SIZE + c - o
  <2>1. k \in Indices(f) /\ b \in Block
    BY DEF Walk, BlocksDistinct
  <2>2. a \in Address /\ a \div BLOCK_SIZE = b
    BY <2>1, Cells
  <2>3. PICK p \in pieces : p.block = k
    BY <1>0, PieceOfBlock
  <2>4. /\ p.at <= c /\ c < p.at + p.len <=> i \in 0 .. n - 1
        /\ i = p.from + (c - p.at)
    BY <1>0, <2>3, PieceOfByte
  <2>5. p.at \in Nat /\ p.len \in Nat /\ p.from \in Nat
    BY <1>0, PieceShape DEF PieceAt
  <2>6. Base(f, p) = b * BLOCK_SIZE + p.at /\ b * BLOCK_SIZE \in Int
    <3>1. b = get_block_number(f, k)
      <4>1. k \in Nat
        BY DEF Walk, Spans
      <4> QED
        BY <4>1, NumberOf
    <3> QED
      BY <2>1, <2>3, <3>1, Constants DEF Base, Block
  <2>7. p \in Over(f, pieces, a) <=> i \in 0 .. n - 1
    <3>1. p \in Over(f, pieces, a) <=> Base(f, p) <= a /\ a < Base(f, p) + p.len
      BY DEF Over
    <3> DEFINE m == b * BLOCK_SIZE
    <3>2. Base(f, p) = m + p.at /\ m \in Int /\ a = m + c
      BY <2>6
    <3>3. c \in Int
      BY Constants
    <3> HIDE DEF m, i, a
    <3>4. Base(f, p) <= a /\ a < Base(f, p) + p.len <=> p.at <= c /\ c < p.at + p.len
      BY <3>2, <3>3, <2>5
    <3> QED
      BY <3>1, <3>4, <2>4
  <2>8. ASSUME NEW q \in Over(f, pieces, a)
        PROVE  q = p
    <3>1. BlockOf(f, q.block) = b
      BY <2>2, OverPiece
    <3>2. q \in pieces
      BY DEF Over
    <3>3. q.block \in Indices(f)
      BY <3>2, PieceShape, <1>0 DEF PieceAt, Walk
    <3>4. q.block = k
      BY <3>1, <3>3, <2>1 DEF BlocksDistinct
    <3> QED
      BY <3>2, <3>4, <2>3, <1>0, PieceOfBlock
  <2>9. CASE i \in 0 .. n - 1
    <3>1. Over(f, pieces, a) = {p}
      BY <2>7, <2>8, <2>9
    <3>2. Final(f, pieces, a) = p
      <4>1. p.from <= p.from
        BY <2>5
      <4> QED
        BY <3>1, <4>1 DEF Final
    <3>5. fs_data'[a] = IF Over(f, pieces, a) = {} THEN fs_data[a]
                        ELSE buffer[Final(f, pieces, a).from + a
                                    - Base(f, Final(f, pieces, a))]
      BY <2>2, FillCell
    <3>3. fs_data'[a] = buffer[p.from + a - Base(f, p)]
      <4> HIDE DEF a, pieces
      <4> QED
        BY <3>1, <3>2, <3>5
    <3>4. p.from + a - Base(f, p) = i
      <4> DEFINE m == b * BLOCK_SIZE
      <4>1. Base(f, p) = m + p.at /\ m \in Int /\ a = m + c
        BY <2>6
      <4>2. c \in Int
        BY Constants
      <4> HIDE DEF m, i, a
      <4> QED
        BY <4>1, <4>2, <2>4, <2>5
    <3> QED
      BY <2>9, <3>3, <3>4
  <2>10. CASE i \notin 0 .. n - 1
    <3>1. Over(f, pieces, a) = {}
      BY <2>7, <2>8, <2>10
    <3> QED
      BY <2>2, <2>10, <3>1, FillCell
  <2> QED
    BY <2>9, <2>10
<1> QED
  BY <1>1, <1>2

-----------------------------------------------------------------------------
(* The steps of the calls *)

Steps == {"idle", "freeing", "freeing_indirect", "allocating", "allocating_first",
          "filling", "failing", "failing_first"}
Inodes == [i_size : 0 .. MAX_FILE_SIZE, i_direct_data_blocks : [Direct -> Block \cup {-1}],
           i_indirect_data_block : Block \cup {-1}]
Calls == [at : Steps, file : File \cup {NoFile}, block : 0 .. MAX_BLOCKS,
          offset : 0 .. MAX_FILE_SIZE, to_write : 0 .. MAX_FILE_SIZE]

\* TypeOK in the words the other lemmas use ...
LEMMA Typing ==
  TypeOK <=>
    /\ inode_table \in [File -> Inodes] /\ free_blocks \subseteq Block
    /\ fs_data \in [Address -> Int] /\ call \in [Thread -> Calls]
    /\ reached \in [File -> 0 .. MAX_FILE_SIZE]
    /\ written \in [File -> SUBSET (0 .. MAX_FILE_SIZE - 1)]
    /\ health \in {"sound", "leaking", "damaged"}
BY DEF TypeOK, Inodes, Calls, Steps

\* ... and after a step.
LEMMA TypingNext ==
  ASSUME inode_table' \in [File -> Inodes], free_blocks' \subseteq Block,
         fs_data' \in [Address -> Int], call' \in [Thread -> Calls],
         reached' \in [File -> 0 .. MAX_FILE_SIZE],
         written' \in [File -> SUBSET (0 .. MAX_FILE_SIZE - 1)],
         health' \in {"sound", "leaking", "damaged"}
  PROVE  TypeOK'
BY DEF TypeOK, Inodes, Calls, Steps, Block, Address, Direct, MAX_FILE_SIZE, MAX_BLOCKS, NoFile

\* A call that goes on keeps its file, offset and length.
LEMMA GotoCall ==
  ASSUME TypeOK, NEW t \in Thread, NEW step \in Steps, NEW k \in 0 .. MAX_BLOCKS,
         Goto(t, step, k)
  PROVE  /\ call' \in [Thread -> Calls]
         /\ \A u \in Thread \ {t} : call'[u] = call[u]
         /\ call'[t].at = step /\ call'[t].block = k
         /\ call'[t].file = call[t].file /\ call'[t].offset = call[t].offset
         /\ call'[t].to_write = call[t].to_write
BY Typing DEF Goto, Calls

\* A call that returns is idle, and the others are where they were.
LEMMA ReturnCall ==
  ASSUME TypeOK, NEW t \in Thread, Return(t)
  PROVE  /\ call' \in [Thread -> Calls]
         /\ \A u \in Thread \ {t} : call'[u] = call[u]
         /\ call'[t].at = "idle"
<1>1. Idle \in Calls
  BY Constants DEF Idle, Calls, Steps
<1> QED
  BY <1>1, Typing DEF Return, Idle

\* Nothing is asked of a call that has returned.
LEMMA IdlePlaced ==
  ASSUME NEW t \in Thread, call'[t].at = "idle"
  PROVE  Placed(t)'
BY DEF Placed, First, Extending

\* The call of a thread that is in one.
LEMMA InCall ==
  ASSUME TypeOK, Laid, NEW t \in Thread, call[t].at # "idle"
  PROVE  /\ call[t].file \in File /\ Locked(call[t].file)
         /\ call[t].block \in 0 .. MAX_BLOCKS
         /\ call[t].offset \in 0 .. MAX_FILE_SIZE /\ call[t].to_write \in 0 .. MAX_FILE_SIZE
         /\ Indices(call[t].file) = CallIndices(call[t])
         /\ Placed(t)
         /\ Freeing(call[t].file) => call[t].at \in {"freeing", "freeing_indirect"}
<1>1. call[t].file \in File /\ Locked(call[t].file)
  BY DEF Laid, LocksHeld, Locked
<1>2. Freeing(call[t].file) => call[t].at \in {"freeing", "freeing_indirect"}
  <2>1. ASSUME NEW u \in Thread, call[u].at \in {"freeing", "freeing_indirect"},
               call[u].file = call[t].file
        PROVE  u = t
    BY <2>1 DEF Laid, LocksHeld
  <2> QED
    BY <2>1 DEF Freeing
<1>3. /\ call[t].block \in 0 .. MAX_BLOCKS
      /\ call[t].offset \in 0 .. MAX_FILE_SIZE /\ call[t].to_write \in 0 .. MAX_FILE_SIZE
  BY Typing DEF Calls
<1>4. Indices(call[t].file) = CallIndices(call[t]) /\ Placed(t)
  BY IndicesOfCall DEF Laid, CallsPlaced
<1> QED
  BY <1>1, <1>2, <1>3, <1>4

\* Locks and calls together.
LEMMA LaidKept ==
  ASSUME Laid, NEW t \in Thread, NEW f \in File, StepOf(t, f), Placed(t)'
  PROVE  Laid'
BY LocksKept, PlacedKept DEF Laid

-----------------------------------------------------------------------------
(* tfs_open with TFS_O_TRUNC *)

\* data_block_free gives a block back, and what was in it, and in no other, is lost.
LEMMA BlockFreed ==
  ASSUME TypeOK, NEW b \in Block, data_block_free(b)
  PROVE  /\ free_blocks' = free_blocks \cup {b} /\ free_blocks' \subseteq Block
         /\ fs_data' \in [Address -> Int]
         /\ \A a \in Address : fs_data'[a] # fs_data[a] => a \div BLOCK_SIZE = b
BY Typing DEF data_block_free, Junk

\* A truncation gives back the block at one of its indices.
LEMMA FreeCore ==
  ASSUME IInv, health # "damaged", health' = health,
         NEW t \in Thread, NEW f \in File, StepOf(t, f), NEW k \in Indices(f),
         k = -1 => \A j \in Indices(f) : j < MAX_DIRECT,
         data_block_free(BlockOf(f, k)),
         Indices(f)' = Indices(f) \ {k},
         /\ inode_table'[f].i_direct_data_blocks = inode_table[f].i_direct_data_blocks
         /\ inode_table'[f].i_indirect_data_block = inode_table[f].i_indirect_data_block,
         Freeing(f)' \/ written'[f] = {}
  PROVE  Owned' /\ BytesInPlace' /\ free_blocks' \subseteq Block /\ fs_data' \in [Address -> Int]
<1>i. TypeOK /\ Laid /\ LocksHeld /\ Owned /\ BlocksDistinct /\ BytesInPlace
  BY DEF IInv, Owned, Laid
<1>1. BlockOf(f, k) \in Block
  BY <1>i DEF BlocksDistinct
<1>2. /\ free_blocks' = free_blocks \cup {BlockOf(f, k)} /\ free_blocks' \subseteq Block
      /\ fs_data' \in [Address -> Int]
      /\ ChangesOnly(f, {k})
  BY <1>i, <1>1, BlockFreed DEF ChangesOnly
<1>3. {k} \subseteq Indices(f)
  OBVIOUS
<1>4. \A g \in File \ {f} : \A j \in Indices(g) :
        BlockOf(g, j)' = BlockOf(g, j)
  BY <1>i, <1>2, <1>3, OthersNumbers
<1>5. ASSUME NEW j \in Indices(f), j # k
      PROVE  BlockOf(f, j)' = BlockOf(f, j)
  <2>1. j >= MAX_DIRECT => k # -1
    <3>1. j \in Int /\ MAX_DIRECT \in Int
      BY <1>i, IndicesRange, Constants
    <3> QED
      BY <3>1
  <2>2. j >= MAX_DIRECT =>
          LET a == BlockOf(f, -1) * BLOCK_SIZE + (j - MAX_DIRECT)
          IN fs_data'[a] = fs_data[a]
    BY <1>i, <1>2, <1>3, <2>1, IndirectCellKept
  <2> QED
    BY <1>i, <2>2, NumberKept
<1>6. Owned'
  <2>1. \A g \in File : \A j \in Indices(g) :
            g # f \/ j # k => BlockOf(g, j)' = BlockOf(g, j)
    BY <1>4, <1>5
  <2> QED
    BY <1>i, <1>2, <2>1, FreeStep
<1>7. BytesInPlace'
  <2>1. ~ Freeing(f)' => \A q \in written'[f] :
            q < inode_table'[f].i_size /\ fs_data'[CellOf(f, q)'] = Data(f, q)
    OBVIOUS
  <2> QED
    BY <1>i, <1>2, <1>3, <2>1, BytesStep
<1> QED
  BY <1>2, <1>6, <1>7

\* One more block of a truncated file is free: common to free_block and free_indirect_block.
LEMMA FreeNext ==
  ASSUME IInv, health # "damaged", NEW t \in Thread,
         call[t].at \in {"freeing", "freeing_indirect"},
         NEW k \in Indices(call[t].file),
         data_block_free(BlockOf(call[t].file, k)),
         NEW j \in 0 .. MAX_BLOCKS - 1, free_next(t, j),
         Indices(call[t].file) \ {k} = UpTo(j), k = -1 => j <= MAX_DIRECT,
         UNCHANGED <<reached, health>>
  PROVE  IInv'
<1>i. TypeOK /\ Laid /\ LocksHeld
  BY DEF IInv, Laid
<1>1. PICK f \in File : f = call[t].file
  BY <1>i, InCall
<1>6. /\ k \in Indices(f) /\ data_block_free(BlockOf(f, k))
      /\ Indices(f) \ {k} = UpTo(j)
  BY <1>1
<1>2. k = -1 => \A i \in Indices(f) : i < MAX_DIRECT
  <2> SUFFICES ASSUME k = -1, NEW i \in Indices(f)
               PROVE  i < MAX_DIRECT
    OBVIOUS
  <2>1. i = -1 \/ i \in UpTo(j)
    BY <1>6
  <2>2. j <= MAX_DIRECT /\ j \in Int /\ MAX_DIRECT \in Nat
    BY Constants
  <2> QED
    BY <2>1, <2>2 DEF UpTo
<1>3. ASSUME j = 0
      PROVE  /\ StepOf(t, f) /\ Laid' /\ Indices(f)' = UpTo(j)
             /\ inode_table' \in [File -> Inodes] /\ call' \in [Thread -> Calls]
             /\ written' \in [File -> SUBSET (0 .. MAX_FILE_SIZE - 1)]
             /\ inode_table'[f].i_direct_data_blocks = inode_table[f].i_direct_data_blocks
             /\ inode_table'[f].i_indirect_data_block = inode_table[f].i_indirect_data_block
             /\ Freeing(f)' \/ written'[f] = {}
  <2>1. /\ inode_table' = [inode_table EXCEPT ![f].i_size = 0]
        /\ written' = [written EXCEPT ![f] = {}]
        /\ Return(t)
    BY <1>1, <1>3 DEF free_next, truncated
  <2>2. /\ inode_table' \in [File -> Inodes]
        /\ inode_table'[f].i_direct_data_blocks = inode_table[f].i_direct_data_blocks
        /\ inode_table'[f].i_indirect_data_block = inode_table[f].i_indirect_data_block
        /\ inode_table'[f].i_size = 0
        /\ \A g \in File \ {f} : inode_table'[g] = inode_table[g]
    <3>1. 0 \in 0 .. MAX_FILE_SIZE
      BY Constants
    <3> QED
      BY <1>i, <1>1, <2>1, <3>1, Typing DEF Inodes
  <2>3. written' \in [File -> SUBSET (0 .. MAX_FILE_SIZE - 1)] /\ written'[f] = {}
        /\ \A g \in File \ {f} : written'[g] = written[g]
    BY <1>i, <1>1, <2>1, Typing
  <2>4. /\ call' \in [Thread -> Calls]
        /\ \A u \in Thread \ {t} : call'[u] = call[u]
        /\ call'[t].at = "idle"
    BY <1>i, <2>1, ReturnCall
  <2>5. StepOf(t, f)
    BY <1>1, <2>2, <2>3, <2>4 DEF StepOf
  <2>6. Laid'
    BY <1>i, <1>1, <2>4, <2>5, IdlePlaced, LaidKept
  <2>7. Indices(f)' = UpTo(j)
    <3>1. blocks_allocated(f)' = 0
      <4>1. BLOCK_SIZEOF(0) = 0
        BY Constants, Sizes
      <4> QED
        BY <4>1, <2>2 DEF blocks_allocated, BLOCK_SIZEOF
    <3>2. Indices(f)' = UpTo(blocks_allocated(f)')
      BY <1>i, <1>1, <2>4, <2>5, OwnIndices
    <3> QED
      BY <3>1, <3>2, <1>3
  <2> QED
    BY <2>2, <2>3, <2>4, <2>5, <2>6, <2>7
<1>4. ASSUME j # 0
      PROVE  /\ StepOf(t, f) /\ Laid' /\ Indices(f)' = UpTo(j)
             /\ inode_table' \in [File -> Inodes] /\ call' \in [Thread -> Calls]
             /\ written' \in [File -> SUBSET (0 .. MAX_FILE_SIZE - 1)]
             /\ inode_table'[f].i_direct_data_blocks = inode_table[f].i_direct_data_blocks
             /\ inode_table'[f].i_indirect_data_block = inode_table[f].i_indirect_data_block
             /\ Freeing(f)' \/ written'[f] = {}
  <2>1. Goto(t, "freeing", j - 1) /\ UNCHANGED <<inode_table, written>>
    BY <1>4 DEF free_next
  <2>2. j - 1 \in 0 .. MAX_BLOCKS /\ j - 1 < MAX_BLOCKS /\ (j - 1) + 1 = j
    BY <1>4, Constants
  <2>3. /\ call' \in [Thread -> Calls]
        /\ \A u \in Thread \ {t} : call'[u] = call[u]
        /\ call'[t].at = "freeing" /\ call'[t].block = j - 1 /\ call'[t].file = f
    BY <1>i, <1>1, <2>1, <2>2, GotoCall DEF Steps
  <2>4. StepOf(t, f)
    BY <1>1, <2>1, <2>3 DEF StepOf
  <2>5. Placed(t)'
    BY <2>2, <2>3 DEF Placed, First, Extending, MAX_BLOCKS
  <2>6. Laid'
    BY <1>i, <1>1, <2>4, <2>5, LaidKept
  <2>7. Indices(f)' = UpTo(j)
    <3>1. Indices(f)' = CallIndices(call'[t])
      BY <1>i, <1>1, <2>3, <2>4, OwnIndices
    <3>2. CallIndices(call'[t]) = UpTo(call'[t].block + 1)
      BY <2>3 DEF CallIndices, First
    <3>3. call'[t].block + 1 = j
      BY <2>2, <2>3
    <3> QED
      BY <3>1, <3>2, <3>3
  <2>8. Freeing(f)'
    BY <2>3 DEF Freeing
  <2> QED
    BY <1>i, <2>1, <2>3, <2>4, <2>6, <2>7, <2>8, Typing
<1>5. /\ StepOf(t, f) /\ Laid' /\ Indices(f)' = Indices(f) \ {k}
      /\ inode_table' \in [File -> Inodes] /\ call' \in [Thread -> Calls]
      /\ written' \in [File -> SUBSET (0 .. MAX_FILE_SIZE - 1)]
      /\ inode_table'[f].i_direct_data_blocks = inode_table[f].i_direct_data_blocks
      /\ inode_table'[f].i_indirect_data_block = inode_table[f].i_indirect_data_block
      /\ Freeing(f)' \/ written'[f] = {}
  BY <1>3, <1>4, <1>6
<1>7. Owned' /\ BytesInPlace' /\ free_blocks' \subseteq Block /\ fs_data' \in [Address -> Int]
  BY <1>1, <1>2, <1>5, <1>6, FreeCore
<1>8. TypeOK'
  BY <1>i, <1>5, <1>7, Typing, TypingNext
<1> QED
  BY <1>5, <1>7, <1>8 DEF IInv

\* tfs_open with TFS_O_TRUNC.
LEMMA OpenTruncate ==
  ASSUME IInv, NEW t \in Thread, NEW f \in File, open_truncate(t, f)
  PROVE  IInv'
<1>i. TypeOK /\ Laid /\ LocksHeld /\ Owned /\ BlocksDistinct /\ BytesInPlace
  BY DEF IInv, Owned, Laid
<1>1. /\ health # "damaged" /\ call[t].at = "idle" /\ ~ Locked(f) /\ inode_table[f].i_size > 0
      /\ call' = [call EXCEPT ![t] = [at |-> "freeing", file |-> f,
                                      block |-> blocks_allocated(f) - 1,
                                      offset |-> 0, to_write |-> 0]]
      /\ UNCHANGED <<inode_table, free_blocks, fs_data, reached, written, health>>
  BY DEF open_truncate, At
<1>2. blocks_allocated(f) \in 1 .. MAX_BLOCKS
  <2>1. inode_table[f].i_size \in 0 .. MAX_FILE_SIZE
    BY <1>i, Typing DEF Inodes
  <2>2. BLOCK_SIZEOF(inode_table[f].i_size) \in 0 .. MAX_BLOCKS
        /\ BLOCK_SIZEOF(inode_table[f].i_size) > 0
    BY <1>1, <2>1, Sizes
  <2> QED
    BY <2>2, Constants DEF blocks_allocated
<1> DEFINE k == blocks_allocated(f) - 1
<1>3. k \in 0 .. MAX_BLOCKS - 1 /\ k + 1 = blocks_allocated(f)
  BY <1>2, Constants
<1> HIDE DEF k
<1>4. [at |-> "freeing", file |-> f, block |-> k, offset |-> 0, to_write |-> 0] \in Calls
  BY <1>3, Constants DEF Calls, Steps
<1>5. /\ call' \in [Thread -> Calls]
      /\ \A u \in Thread \ {t} : call'[u] = call[u]
      /\ call'[t].at = "freeing" /\ call'[t].block = k /\ call'[t].file = f
  BY <1>i, <1>1, <1>4, Typing DEF k
<1>6. StepOf(t, f)
  BY <1>1, <1>5 DEF StepOf
<1>7. Placed(t)'
  BY <1>3, <1>5, Constants DEF Placed, First, Extending, MAX_BLOCKS
<1>8. Laid'
  BY <1>i, <1>6, <1>7, LaidKept
<1>9. Indices(f)' = Indices(f)
  <2>1. Indices(f) = UpTo(k + 1)
    BY <1>i, <1>1, <1>3, <1>6, OwnIndices
  <2>2. Indices(f)' = CallIndices(call'[t])
    BY <1>i, <1>5, <1>6, OwnIndices
  <2>3. CallIndices(call'[t]) = UpTo(call'[t].block + 1)
    BY <1>5 DEF CallIndices, First
  <2> QED
    BY <2>1, <2>2, <2>3, <1>5
<1>10. \A g \in File : \A j \in Indices(g) : BlockOf(g, j)' = BlockOf(g, j)
  BY <1>1 DEF BlockOf, get_block_number
<1>11. Owned'
  BY <1>i, <1>1, <1>6, <1>9, <1>10, KeepStep
<1>12. BytesInPlace'
  <2>1. Freeing(f)'
    BY <1>5 DEF Freeing
  <2>2. ChangesOnly(f, {}) /\ {} \subseteq Indices(f)
    BY <1>1 DEF ChangesOnly
  <2> QED
    BY <1>i, <1>1, <1>6, <2>1, <2>2, BytesStep
<1>13. TypeOK'
  BY <1>i, <1>1, <1>5, Typing, TypingNext
<1> QED
  BY <1>8, <1>11, <1>12, <1>13 DEF IInv

\* inode_truncate, a direct block or one that the indirect block names.
LEMMA FreeBlock ==
  ASSUME IInv, NEW t \in Thread, free_block(t)
  PROVE  IInv'
<1>i. TypeOK /\ Laid /\ LocksHeld
  BY DEF IInv, Laid
<1>1. PICK k : k = call[t].block
  OBVIOUS
<1>2. /\ health # "damaged" /\ call[t].at = "freeing"
      /\ data_block_free(get_block_number(call[t].file, k))
      /\ IF k = MAX_DIRECT
         THEN Goto(t, "freeing_indirect", k) /\ UNCHANGED <<inode_table, written>>
         ELSE free_next(t, k)
      /\ UNCHANGED <<reached, health>>
  BY <1>1 DEF free_block, At
<1>3. PICK f \in File : f = call[t].file
  BY <1>i, <1>2, InCall
<1>4. k \in 0 .. MAX_BLOCKS - 1
  BY <1>i, <1>1, <1>2, InCall, Constants DEF Placed
<1>10. data_block_free(BlockOf(f, k))
  <2>1. k \in Nat
    BY <1>4
  <2> QED
    BY <1>2, <1>3, <2>1, NumberOf
<1>5. Indices(f) = UpTo(k + 1)
  <2>1. Indices(f) = CallIndices(call[t])
    BY <1>i, <1>2, <1>3, InCall
  <2> QED
    BY <1>1, <1>2, <2>1 DEF CallIndices, First
<1>6. k \in Indices(f)
  BY <1>4, <1>5, Constants DEF UpTo
<1>7. ASSUME k # MAX_DIRECT
      PROVE  IInv'
  <2>1. Indices(f) \ {k} = UpTo(k)
    BY <1>4, <1>5, <1>7, Constants DEF UpTo
  <2>2. k # -1
    BY <1>4, Constants
  <2>3. free_next(t, k)
    BY <1>2, <1>7
  <2> QED
    BY <1>10, <1>2, <1>3, <1>4, <1>6, <2>1, <2>2, <2>3, FreeNext
<1>8. ASSUME k = MAX_DIRECT
      PROVE  IInv'
  <2>1. /\ call' \in [Thread -> Calls]
        /\ \A u \in Thread \ {t} : call'[u] = call[u]
        /\ call'[t].at = "freeing_indirect" /\ call'[t].block = k /\ call'[t].file = f
    <3>1. k \in 0 .. MAX_BLOCKS
      BY <1>4, Constants
    <3>2. Goto(t, "freeing_indirect", k)
      BY <1>2, <1>8
    <3> QED
      BY <1>i, <1>3, <3>1, <3>2, GotoCall DEF Steps
  <2>2. StepOf(t, f)
    BY <1>2, <1>3, <1>8, <2>1 DEF StepOf
  <2>3. Placed(t)'
    BY <1>8, <2>1 DEF Placed, First, Extending
  <2>4. Laid'
    BY <1>i, <2>2, <2>3, LaidKept
  <2>5. Indices(f)' = Indices(f) \ {k}
    <3>1. Indices(f)' = CallIndices(call'[t])
      BY <1>i, <2>1, <2>2, OwnIndices
    <3>2. CallIndices(call'[t]) = UpTo(k) \cup {-1}
      BY <2>1 DEF CallIndices, First
    <3>3. UpTo(k) \cup {-1} = UpTo(k + 1) \ {k}
      BY <1>8, Constants DEF UpTo
    <3> QED
      BY <3>1, <3>2, <3>3, <1>5
  <2>6. Freeing(f)'
    BY <2>1 DEF Freeing
  <2>7. inode_table' = inode_table /\ written' = written
    BY <1>2, <1>8
  <2>8. k # -1
    BY <1>4, Constants
  <2>9. Owned' /\ BytesInPlace' /\ free_blocks' \subseteq Block /\ fs_data' \in [Address -> Int]
    BY <1>10, <1>2, <1>3, <1>6, <2>2, <2>5, <2>6, <2>7, <2>8, FreeCore
  <2>10. TypeOK'
    BY <1>i, <1>2, <2>1, <2>7, <2>9, Typing, TypingNext
  <2> QED
    BY <2>4, <2>9, <2>10 DEF IInv
<1> QED
  BY <1>7, <1>8

\* inode_truncate, the indirect block itself, after all that it names.
LEMMA FreeIndirectBlock ==
  ASSUME IInv, NEW t \in Thread, free_indirect_block(t)
  PROVE  IInv'
<1>i. TypeOK /\ Laid /\ LocksHeld
  BY DEF IInv, Laid
<1>1. /\ health # "damaged" /\ call[t].at = "freeing_indirect"
      /\ data_block_free(inode_table[call[t].file].i_indirect_data_block)
      /\ free_next(t, call[t].block)
      /\ UNCHANGED <<reached, health>>
  BY DEF free_indirect_block, At
<1>2. call[t].file \in File /\ call[t].block = MAX_DIRECT
      /\ Indices(call[t].file) = CallIndices(call[t])
  BY <1>i, <1>1, InCall DEF Placed
<1>3. Indices(call[t].file) = UpTo(MAX_DIRECT) \cup {-1}
  BY <1>1, <1>2 DEF CallIndices, First
<1>4. Indices(call[t].file) \ {-1} = UpTo(MAX_DIRECT)
  BY <1>3, Constants DEF UpTo
<1>5. data_block_free(BlockOf(call[t].file, -1))
  BY <1>1, <1>2, NumberCases
<1>6. MAX_DIRECT \in 0 .. MAX_BLOCKS - 1 /\ MAX_DIRECT <= MAX_DIRECT
  BY Constants
<1>7. -1 \in Indices(call[t].file)
  BY <1>3
<1>8. free_next(t, MAX_DIRECT)
  BY <1>1, <1>2
<1> QED
  BY <1>1, <1>4, <1>5, <1>6, <1>7, <1>8, FreeNext

-----------------------------------------------------------------------------
(* tfs_write *)

\* tfs_write, up to the blocks it needs.
LEMMA WriteBegin ==
  ASSUME IInv, NEW t \in Thread, NEW w \in Writes, write_begin(t, w)
  PROVE  IInv'
<1>i. TypeOK /\ Laid /\ LocksHeld /\ Owned /\ BlocksDistinct /\ BytesInPlace
  BY DEF IInv, Owned, Laid
<1>1. PICK f \in File : f = w.file
  BY BlockAssumption
<1>2. PICK offset \in Nat : offset = w.offset
  BY BlockAssumption
<1>3. PICK n : n = AtMost(w.len, MAX_FILE_SIZE - offset)
  OBVIOUS
<1>4. PICK has : has = blocks_allocated(f)
  OBVIOUS
<1>5. PICK step : step = IF has < rw_total_blocks(offset, n) THEN "allocating" ELSE "filling"
  OBVIOUS
<1>6. /\ health # "damaged" /\ call[t].at = "idle" /\ ~ Locked(f)
      /\ offset <= reached[f] /\ n > 0
      /\ call' = [call EXCEPT ![t] = [at |-> step, file |-> f, block |-> has,
                                      offset |-> offset, to_write |-> n]]
      /\ UNCHANGED <<inode_table, free_blocks, fs_data, reached, written, health>>
  BY <1>1, <1>2, <1>3, <1>4, <1>5 DEF write_begin, At
<1>7. /\ has \in 0 .. MAX_BLOCKS /\ offset \in 0 .. MAX_FILE_SIZE /\ n \in 1 .. MAX_FILE_SIZE
      /\ offset + n \in 0 .. MAX_FILE_SIZE
  <2>1. has \in 0 .. MAX_BLOCKS
    BY <1>i, <1>4, Sizes
  <2>2. offset <= MAX_FILE_SIZE /\ MAX_FILE_SIZE \in Nat
    <3>1. reached[f] \in 0 .. MAX_FILE_SIZE
      BY <1>i, Typing
    <3>2. MAX_FILE_SIZE \in Nat
      BY Constants
    <3> QED
      BY <1>6, <3>1, <3>2
  <2>3. w.len \in Nat
    BY BlockAssumption
  <2>4. n \in Int /\ n <= MAX_FILE_SIZE - offset
    BY <1>3, <2>2, <2>3 DEF AtMost
  <2> QED
    BY <1>6, <2>1, <2>2, <2>4
<1>8. PICK needs \in 0 .. MAX_BLOCKS : needs = rw_total_blocks(offset, n)
  BY <1>7, Sizes DEF rw_total_blocks
<1>9. step \in {"allocating", "filling"} /\ (step = "allocating" => has < needs)
      /\ (step = "filling" => has = AtLeast(has, needs))
  BY <1>5, <1>8 DEF AtLeast
<1>10. /\ call' \in [Thread -> Calls]
       /\ \A u \in Thread \ {t} : call'[u] = call[u]
       /\ call'[t].at = step /\ call'[t].block = has /\ call'[t].file = f
       /\ call'[t].offset = offset /\ call'[t].to_write = n
  <2>1. n \in 0 .. MAX_FILE_SIZE /\ step \in Steps
    BY <1>7, <1>9, Constants DEF Steps
  <2>2. [at |-> step, file |-> f, block |-> has, offset |-> offset, to_write |-> n] \in Calls
    BY <1>7, <2>1 DEF Calls
  <2> QED
    BY <1>i, <1>6, <2>2, Typing
<1>11. StepOf(t, f)
  BY <1>6, <1>10 DEF StepOf
<1>12. blocks_allocated(f)' = has
  BY <1>4, <1>6 DEF blocks_allocated
<1>13. Placed(t)'
  <2>1. rw_total_blocks(call'[t].offset, call'[t].to_write) = needs
    BY <1>8, <1>10
  <2>2. n > 0 /\ offset + n <= MAX_FILE_SIZE /\ has <= has
    BY <1>7, Constants
  <2> QED
    BY <1>9, <1>10, <1>12, <2>1, <2>2
    DEF Placed, First, Extending, rw_total_blocks, BLOCK_SIZEOF, AtLeast, MAX_FILE_SIZE, MAX_BLOCKS
<1>14. Laid'
  BY <1>i, <1>11, <1>13, LaidKept
<1>15. Indices(f)' = Indices(f)
  <2>1. Indices(f) = UpTo(has)
    BY <1>i, <1>4, <1>6, <1>11, OwnIndices
  <2>2. Indices(f)' = CallIndices(call'[t])
    BY <1>i, <1>9, <1>10, <1>11, OwnIndices
  <2>3. CallIndices(call'[t]) = UpTo(call'[t].block)
    BY <1>9, <1>10 DEF CallIndices, First
  <2> QED
    BY <2>1, <2>2, <2>3, <1>10
<1>16. \A g \in File : \A j \in Indices(g) : BlockOf(g, j)' = BlockOf(g, j)
  BY <1>6 DEF BlockOf, get_block_number
<1>17. Owned'
  BY <1>i, <1>6, <1>11, <1>15, <1>16, KeepStep
<1>18. BytesInPlace'
  <2>1. ChangesOnly(f, {}) /\ {} \subseteq Indices(f) /\ {} \subseteq {-1}
    BY <1>6 DEF ChangesOnly
  <2>2. ~ Freeing(f)
    BY <1>6 DEF Freeing, Locked
  <2> QED
    BY <1>i, <1>6, <1>11, <1>16, <2>1, <2>2, OwnBytesKept
<1>19. TypeOK'
  BY <1>i, <1>6, <1>10, Typing, TypingNext
<1> QED
  BY <1>14, <1>17, <1>18, <1>19 DEF IInv

\* Where allocate_per_block stores the block it takes.
LEMMA AllocFrame ==
  ASSUME TypeOK, NEW f \in File, NEW k \in -1 .. MAX_BLOCKS - 1, NEW b \in Block,
         IsFirst(b, free_blocks), free_blocks' = free_blocks \ {b},
         \/ /\ k = -1
            /\ inode_table' = [inode_table EXCEPT ![f].i_indirect_data_block = b]
            /\ UNCHANGED fs_data
         \/ /\ k \in Direct
            /\ inode_table' = [inode_table EXCEPT ![f].i_direct_data_blocks[k] = b]
            /\ UNCHANGED fs_data
         \/ /\ k >= MAX_DIRECT
            /\ fs_data' = [fs_data EXCEPT
                    ![inode_table[f].i_indirect_data_block * BLOCK_SIZE
                        + (k - MAX_DIRECT)] = b]
            /\ UNCHANGED inode_table
  PROVE  /\ inode_table' \in [File -> Inodes] /\ free_blocks' \subseteq Block
         /\ fs_data' \in [Address -> Int]
         /\ \A g \in File \ {f} : inode_table'[g] = inode_table[g]
         /\ inode_table'[f].i_size = inode_table[f].i_size
         /\ b \in free_blocks
         /\ \A j \in Direct : inode_table'[f].i_direct_data_blocks[j] =
                IF j = k THEN b ELSE inode_table[f].i_direct_data_blocks[j]
         /\ inode_table'[f].i_indirect_data_block =
                IF k = -1 THEN b ELSE inode_table[f].i_indirect_data_block
         /\ IF k >= MAX_DIRECT
            THEN \A a \in Address : fs_data'[a] =
                    IF a = inode_table[f].i_indirect_data_block * BLOCK_SIZE + (k - MAX_DIRECT)
                    THEN b ELSE fs_data[a]
            ELSE fs_data' = fs_data
<1>1. inode_table \in [File -> Inodes] /\ fs_data \in [Address -> Int] /\ free_blocks \subseteq Block
  BY Typing
<1>2. b \in free_blocks /\ b \in Int
  BY DEF IsFirst, Block
<1>3. CASE /\ k = -1
           /\ inode_table' = [inode_table EXCEPT ![f].i_indirect_data_block = b]
           /\ UNCHANGED fs_data
  <2>1. -1 \notin Direct /\ ~ -1 >= MAX_DIRECT
    BY Constants
  <2>2. inode_table' \in [File -> Inodes]
    BY <1>1, <1>3 DEF Inodes
  <2>3. /\ \A g \in File \ {f} : inode_table'[g] = inode_table[g]
        /\ inode_table'[f].i_size = inode_table[f].i_size
        /\ inode_table'[f].i_direct_data_blocks = inode_table[f].i_direct_data_blocks
        /\ inode_table'[f].i_indirect_data_block = b
    BY <1>1, <1>3 DEF Inodes
  <2> QED
    BY <1>1, <1>2, <1>3, <2>1, <2>2, <2>3
<1>4. CASE /\ k \in Direct
           /\ inode_table' = [inode_table EXCEPT ![f].i_direct_data_blocks[k] = b]
           /\ UNCHANGED fs_data
  <2>1. k # -1 /\ ~ k >= MAX_DIRECT
    BY <1>4, Constants
  <2>2. inode_table' \in [File -> Inodes]
    BY <1>1, <1>4 DEF Inodes
  <2>3. /\ \A g \in File \ {f} : inode_table'[g] = inode_table[g]
        /\ inode_table'[f].i_size = inode_table[f].i_size
        /\ inode_table'[f].i_direct_data_blocks =
                [inode_table[f].i_direct_data_blocks EXCEPT ![k] = b]
        /\ inode_table'[f].i_indirect_data_block = inode_table[f].i_indirect_data_block
    BY <1>1, <1>4 DEF Inodes
  <2>4. inode_table[f].i_direct_data_blocks \in [Direct -> Block \cup {-1}]
    BY <1>1 DEF Inodes
  <2> QED
    BY <1>1, <1>2, <1>4, <2>1, <2>2, <2>3, <2>4
<1>5. CASE /\ k >= MAX_DIRECT
           /\ fs_data' = [fs_data EXCEPT
                    ![inode_table[f].i_indirect_data_block * BLOCK_SIZE
                        + (k - MAX_DIRECT)] = b]
           /\ UNCHANGED inode_table
  <2>1. k # -1 /\ k \notin Direct
    BY <1>5, Constants
  <2> DEFINE x == inode_table[f].i_indirect_data_block * BLOCK_SIZE + (k - MAX_DIRECT)
  <2>2. fs_data' = [fs_data EXCEPT ![x] = b]
    BY <1>5
  <2> HIDE DEF x
  <2>3. fs_data' \in [Address -> Int] /\ \A a \in Address : fs_data'[a] = IF a = x THEN b ELSE fs_data[a]
    BY <1>1, <1>2, <2>2
  <2> QED
    BY <1>1, <1>2, <1>5, <2>1, <2>3 DEF x
<1> QED
  BY <1>3, <1>4, <1>5

\* A write takes the block at its next index.
LEMMA AllocCore ==
  ASSUME IInv, health # "damaged", health' = health,
         NEW t \in Thread, NEW f \in File, NEW k \in -1 .. MAX_BLOCKS - 1,
         k \notin Indices(f), k >= MAX_DIRECT => -1 \in Indices(f),
         k = -1 => \A j \in Indices(f) : j < MAX_DIRECT,
         allocate_per_block(f, k),
         ~ Freeing(f), written' = written
  PROVE  /\ inode_table' \in [File -> Inodes] /\ free_blocks' \subseteq Block
         /\ fs_data' \in [Address -> Int]
         /\ \A g \in File \ {f} : inode_table'[g] = inode_table[g]
         /\ inode_table'[f].i_size = inode_table[f].i_size
         /\ StepOf(t, f) /\ Indices(f)' = Indices(f) \cup {k} => Owned' /\ BytesInPlace'
<1>i. TypeOK /\ Laid /\ LocksHeld /\ Owned /\ BlocksDistinct /\ BytesInPlace
  BY DEF IInv, Owned, Laid
<1>1. PICK b \in Block :
        /\ IsFirst(b, free_blocks)
        /\ free_blocks' = free_blocks \ {b}
        /\ \/ /\ k = -1
              /\ inode_table' = [inode_table EXCEPT ![f].i_indirect_data_block = b]
              /\ UNCHANGED fs_data
           \/ /\ k \in Direct
              /\ inode_table' = [inode_table EXCEPT ![f].i_direct_data_blocks[k] = b]
              /\ UNCHANGED fs_data
           \/ /\ k >= MAX_DIRECT
              /\ fs_data' = [fs_data EXCEPT
                      ![inode_table[f].i_indirect_data_block * BLOCK_SIZE
                          + (k - MAX_DIRECT)] = b]
              /\ UNCHANGED inode_table
  BY DEF allocate_per_block
<1> DEFINE x == inode_table[f].i_indirect_data_block * BLOCK_SIZE + (k - MAX_DIRECT)
<1>2. /\ inode_table' \in [File -> Inodes] /\ free_blocks' \subseteq Block
      /\ fs_data' \in [Address -> Int]
      /\ \A g \in File \ {f} : inode_table'[g] = inode_table[g]
      /\ inode_table'[f].i_size = inode_table[f].i_size
      /\ b \in free_blocks
      /\ \A j \in Direct : inode_table'[f].i_direct_data_blocks[j] =
             IF j = k THEN b ELSE inode_table[f].i_direct_data_blocks[j]
      /\ inode_table'[f].i_indirect_data_block =
             IF k = -1 THEN b ELSE inode_table[f].i_indirect_data_block
      /\ IF k >= MAX_DIRECT
         THEN \A a \in Address : fs_data'[a] = IF a = x THEN b ELSE fs_data[a]
         ELSE fs_data' = fs_data
  BY <1>i, <1>1, AllocFrame
<1>3. k >= MAX_DIRECT =>
        /\ BlockOf(f, -1) \in Block
        /\ x = BlockOf(f, -1) * BLOCK_SIZE + (k - MAX_DIRECT)
        /\ x \in Address /\ x \div BLOCK_SIZE = BlockOf(f, -1)
        /\ x % BLOCK_SIZE = k - MAX_DIRECT
  <2> SUFFICES ASSUME k >= MAX_DIRECT
               PROVE  /\ BlockOf(f, -1) \in Block
                      /\ x = BlockOf(f, -1) * BLOCK_SIZE + (k - MAX_DIRECT)
                      /\ x \in Address /\ x \div BLOCK_SIZE = BlockOf(f, -1)
                      /\ x % BLOCK_SIZE = k - MAX_DIRECT
    OBVIOUS
  <2>1. BlockOf(f, -1) \in Block
    BY <1>i DEF BlocksDistinct
  <2>2. x = BlockOf(f, -1) * BLOCK_SIZE + (k - MAX_DIRECT)
    BY NumberCases
  <2>3. k - MAX_DIRECT \in 0 .. BLOCK_SIZE - 1
    BY Constants
  <2> QED
    BY <2>1, <2>2, <2>3, Cells
<1> HIDE DEF x
<1> DEFINE K == IF k >= MAX_DIRECT THEN {-1} ELSE {}
<1>4. K \subseteq Indices(f) /\ K \subseteq {-1} /\ ChangesOnly(f, K)
  BY <1>2, <1>3 DEF ChangesOnly
<1> HIDE DEF K
<1>5. ASSUME StepOf(t, f), Indices(f)' = Indices(f) \cup {k}
      PROVE  Owned' /\ BytesInPlace'
  <2>1. \A g \in File \ {f} : \A j \in Indices(g) :
            BlockOf(g, j)' = BlockOf(g, j)
    BY <1>i, <1>4, <1>5, OthersNumbers
  <2>2. ASSUME NEW j \in Indices(f)
        PROVE  BlockOf(f, j)' = BlockOf(f, j)
    <3>1. j # k /\ j \in -1 .. MAX_BLOCKS - 1
      BY <1>i, IndicesRange
    <3>2. j \notin Direct =>
            inode_table'[f].i_indirect_data_block = inode_table[f].i_indirect_data_block
      <4>1. k = -1 => j \in Direct
        BY <3>1, Constants
      <4> QED
        BY <4>1, <1>2
    <3>3. j \in Direct =>
            inode_table'[f].i_direct_data_blocks[j] = inode_table[f].i_direct_data_blocks[j]
      BY <3>1, <1>2
    <3>4. ASSUME j >= MAX_DIRECT
          PROVE  LET a == BlockOf(f, -1) * BLOCK_SIZE + (j - MAX_DIRECT)
                 IN fs_data'[a] = fs_data[a]
      <4> DEFINE a == BlockOf(f, -1) * BLOCK_SIZE + (j - MAX_DIRECT)
      <4>1. BlockOf(f, -1) \in Block
        BY <1>i, <3>4, IndicesRange DEF BlocksDistinct
      <4>2. j - MAX_DIRECT \in 0 .. BLOCK_SIZE - 1
        BY <3>1, <3>4, Constants
      <4>3. a \in Address /\ a % BLOCK_SIZE = j - MAX_DIRECT
        BY <4>1, <4>2, Cells
      <4> HIDE DEF a
      <4>4. k >= MAX_DIRECT => a # x
        <5>1. j - MAX_DIRECT # k - MAX_DIRECT
          BY <3>1, Constants
        <5> QED
          BY <4>3, <1>3, <5>1
      <4>5. fs_data'[a] = fs_data[a]
        BY <1>2, <4>3, <4>4
      <4> QED
        BY <4>5 DEF a
    <3> QED
      BY <1>i, <3>2, <3>3, <3>4, NumberKept
  <2>3. BlockOf(f, k)' = b
    <3>1. CASE k = -1
      BY <3>1, <1>2, NumberCasesNext
    <3>2. CASE k \in Direct
      BY <3>2, <1>2, NumberCasesNext
    <3>3. CASE k \in MAX_DIRECT .. MAX_BLOCKS - 1
      <4>1. k >= MAX_DIRECT /\ k # -1
        BY <3>3, Constants
      <4>2. BlockOf(f, -1)' = BlockOf(f, -1)
        BY <1>2, <4>1, NumberCases, NumberCasesNext
      <4>3. BlockOf(f, k)' =
                fs_data'[BlockOf(f, -1) * BLOCK_SIZE + (k - MAX_DIRECT)]
        BY <1>3, <3>3, <4>1, <4>2, NumberCasesNext
      <4>4. BlockOf(f, k)' = fs_data'[x]
        BY <1>3, <4>1, <4>3
      <4> QED
        BY <1>2, <1>3, <4>1, <4>4
    <3> QED
      BY <3>1, <3>2, <3>3, Constants
  <2>4. Owned'
    <3>1. \A g \in File : \A j \in Indices(g) :
            BlockOf(g, j)' = BlockOf(g, j)
      BY <2>1, <2>2
    <3> QED
      BY <1>i, <1>1, <1>2, <1>5, <2>3, <3>1, AllocStep
  <2>5. BytesInPlace'
    BY <1>i, <1>2, <1>4, <1>5, <2>2, OwnBytesKept
  <2> QED
    BY <2>4, <2>5
<1> QED
  BY <1>2, <1>5

\* What a write that is allocating has, and what it needs.
LEMMA ExtendingCall ==
  ASSUME TypeOK, Laid, NEW t \in Thread, call[t].at \in Extending
  PROVE  /\ call[t].file \in File
         /\ blocks_allocated(call[t].file) \in 0 .. MAX_BLOCKS
         /\ rw_total_blocks(call[t].offset, call[t].to_write) \in 0 .. MAX_BLOCKS
         /\ call[t].block \in 0 .. MAX_BLOCKS
         /\ blocks_allocated(call[t].file) <= call[t].block
         /\ call[t].block < rw_total_blocks(call[t].offset, call[t].to_write)
         /\ call[t].offset \in Nat /\ call[t].to_write \in Nat \ {0}
         /\ call[t].offset + call[t].to_write <= MAX_FILE_SIZE
         /\ call[t].at \in First => call[t].block = MAX_DIRECT
         /\ Indices(call[t].file) =
                UpTo(call[t].block) \cup (IF call[t].at \in First THEN {-1} ELSE {})
         /\ ~ Freeing(call[t].file)
<1>1. call[t].at # "idle" /\ call[t].at \notin {"freeing", "freeing_indirect"}
  BY DEF Extending, First
<1>2. /\ call[t].file \in File /\ call[t].block \in 0 .. MAX_BLOCKS
      /\ call[t].offset \in 0 .. MAX_FILE_SIZE /\ call[t].to_write \in 0 .. MAX_FILE_SIZE
      /\ Indices(call[t].file) = CallIndices(call[t])
      /\ Placed(t) /\ ~ Freeing(call[t].file)
  BY <1>1, InCall
<1>3. /\ blocks_allocated(call[t].file) <= call[t].block
      /\ call[t].block < rw_total_blocks(call[t].offset, call[t].to_write)
      /\ call[t].to_write > 0 /\ call[t].offset + call[t].to_write <= MAX_FILE_SIZE
      /\ call[t].at \in First => call[t].block = MAX_DIRECT
  BY <1>2 DEF Placed
<1>4. call[t].offset \in Nat /\ call[t].to_write \in Nat \ {0}
  BY <1>2, <1>3
<1>5. call[t].offset + call[t].to_write \in 0 .. MAX_FILE_SIZE
  <2>1. MAX_FILE_SIZE \in Nat
    BY Constants
  <2> QED
    BY <1>3, <1>4, <2>1
<1>6. rw_total_blocks(call[t].offset, call[t].to_write) \in 0 .. MAX_BLOCKS
  BY <1>5, Sizes DEF rw_total_blocks
<1>7. blocks_allocated(call[t].file) \in 0 .. MAX_BLOCKS
  BY <1>2, Sizes
<1>8. CallIndices(call[t]) =
                UpTo(call[t].block) \cup (IF call[t].at \in First THEN {-1} ELSE {})
  BY <1>1 DEF CallIndices, First, Extending
<1> QED
  BY <1>2, <1>3, <1>4, <1>6, <1>7, <1>8

\* One more block of a file that is written to: common to the allocations that succeed.
LEMMA Allocated ==
  ASSUME IInv, health # "damaged", NEW t \in Thread,
         call[t].at \in {"allocating", "allocating_first"},
         NEW f \in File, f = call[t].file, NEW k \in -1 .. MAX_BLOCKS - 1,
         allocate_per_block(f, k),
         k \notin Indices(f), k >= MAX_DIRECT => -1 \in Indices(f),
         k = -1 => \A j \in Indices(f) : j < MAX_DIRECT,
         NEW step \in {"allocating", "allocating_first", "filling"}, NEW m \in 0 .. MAX_BLOCKS,
         Goto(t, step, m),
         LET needs == rw_total_blocks(call[t].offset, call[t].to_write)
         IN /\ step = "allocating_first" => m = MAX_DIRECT
            /\ step # "filling" => m < needs
            /\ step = "filling" => m = needs
            /\ blocks_allocated(f) <= m,
         Indices(f) \cup {k} = UpTo(m) \cup (IF step \in First THEN {-1} ELSE {}),
         UNCHANGED <<reached, written, health>>
  PROVE  IInv'
<1>i. TypeOK /\ Laid /\ LocksHeld
  BY DEF IInv, Laid
<1>0. /\ call[t].at \in Extending /\ call[t].at # "idle" /\ step # "idle" /\ step \in Steps
  BY DEF Extending, First, Steps
<1>1. /\ blocks_allocated(f) \in 0 .. MAX_BLOCKS
      /\ rw_total_blocks(call[t].offset, call[t].to_write) \in 0 .. MAX_BLOCKS
      /\ call[t].to_write > 0 /\ call[t].offset + call[t].to_write <= MAX_FILE_SIZE
      /\ ~ Freeing(f)
  BY <1>i, <1>0, ExtendingCall
<1>2. /\ inode_table' \in [File -> Inodes] /\ free_blocks' \subseteq Block
      /\ fs_data' \in [Address -> Int]
      /\ \A g \in File \ {f} : inode_table'[g] = inode_table[g]
      /\ inode_table'[f].i_size = inode_table[f].i_size
      /\ StepOf(t, f) /\ Indices(f)' = Indices(f) \cup {k} => Owned' /\ BytesInPlace'
  BY <1>1, AllocCore
<1>3. /\ call' \in [Thread -> Calls]
      /\ \A u \in Thread \ {t} : call'[u] = call[u]
      /\ call'[t].at = step /\ call'[t].block = m
      /\ call'[t].file = f /\ call'[t].offset = call[t].offset
      /\ call'[t].to_write = call[t].to_write
  BY <1>i, <1>0, GotoCall
<1>4. StepOf(t, f)
  BY <1>0, <1>2, <1>3 DEF StepOf
<1>5. blocks_allocated(f)' = blocks_allocated(f)
  BY <1>2 DEF blocks_allocated, BLOCK_SIZEOF
<1>6. Placed(t)'
  <2>1. PICK needs \in 0 .. MAX_BLOCKS :
            needs = rw_total_blocks(call[t].offset, call[t].to_write)
    BY <1>1
  <2>2. rw_total_blocks(call'[t].offset, call'[t].to_write) = needs
    BY <2>1, <1>3
  <2>3. /\ step = "allocating_first" => m = MAX_DIRECT
        /\ step # "filling" => m < needs
        /\ step = "filling" => m = needs
        /\ blocks_allocated(f) <= m
    BY <2>1
  <2>4. step = "filling" => m = AtLeast(blocks_allocated(f), needs)
    BY <1>1, <2>1, <2>3, Constants DEF AtLeast
  <2> QED
    BY <1>1, <1>3, <1>5, <2>2, <2>3, <2>4
    DEF Placed, First, Extending, rw_total_blocks, BLOCK_SIZEOF, AtLeast, MAX_FILE_SIZE, MAX_BLOCKS
<1>7. Laid'
  BY <1>i, <1>4, <1>6, LaidKept
<1>8. Indices(f)' = Indices(f) \cup {k}
  <2>1. Indices(f)' = CallIndices(call'[t])
    BY <1>i, <1>0, <1>3, <1>4, OwnIndices
  <2>2. CallIndices(call'[t]) = UpTo(m) \cup (IF step \in First THEN {-1} ELSE {})
    BY <1>3 DEF CallIndices, First
  <2> QED
    BY <2>1, <2>2
<1>9. TypeOK'
  BY <1>i, <1>2, <1>3, Typing, TypingNext
<1> QED
  BY <1>2, <1>4, <1>7, <1>8, <1>9 DEF IInv

\* Where allocation goes on behind index k.
LEMMA AllocateNext ==
  ASSUME TypeOK, Laid, NEW t \in Thread, call[t].at \in {"allocating", "allocating_first"},
         allocate_next(t, call[t].block)
  PROVE  \E step \in {"allocating", "filling"} :
            LET m == call[t].block + 1
                needs == rw_total_blocks(call[t].offset, call[t].to_write)
            IN /\ m \in 0 .. MAX_BLOCKS
               /\ Goto(t, step, m)
               /\ step # "filling" => m < needs
               /\ step = "filling" => m = needs
               /\ blocks_allocated(call[t].file) <= m
<1>1. call[t].at \in Extending
  BY DEF Extending, First
<1>2. PICK k, needs, has : k = call[t].block /\ has = blocks_allocated(call[t].file)
          /\ needs = rw_total_blocks(call[t].offset, call[t].to_write)
  OBVIOUS
<1>3. /\ k \in 0 .. MAX_BLOCKS /\ needs \in 0 .. MAX_BLOCKS /\ has \in 0 .. MAX_BLOCKS
      /\ k < needs /\ has <= k
  BY <1>1, <1>2, ExtendingCall
<1>4. last_block_to_write(t) = needs - 1
  BY <1>2 DEF last_block_to_write, final_block
<1>5. MAX_BLOCKS \in Nat
  BY Constants
<1>6. k + 1 \in 0 .. MAX_BLOCKS /\ has <= k + 1
  BY <1>3, <1>5
<1>7. CASE k >= needs - 1
  <2>1. Goto(t, "filling", k + 1)
    BY <1>2, <1>4, <1>7 DEF allocate_next
  <2>2. k + 1 = needs
    BY <1>3, <1>5, <1>7
  <2> QED
    BY <1>2, <1>6, <2>1, <2>2
<1>8. CASE ~ k >= needs - 1
  <2>1. Goto(t, "allocating", k + 1)
    BY <1>2, <1>4, <1>8 DEF allocate_next
  <2>2. k + 1 < needs
    BY <1>3, <1>5, <1>8
  <2> QED
    BY <1>2, <1>6, <2>1, <2>2
<1> QED
  BY <1>7, <1>8

\* allocate_blocks, a direct block, the indirect one, or one that it names.
LEMMA AllocateBlock ==
  ASSUME IInv, NEW t \in Thread, allocate_block(t)
  PROVE  IInv'
<1>i. TypeOK /\ Laid
  BY DEF IInv
<1>1. PICK k, f : k = call[t].block /\ f = call[t].file
  OBVIOUS
<1>2. /\ health # "damaged" /\ call[t].at = "allocating"
      /\ IF k = MAX_DIRECT
         THEN allocate_per_block(f, -1) /\ Goto(t, "allocating_first", k)
         ELSE allocate_per_block(f, k) /\ allocate_next(t, k)
      /\ UNCHANGED <<reached, written, health>>
  BY <1>1 DEF allocate_block, At
<1>3. /\ f \in File /\ k \in 0 .. MAX_BLOCKS - 1 /\ blocks_allocated(f) <= k
      /\ k < rw_total_blocks(call[t].offset, call[t].to_write)
      /\ Indices(f) = UpTo(k)
  <2>1. call[t].at \in Extending /\ call[t].at \notin First
    BY <1>2 DEF Extending, First
  <2>2. /\ f \in File /\ k \in 0 .. MAX_BLOCKS /\ blocks_allocated(f) <= k
        /\ k < rw_total_blocks(call[t].offset, call[t].to_write)
        /\ Indices(f) = UpTo(k)
        /\ rw_total_blocks(call[t].offset, call[t].to_write) \in 0 .. MAX_BLOCKS
    BY <1>i, <1>1, <2>1, ExtendingCall
  <2>3. k \in 0 .. MAX_BLOCKS - 1
    BY <2>2, Constants
  <2> QED
    BY <2>2, <2>3
<1>4. ASSUME k = MAX_DIRECT
      PROVE  IInv'
  <2>1. Indices(f) \cup {-1} = UpTo(k) \cup {-1} /\ -1 \notin Indices(f)
        /\ \A j \in Indices(f) : j < MAX_DIRECT
    BY <1>3, <1>4, Constants DEF UpTo
  <2>2. -1 \in -1 .. MAX_BLOCKS - 1 /\ ~ -1 >= MAX_DIRECT /\ k \in 0 .. MAX_BLOCKS
    BY <1>3, Constants
  <2>3. allocate_per_block(f, -1) /\ Goto(t, "allocating_first", k)
    BY <1>2, <1>4
  <2> QED
    BY <1>1, <1>2, <1>3, <1>4, <2>1, <2>2, <2>3, Allocated DEF First
<1>5. ASSUME k # MAX_DIRECT
      PROVE  IInv'
  <2>1. allocate_per_block(f, k) /\ allocate_next(t, k)
    BY <1>2, <1>5
  <2>2. PICK step \in {"allocating", "filling"} :
            /\ k + 1 \in 0 .. MAX_BLOCKS
            /\ Goto(t, step, k + 1)
            /\ step # "filling" => k + 1 < rw_total_blocks(call[t].offset, call[t].to_write)
            /\ step = "filling" => k + 1 = rw_total_blocks(call[t].offset, call[t].to_write)
            /\ blocks_allocated(f) <= k + 1
    BY <1>i, <1>1, <1>2, <2>1, AllocateNext
  <2>3. /\ Indices(f) \cup {k} = UpTo(k + 1) /\ k \notin Indices(f)
        /\ k >= MAX_DIRECT => -1 \in Indices(f)
    BY <1>3, <1>5, Constants DEF UpTo
  <2>4. k \in -1 .. MAX_BLOCKS - 1 /\ k # -1
    BY <1>3, Constants
  <2>5. step \in {"allocating", "allocating_first", "filling"} /\ step # "allocating_first"
        /\ step \notin First
    BY DEF First
  <2>6. PICK m \in 0 .. MAX_BLOCKS : m = k + 1
    BY <2>2
  <2>7. Indices(f) \cup {k} = UpTo(m) \cup (IF step \in First THEN {-1} ELSE {})
    BY <2>3, <2>5, <2>6
  <2> QED
    BY <1>1, <1>2, <1>3, <2>1, <2>2, <2>3, <2>4, <2>5, <2>6, <2>7, Allocated
<1> QED
  BY <1>4, <1>5

\* allocate_blocks, the first block that the indirect block names.
LEMMA AllocateFirstOfIndirect ==
  ASSUME IInv, NEW t \in Thread, allocate_first_of_indirect(t)
  PROVE  IInv'
<1>i. TypeOK /\ Laid
  BY DEF IInv
<1>1. PICK k, f : k = MAX_DIRECT /\ f = call[t].file
  OBVIOUS
<1>2. /\ health # "damaged" /\ call[t].at = "allocating_first"
      /\ allocate_per_block(f, k) /\ allocate_next(t, k)
      /\ UNCHANGED <<reached, written, health>>
  BY <1>1 DEF allocate_first_of_indirect, At
<1>3. f \in File /\ call[t].block = k /\ Indices(f) = UpTo(k) \cup {-1}
  <2>1. call[t].at \in Extending /\ call[t].at \in First
    BY <1>2 DEF Extending, First
  <2> QED
    BY <1>i, <1>1, <2>1, ExtendingCall
<1>4. PICK step \in {"allocating", "filling"} :
          /\ k + 1 \in 0 .. MAX_BLOCKS
          /\ Goto(t, step, k + 1)
          /\ step # "filling" => k + 1 < rw_total_blocks(call[t].offset, call[t].to_write)
          /\ step = "filling" => k + 1 = rw_total_blocks(call[t].offset, call[t].to_write)
          /\ blocks_allocated(f) <= k + 1
  BY <1>i, <1>1, <1>2, <1>3, AllocateNext
<1>5. /\ Indices(f) \cup {k} = UpTo(k + 1) /\ k \notin Indices(f) /\ -1 \in Indices(f)
  BY <1>1, <1>3, Constants DEF UpTo
<1>6. k \in -1 .. MAX_BLOCKS - 1 /\ k # -1
  BY <1>1, Constants
<1>7. step \in {"allocating", "allocating_first", "filling"} /\ step # "allocating_first"
      /\ step \notin First
  BY DEF First
<1>8. PICK m \in 0 .. MAX_BLOCKS : m = k + 1
  BY <1>4
<1>9. Indices(f) \cup {k} = UpTo(m) \cup (IF step \in First THEN {-1} ELSE {})
  BY <1>5, <1>7, <1>8
<1> QED
  BY <1>1, <1>2, <1>3, <1>4, <1>5, <1>6, <1>7, <1>8, <1>9, Allocated

\* A step that changes nothing but the call.
LEMMA AllocateNone ==
  ASSUME IInv, NEW t \in Thread, allocate_none(t)
  PROVE  IInv'
<1>i. TypeOK /\ Laid /\ LocksHeld /\ Owned /\ BlocksDistinct /\ BytesInPlace
  BY DEF IInv, Owned, Laid
<1>1. PICK step \in {"failing", "failing_first"} :
        /\ health # "damaged"
        /\ call[t].at = IF step = "failing" THEN "allocating" ELSE "allocating_first"
        /\ Goto(t, step, call[t].block)
        /\ UNCHANGED <<inode_table, free_blocks, fs_data, reached, written, health>>
  BY DEF allocate_none, At
<1>2. PICK f, k : k = call[t].block /\ f = call[t].file
  OBVIOUS
<1>0. call[t].at \in Extending /\ call[t].at # "idle" /\ (step \in First <=> call[t].at \in First)
      /\ step \in Steps /\ step # "idle"
  BY <1>1 DEF Extending, First, Steps
<1>3. /\ f \in File /\ k \in 0 .. MAX_BLOCKS /\ blocks_allocated(f) <= k
      /\ k < rw_total_blocks(call[t].offset, call[t].to_write)
      /\ call[t].to_write > 0 /\ call[t].offset + call[t].to_write <= MAX_FILE_SIZE
      /\ step \in First => k = MAX_DIRECT
      /\ Indices(f) = UpTo(k) \cup (IF step \in First THEN {-1} ELSE {})
      /\ ~ Freeing(f)
  BY <1>i, <1>0, <1>2, ExtendingCall
<1>4. /\ call' \in [Thread -> Calls]
      /\ \A u \in Thread \ {t} : call'[u] = call[u]
      /\ call'[t].at = step /\ call'[t].block = k
      /\ call'[t].file = f /\ call'[t].offset = call[t].offset
      /\ call'[t].to_write = call[t].to_write
  BY <1>i, <1>0, <1>1, <1>2, <1>3, GotoCall
<1>5. StepOf(t, f)
  BY <1>0, <1>1, <1>2, <1>4 DEF StepOf
<1>6. Placed(t)'
  <2>1. blocks_allocated(f)' = blocks_allocated(f)
    BY <1>1 DEF blocks_allocated
  <2>2. rw_total_blocks(call'[t].offset, call'[t].to_write)
            = rw_total_blocks(call[t].offset, call[t].to_write)
    BY <1>4
  <2> QED
    BY <1>3, <1>4, <2>1, <2>2
    DEF Placed, First, Extending, rw_total_blocks, BLOCK_SIZEOF, MAX_FILE_SIZE, MAX_BLOCKS
<1>7. Laid'
  BY <1>i, <1>3, <1>5, <1>6, LaidKept
<1>8. Indices(f)' = Indices(f)
  <2>1. Indices(f)' = CallIndices(call'[t])
    BY <1>i, <1>0, <1>3, <1>4, <1>5, OwnIndices
  <2>2. CallIndices(call'[t]) = UpTo(k) \cup (IF step \in First THEN {-1} ELSE {})
    BY <1>4 DEF CallIndices, First
  <2> QED
    BY <2>1, <2>2, <1>3
<1>9. \A g \in File : \A j \in Indices(g) : BlockOf(g, j)' = BlockOf(g, j)
  BY <1>1 DEF BlockOf, get_block_number
<1>10. Owned'
  BY <1>i, <1>1, <1>3, <1>5, <1>8, <1>9, KeepStep
<1>11. BytesInPlace'
  <2>1. ChangesOnly(f, {}) /\ {} \subseteq Indices(f) /\ {} \subseteq {-1}
    BY <1>1 DEF ChangesOnly
  <2> QED
    BY <1>i, <1>1, <1>3, <1>5, <1>9, <2>1, OwnBytesKept
<1>12. TypeOK'
  BY <1>i, <1>1, <1>4, Typing, TypingNext
<1> QED
  BY <1>7, <1>10, <1>11, <1>12 DEF IInv

\* The walk of a write or read of n bytes at offset.
LEMMA WriteWalk ==
  ASSUME NEW offset \in Nat, NEW n \in Nat \ {0}, offset + n <= MAX_FILE_SIZE
  PROVE  LET start == current_block(offset)
             last == final_block(offset, n)
             o == BLOCK_OFFSET(offset)
         IN /\ Spans(start, last, o, n)
            /\ o + n <= (last - start) * BLOCK_SIZE + BLOCK_SIZE
            /\ offset = start * BLOCK_SIZE + o
            /\ last = rw_total_blocks(offset, n) - 1
            /\ start \in 0 .. MAX_BLOCKS - 1 /\ last \in start .. MAX_BLOCKS - 1
<1>c. BLOCK_SIZE \in Nat \ {0} /\ MAX_FILE_SIZE \in Nat /\ MAX_BLOCKS \in Nat
  BY Constants
<1>1. offset + n \in 0 .. MAX_FILE_SIZE /\ offset \in 0 .. offset + n - 1 /\ offset + n > 0
  BY <1>c
<1>2. PICK start, o, needs : start = offset \div BLOCK_SIZE /\ o = offset % BLOCK_SIZE
        /\ needs = BLOCK_SIZEOF(offset + n)
  OBVIOUS
<1>3. /\ needs \in 0 .. MAX_BLOCKS /\ offset + n <= needs * BLOCK_SIZE
      /\ needs * BLOCK_SIZE - BLOCK_SIZE < offset + n
      /\ start \in 0 .. needs - 1
  BY <1>1, <1>2, Sizes
<1>4. o \in 0 .. BLOCK_SIZE - 1 /\ offset = start * BLOCK_SIZE + o
  BY <1>c, <1>2, DivMod
<1>5. PICK last : last = needs - 1
  OBVIOUS
<1>6. start \in 0 .. MAX_BLOCKS - 1 /\ last \in start .. MAX_BLOCKS - 1
  BY <1>c, <1>3, <1>5
<1>7. (last - start) * BLOCK_SIZE = needs * BLOCK_SIZE - BLOCK_SIZE - start * BLOCK_SIZE
      /\ start * BLOCK_SIZE \in Int /\ needs * BLOCK_SIZE \in Int
  BY <1>c, <1>3, <1>5, <1>6
<1>8. (last - start) * BLOCK_SIZE < o + n /\ o + n <= (last - start) * BLOCK_SIZE + BLOCK_SIZE
  BY <1>c, <1>3, <1>4, <1>7
<1>9. Spans(start, last, o, n)
  BY <1>4, <1>6, <1>8, <1>c DEF Spans
<1> QED
  BY <1>2, <1>4, <1>5, <1>6, <1>8, <1>9
  DEF current_block, final_block, BLOCK_OFFSET, rw_total_blocks

\* The block of the walk that byte q of the file is in, and its place there.
Within(offset, start, last, o, n) ==
    /\ Spans(start, last, o, n)
    /\ offset \in Nat /\ offset = start * BLOCK_SIZE + o
    /\ o + n <= (last - start) * BLOCK_SIZE + BLOCK_SIZE

ByteSpot(q, k, c) == q \in Nat /\ k = q \div BLOCK_SIZE /\ c = q % BLOCK_SIZE

\* A byte of a file, as a distance from the position a walk began at.
LEMMA ByteOfWalk ==
  ASSUME NEW offset, NEW start, NEW last, NEW o, NEW n, Within(offset, start, last, o, n),
         NEW q, NEW k, NEW c, ByteSpot(q, k, c)
  PROVE  /\ q - offset = (k - start) * BLOCK_SIZE + c - o
         /\ c \in 0 .. BLOCK_SIZE - 1 /\ k \in Nat
         /\ q \in offset .. offset + n - 1 => k \in start .. last
<1>c. BLOCK_SIZE \in Nat \ {0}
  BY Constants
<1>w. /\ start \in Nat /\ last \in Nat /\ o \in 0 .. BLOCK_SIZE - 1 /\ n \in Nat
      /\ offset \in Nat /\ offset = start * BLOCK_SIZE + o
      /\ o + n <= (last - start) * BLOCK_SIZE + BLOCK_SIZE
  BY DEF Within, Spans
<1>1. k = q \div BLOCK_SIZE /\ c = q % BLOCK_SIZE /\ q \in Nat
  BY DEF ByteSpot
<1>2. k \in Nat /\ c \in 0 .. BLOCK_SIZE - 1 /\ q = k * BLOCK_SIZE + c
  <2>1. k \in Nat
    BY <1>c, <1>1
  <2> QED
    BY <1>c, <1>1, <2>1, DivMod
<1>3. (k - start) * BLOCK_SIZE = k * BLOCK_SIZE - start * BLOCK_SIZE
      /\ k * BLOCK_SIZE \in Int /\ start * BLOCK_SIZE \in Int
  BY <1>c, <1>w, <1>2
<1>4. q - offset = (k - start) * BLOCK_SIZE + c - o
  BY <1>c, <1>w, <1>2, <1>3
<1>5. ASSUME q \in offset .. offset + n - 1
      PROVE  k \in start .. last
  <2>1. ~ k < start
    <3> SUFFICES ASSUME k < start PROVE FALSE
      OBVIOUS
    <3>1. k * BLOCK_SIZE + BLOCK_SIZE <= start * BLOCK_SIZE
      BY <1>c, <1>w, <1>2, MulStep
    <3> QED
      BY <1>c, <1>w, <1>2, <1>3, <1>5, <3>1
  <2>2. ~ last < k
    <3> SUFFICES ASSUME last < k PROVE FALSE
      OBVIOUS
    <3>1. last * BLOCK_SIZE + BLOCK_SIZE <= k * BLOCK_SIZE /\ last * BLOCK_SIZE \in Int
      BY <1>c, <1>w, <1>2, MulStep
    <3>2. (last - start) * BLOCK_SIZE = last * BLOCK_SIZE - start * BLOCK_SIZE
      BY <1>c, <1>w
    <3> QED
      BY <1>c, <1>w, <1>2, <1>3, <1>5, <3>1, <3>2
  <2> QED
    BY <1>2, <1>w, <2>1, <2>2
<1> QED
  BY <1>2, <1>4, <1>5

\* Bytes are numbers.
LEMMA DataInt ==
  \A f \in File, p \in Int : Data(f, p) \in Int
<1>1. \A f \in File : f \in Nat /\ f * MAX_FILE_SIZE \in Int
  BY Constants
<1> QED
  BY <1>1, Constants DEF Data

\* A walk over blocks of a file by its own call changes no pointer, and no
\* bytes but those it writes.
LEMMA WalkStep ==
  ASSUME IInv, health # "damaged", NEW t \in Thread, NEW f \in File, StepOf(t, f), ~ Freeing(f),
         NEW offset \in Nat, NEW start, NEW last, NEW o, NEW n, offset = start * BLOCK_SIZE + o,
         Walk(f, start, last, o, n), o + n <= (last - start) * BLOCK_SIZE + BLOCK_SIZE,
         NEW buffer, fill_blocks(f, Pieces(start, last, o, n), buffer),
         \A i \in 0 .. n - 1 : buffer[i] = Data(f, offset + i),
         /\ inode_table'[f].i_direct_data_blocks = inode_table[f].i_direct_data_blocks
         /\ inode_table'[f].i_indirect_data_block = inode_table[f].i_indirect_data_block,
         inode_table[f].i_size <= inode_table'[f].i_size, inode_table'[f].i_size \in Nat,
         \A q \in written'[f] : \/ q \in written[f]
                                \/ q \in offset .. offset + n - 1 /\ q < inode_table'[f].i_size
  PROVE  /\ \A g \in File : \A k \in Indices(g) :
                BlockOf(g, k)' = BlockOf(g, k)
         /\ BytesInPlace'
<1>i. TypeOK /\ Laid /\ BlocksDistinct /\ BytesInPlace
  BY DEF IInv, Owned
<1>s. Spans(start, last, o, n) /\ start \in Nat /\ last \in Nat /\ o \in 0 .. BLOCK_SIZE - 1
      /\ n \in Nat
  BY DEF Walk, Spans
<1> DEFINE K == start .. last
<1>1. /\ ChangesOnly(f, K)
      /\ \A k \in K : \A c \in 0 .. BLOCK_SIZE - 1 :
           LET a == BlockOf(f, k) * BLOCK_SIZE + c
               i == (k - start) * BLOCK_SIZE + c - o
           IN fs_data'[a] = IF i \in 0 .. n - 1 THEN buffer[i] ELSE fs_data[a]
  BY <1>i, WalkFills
<1>2. K \subseteq Indices(f) /\ -1 \notin K
  BY <1>s DEF Walk
<1> HIDE DEF K
<1>3. \A g \in File \ {f} : \A k \in Indices(g) :
            BlockOf(g, k)' = BlockOf(g, k)
  BY <1>i, <1>1, <1>2, OthersNumbers
<1>4. ASSUME NEW k \in Indices(f)
      PROVE  BlockOf(f, k)' = BlockOf(f, k)
  <2>1. k >= MAX_DIRECT =>
          LET a == BlockOf(f, -1) * BLOCK_SIZE + (k - MAX_DIRECT)
          IN fs_data'[a] = fs_data[a]
    BY <1>i, <1>1, <1>2, IndirectCellKept
  <2> QED
    BY <1>i, <2>1, NumberKept
<1>5. ASSUME NEW q \in written'[f]
      PROVE  q < inode_table'[f].i_size /\ fs_data'[CellOf(f, q)'] = Data(f, q)
  <2>1. q \in Nat /\ q < inode_table'[f].i_size
    <3>1. CASE q \in written[f]
      <4>1. q \in 0 .. MAX_FILE_SIZE - 1 /\ q < inode_table[f].i_size
        BY <1>i, <3>1, ByteHeld
      <4>2. inode_table[f].i_size \in Nat
        BY <1>i, Typing, Constants DEF Inodes
      <4>3. q \in Nat
        BY <4>1, Constants
      <4> QED
        BY <4>1, <4>2, <4>3
    <3>2. CASE q \in offset .. offset + n - 1 /\ q < inode_table'[f].i_size
      BY <3>2, <1>s
    <3> QED
      BY <3>1, <3>2
  <2>2. PICK k, c : k = q \div BLOCK_SIZE /\ c = q % BLOCK_SIZE
    OBVIOUS
  <2>3. /\ q - offset = (k - start) * BLOCK_SIZE + c - o
        /\ c \in 0 .. BLOCK_SIZE - 1 /\ k \in Nat
        /\ q \in offset .. offset + n - 1 => k \in K
    <3>1. /\ q - offset = (k - start) * BLOCK_SIZE + c - o
          /\ c \in 0 .. BLOCK_SIZE - 1 /\ k \in Nat
          /\ q \in offset .. offset + n - 1 => k \in start .. last
      <4>1. ByteSpot(q, k, c)
        BY <2>1, <2>2 DEF ByteSpot
      <4>2. Within(offset, start, last, o, n)
        BY <1>s DEF Within
      <4> QED
        BY <4>1, <4>2, ByteOfWalk
    <3> QED
      BY <3>1 DEF K
  <2>4. CASE k \in K
    <3>1. CellOf(f, q)' = BlockOf(f, k) * BLOCK_SIZE + c
      <4>1. BlockOf(f, k)' = BlockOf(f, k)
        BY <1>2, <1>4, <2>4
      <4>2. CellOf(f, q)' = BlockOf(f, k)' * BLOCK_SIZE + c
        BY <2>2 DEF CellOf
      <4> QED
        BY <4>1, <4>2
    <3>2. fs_data'[CellOf(f, q)'] =
            IF q - offset \in 0 .. n - 1 THEN buffer[q - offset]
            ELSE fs_data[BlockOf(f, k) * BLOCK_SIZE + c]
      BY <1>1, <2>3, <2>4, <3>1
    <3>3. CASE q - offset \in 0 .. n - 1
      <4>1. offset + (q - offset) = q
        BY <2>1
      <4> QED
        BY <2>1, <3>2, <3>3, <4>1
    <3>4. CASE q - offset \notin 0 .. n - 1
      <4>1. q \in written[f]
        BY <1>s, <2>1, <3>4
      <4>2. fs_data[CellOf(f, q)] = Data(f, q)
        BY <1>i, <4>1, ByteHeld
      <4>3. CellOf(f, q) = BlockOf(f, k) * BLOCK_SIZE + c
        BY <2>2 DEF CellOf
      <4> QED
        BY <2>1, <3>2, <3>4, <4>2, <4>3
    <3> QED
      BY <3>3, <3>4
  <2>5. CASE k \notin K
    <3>1. q \in written[f]
      BY <2>3, <2>5
    <3>2. fs_data'[CellOf(f, q)'] = Data(f, q)
      BY <1>i, <1>1, <1>2, <1>4, <2>2, <2>5, <3>1, ByteKept
    <3> QED
      BY <2>1, <3>2
  <2> QED
    BY <2>4, <2>5
<1>6. BytesInPlace'
  BY <1>i, <1>1, <1>2, <1>5, BytesStep
<1> QED
  BY <1>3, <1>4, <1>6

\* write_impl, every block allocated: the bytes of the call are in place.
LEMMA WriteFilled ==
  ASSUME IInv, NEW t \in Thread, write_filled(t)
  PROVE  IInv'
<1>i. TypeOK /\ Laid /\ LocksHeld /\ Owned /\ BlocksDistinct /\ BytesInPlace
  BY DEF IInv, Owned, Laid
<1>1. PICK f, offset, n : f = call[t].file /\ offset = call[t].offset /\ n = call[t].to_write
  OBVIOUS
<1>2. PICK buffer : buffer = [i \in 0 .. MAX_FILE_SIZE - 1 |-> Data(f, offset + i)]
  OBVIOUS
<1>3. PICK start, last, o : start = current_block(offset) /\ last = final_block(offset, n)
                            /\ o = BLOCK_OFFSET(offset)
  OBVIOUS
<1>4. /\ health # "damaged" /\ call[t].at = "filling"
      /\ fill_blocks(f, Pieces(start, last, o, n), buffer)
      /\ inode_table' = [inode_table EXCEPT ![f].i_size = AtLeast(@, offset + n)]
      /\ reached' = [reached EXCEPT ![f] = AtLeast(@, offset + n)]
      /\ written' = [written EXCEPT ![f] = @ \cup offset .. offset + n - 1]
      /\ Return(t)
      /\ free_blocks' = free_blocks /\ health' = health
  BY <1>1, <1>2, <1>3 DEF write_filled, At
<1>5. PICK size \in 0 .. MAX_FILE_SIZE : size = inode_table[f].i_size
  <2>1. f \in File
    BY <1>i, <1>1, <1>4, InCall
  <2> QED
    BY <1>i, <2>1, Typing DEF Inodes
<1>6. /\ f \in File /\ ~ Freeing(f) /\ offset \in Nat /\ n \in Nat \ {0}
      /\ offset + n <= MAX_FILE_SIZE
      /\ Indices(f) = UpTo(call[t].block)
      /\ call[t].block = AtLeast(blocks_allocated(f), rw_total_blocks(offset, n))
  <2>1. call[t].at \notin {"freeing", "freeing_indirect"} \cup First
    BY <1>4 DEF First
  <2>2. /\ f \in File /\ ~ Freeing(f) /\ Placed(t) /\ Indices(f) = CallIndices(call[t])
        /\ offset \in 0 .. MAX_FILE_SIZE /\ n \in 0 .. MAX_FILE_SIZE
    BY <1>i, <1>1, <1>4, <2>1, InCall
  <2>3. /\ n > 0 /\ offset + n <= MAX_FILE_SIZE
        /\ call[t].block = AtLeast(blocks_allocated(f), rw_total_blocks(offset, n))
    BY <1>1, <1>4, <2>2 DEF Placed
  <2>4. Indices(f) = UpTo(call[t].block)
    BY <2>1, <2>2 DEF CallIndices
  <2> QED
    BY <2>2, <2>3, <2>4
<1>7. /\ Spans(start, last, o, n) /\ offset = start * BLOCK_SIZE + o
      /\ o + n <= (last - start) * BLOCK_SIZE + BLOCK_SIZE
      /\ last = rw_total_blocks(offset, n) - 1
      /\ start \in 0 .. MAX_BLOCKS - 1 /\ last \in start .. MAX_BLOCKS - 1
  BY <1>3, <1>6, WriteWalk
<1>8. PICK new \in 0 .. MAX_FILE_SIZE : new = AtLeast(size, offset + n) /\ size <= new /\ offset + n <= new
  <2>1. MAX_FILE_SIZE \in Nat
    BY Constants
  <2> QED
    BY <1>5, <1>6, <2>1 DEF AtLeast
<1>9. /\ inode_table' \in [File -> Inodes]
      /\ \A g \in File \ {f} : inode_table'[g] = inode_table[g]
      /\ inode_table'[f].i_size = new
      /\ inode_table'[f].i_direct_data_blocks = inode_table[f].i_direct_data_blocks
      /\ inode_table'[f].i_indirect_data_block = inode_table[f].i_indirect_data_block
  BY <1>i, <1>4, <1>5, <1>6, <1>8, Typing DEF Inodes
<1>10. /\ written' \in [File -> SUBSET (0 .. MAX_FILE_SIZE - 1)]
       /\ \A g \in File \ {f} : written'[g] = written[g]
       /\ written'[f] = written[f] \cup offset .. offset + n - 1
  <2>1. offset .. offset + n - 1 \subseteq 0 .. MAX_FILE_SIZE - 1
    <3>1. MAX_FILE_SIZE \in Nat
      BY Constants
    <3> QED
      BY <1>6, <3>1
  <2> QED
    BY <1>i, <1>4, <1>6, <2>1, Typing
<1>11. reached' \in [File -> 0 .. MAX_FILE_SIZE]
  <2>1. \A x \in 0 .. MAX_FILE_SIZE : AtLeast(x, offset + n) \in 0 .. MAX_FILE_SIZE
    <3>1. MAX_FILE_SIZE \in Nat
      BY Constants
    <3> QED
      BY <1>6, <3>1 DEF AtLeast
  <2> QED
    BY <1>i, <1>4, <1>6, <2>1, Typing
<1>12. /\ call' \in [Thread -> Calls]
       /\ \A u \in Thread \ {t} : call'[u] = call[u]
       /\ call'[t].at = "idle"
  BY <1>i, <1>4, ReturnCall
<1>13. StepOf(t, f)
  BY <1>1, <1>4, <1>9, <1>10, <1>12 DEF StepOf
<1>14. Laid'
  BY <1>i, <1>6, <1>12, <1>13, IdlePlaced, LaidKept
<1>15. PICK has \in 0 .. MAX_BLOCKS : has = blocks_allocated(f)
  BY <1>i, <1>6, Sizes
<1>16. PICK needs \in 0 .. MAX_BLOCKS : needs = rw_total_blocks(offset, n)
  <2>1. offset + n \in 0 .. MAX_FILE_SIZE
    BY <1>6, Constants
  <2> QED
    BY <2>1, Sizes DEF rw_total_blocks
<1>17. start .. last \subseteq Indices(f)
  <2>1. call[t].block \in Int /\ needs <= call[t].block
    BY <1>6, <1>15, <1>16 DEF AtLeast
  <2> QED
    <3>1. start \in Nat /\ last \in Nat /\ last = needs - 1
      BY <1>7, <1>16, Constants
    <3>2. 0 .. call[t].block - 1 \subseteq Indices(f)
      BY <1>6 DEF UpTo
    <3> QED
      BY <1>16, <2>1, <3>1, <3>2
<1>18. Walk(f, start, last, o, n)
  <2>1. n <= MAX_FILE_SIZE
    BY <1>6, Constants
  <2> QED
    BY <1>7, <1>17, <2>1 DEF Walk
<1>19. /\ buffer \in Buffers
       /\ \A i \in 0 .. n - 1 : buffer[i] = Data(f, offset + i)
  <2>1. \A i \in 0 .. MAX_FILE_SIZE - 1 : Data(f, offset + i) \in Int
    BY <1>6, DataInt, Constants
  <2>2. 0 .. n - 1 \subseteq 0 .. MAX_FILE_SIZE - 1
    BY <1>6, Constants
  <2> QED
    BY <1>2, <2>1, <2>2 DEF Buffers
<1>20. fs_data' \in [Address -> Int]
  BY <1>i, <1>4, <1>6, <1>18, <1>19, WalkTyped
<1>21. /\ \A g \in File : \A k \in Indices(g) :
                BlockOf(g, k)' = BlockOf(g, k)
       /\ BytesInPlace'
  <2>1. \A q \in written'[f] : \/ q \in written[f]
                               \/ q \in offset .. offset + n - 1 /\ q < inode_table'[f].i_size
    BY <1>6, <1>8, <1>9, <1>10, Constants
  <2>2. inode_table[f].i_size <= inode_table'[f].i_size /\ inode_table'[f].i_size \in Nat
    BY <1>5, <1>8, <1>9, Constants
  <2> QED
    BY <1>4, <1>6, <1>7, <1>9, <1>13, <1>18, <1>19, <2>1, <2>2, WalkStep
<1>22. Indices(f)' = Indices(f)
  <2>1. Indices(f)' = UpTo(blocks_allocated(f)')
    BY <1>i, <1>6, <1>12, <1>13, OwnIndices
  <2>2. blocks_allocated(f)' = BLOCK_SIZEOF(new)
    BY <1>9 DEF blocks_allocated, BLOCK_SIZEOF
  <2>3. BLOCK_SIZEOF(new) = AtLeast(has, needs)
    <3>1. has = BLOCK_SIZEOF(size) /\ needs = BLOCK_SIZEOF(offset + n)
      BY <1>5, <1>15, <1>16 DEF blocks_allocated, rw_total_blocks
    <3>2. offset + n \in 0 .. MAX_FILE_SIZE
      BY <1>6, Constants
    <3>3. size <= offset + n => has <= needs
      <4>1. size <= offset + n => size \in 0 .. offset + n
        BY <3>2, Constants
      <4> QED
        BY <3>1, <3>2, <4>1, Sizes
    <3>4. offset + n <= size => needs <= has
      <4>1. offset + n <= size => offset + n \in 0 .. size
        BY <3>2, Constants
      <4> QED
        BY <3>1, <4>1, Sizes
    <3>5. CASE size < offset + n
      <4>1. new = offset + n /\ has <= needs
        BY <1>6, <1>8, <3>3, <3>5 DEF AtLeast
      <4> QED
        BY <1>15, <1>16, <3>1, <4>1, Constants DEF AtLeast
    <3>6. CASE ~ size < offset + n
      <4>1. new = size /\ needs <= has
        BY <1>6, <1>8, <3>4, <3>6, Constants DEF AtLeast
      <4> QED
        BY <1>15, <1>16, <3>1, <4>1, Constants DEF AtLeast
    <3> QED
      BY <3>5, <3>6
  <2> QED
    BY <1>6, <1>15, <1>16, <2>1, <2>2, <2>3
<1>23. Owned'
  BY <1>i, <1>4, <1>6, <1>13, <1>21, <1>22, KeepStep
<1>24. TypeOK'
  BY <1>i, <1>4, <1>9, <1>10, <1>11, <1>12, <1>20, Typing, TypingNext
<1> QED
  BY <1>14, <1>21, <1>23, <1>24 DEF IInv

-----------------------------------------------------------------------------
(* A tfs_write that ran out of blocks *)

\* It returns; what it allocated behind the end of its file is dropped.
LEMMA FailReturn ==
  ASSUME IInv, NEW t \in Thread, Failing(t), Return(t), UNCHANGED <<inode_table, written>>,
         NEW f, f = call[t].file
  PROVE  /\ f \in File /\ StepOf(t, f) /\ Laid' /\ call' \in [Thread -> Calls] /\ ~ Freeing(f)
         /\ Indices(f)' \subseteq Indices(f)
         /\ Leaked(t) \in {"sound", "leaking"}
         /\ Leaked(t) = "sound" => health = "sound" /\ Indices(f)' = Indices(f)
         /\ \A k \in 0 .. call[t].block - 1 : k \in Indices(f)
<1>i. TypeOK /\ Laid /\ LocksHeld
  BY DEF IInv, Laid
<1>1. health # "damaged" /\ call[t].at \in {"failing", "failing_first"}
  BY DEF Failing, At
<1>0. call[t].at \in Extending /\ call[t].at # "idle"
  BY <1>1 DEF Extending, First
<1>2. PICK k : k = call[t].block
  OBVIOUS
<1>3. /\ f \in File /\ k \in 0 .. MAX_BLOCKS /\ ~ Freeing(f)
      /\ blocks_allocated(f) \in 0 .. MAX_BLOCKS /\ blocks_allocated(f) <= k
      /\ Indices(f) = UpTo(k) \cup (IF call[t].at \in First THEN {-1} ELSE {})
  BY <1>i, <1>0, <1>2, ExtendingCall
<1>4. /\ call' \in [Thread -> Calls]
      /\ \A u \in Thread \ {t} : call'[u] = call[u]
      /\ call'[t].at = "idle"
  BY <1>i, ReturnCall
<1>5. StepOf(t, f)
  BY <1>0, <1>4 DEF StepOf
<1>6. Laid'
  BY <1>i, <1>3, <1>4, <1>5, IdlePlaced, LaidKept
<1>7. Indices(f)' = UpTo(blocks_allocated(f))
  <2>1. blocks_allocated(f)' = blocks_allocated(f)
    BY DEF blocks_allocated
  <2>2. Indices(f)' = UpTo(blocks_allocated(f)')
    BY <1>i, <1>3, <1>4, <1>5, OwnIndices
  <2> QED
    BY <2>1, <2>2
<1>8. UpTo(blocks_allocated(f)) \subseteq UpTo(k)
  BY <1>3, Constants DEF UpTo
<1>9. health \in {"sound", "leaking"}
  BY <1>i, <1>1, Typing
<1>10. ASSUME Leaked(t) = "sound"
       PROVE  health = "sound" /\ Indices(f)' = Indices(f)
  <2>1. health = "sound" /\ ~ Got(t)
    BY <1>10 DEF Leaked
  <2>2. call[t].at \notin First /\ ~ k > blocks_allocated(f)
    BY <1>1, <1>2, <2>1 DEF Got, At, First
  <2>3. k = blocks_allocated(f)
    BY <1>3, <2>2, Constants
  <2> QED
    BY <1>3, <1>7, <2>1, <2>2, <2>3
<1>11. \A j \in 0 .. k - 1 : j \in Indices(f)
  BY <1>3 DEF UpTo
<1> QED
  BY <1>2, <1>3, <1>4, <1>5, <1>6, <1>7, <1>8, <1>9, <1>10, <1>11 DEF Leaked

\* A write that found no block and fills none.
LEMMA WriteFails ==
  ASSUME IInv, NEW t \in Thread, write_fails(t)
  PROVE  IInv'
<1>i. TypeOK /\ Laid /\ LocksHeld /\ Owned /\ BlocksDistinct /\ BytesInPlace
  BY DEF IInv, Owned, Laid
<1>1. /\ Failing(t) /\ Return(t) /\ health' = Leaked(t)
      /\ UNCHANGED <<inode_table, free_blocks, fs_data, reached, written>>
  BY DEF write_fails
<1>2. PICK f : f = call[t].file
  OBVIOUS
<1>3. /\ f \in File /\ StepOf(t, f) /\ Laid' /\ call' \in [Thread -> Calls] /\ ~ Freeing(f)
      /\ Indices(f)' \subseteq Indices(f)
      /\ health' \in {"sound", "leaking"}
      /\ health' = "sound" => health = "sound" /\ Indices(f)' = Indices(f)
  BY <1>1, <1>2, FailReturn
<1>4. health # "damaged"
  BY <1>1 DEF Failing, At
<1>5. \A g \in File : \A j \in Indices(g) : BlockOf(g, j)' = BlockOf(g, j)
  BY <1>1 DEF BlockOf, get_block_number
<1>6. Owned'
  BY <1>i, <1>1, <1>3, <1>4, <1>5, KeepStep
<1>7. BytesInPlace'
  <2>1. ChangesOnly(f, {}) /\ {} \subseteq Indices(f) /\ {} \subseteq {-1}
    BY <1>1 DEF ChangesOnly
  <2> QED
    BY <1>i, <1>1, <1>3, <1>4, <1>5, <2>1, OwnBytesKept
<1>8. TypeOK'
  BY <1>i, <1>1, <1>3, Typing, TypingNext
<1> QED
  BY <1>3, <1>6, <1>7, <1>8 DEF IInv

\* Once a write has gone beyond its blocks, only types are claimed.
LEMMA Damaged ==
  ASSUME IInv, health' = "damaged", free_blocks' = free_blocks, Laid',
         inode_table' = inode_table, reached' = reached, written' = written,
         call' \in [Thread -> Calls], fs_data' \in [Address -> Int]
  PROVE  IInv'
<1>1. TypeOK'
  BY Typing, TypingNext DEF IInv
<1>2. Owned'
  BY DEF IInv, Owned, RootTaken, BlocksDistinct, BlocksKept, ROOT_BLOCK
<1>3. BytesInPlace'
  BY DEF BytesInPlace
<1> QED
  BY <1>1, <1>2, <1>3 DEF IInv

\* A caller's bytes with any behind them are a buffer.
LEMMA PaddedBuffer ==
  \A n : \A f \in File, offset \in Int :
    [i \in 0 .. MAX_FILE_SIZE - 1 |-> IF i < n THEN Data(f, offset + i) ELSE Junk] \in Buffers
<1> SUFFICES ASSUME NEW f \in File, NEW offset \in Int, NEW n
             PROVE  [i \in 0 .. MAX_FILE_SIZE - 1 |->
                        IF i < n THEN Data(f, offset + i) ELSE Junk] \in Buffers
  OBVIOUS
<1>1. \A i \in 0 .. MAX_FILE_SIZE - 1 : Data(f, offset + i) \in Int
  BY DataInt, Constants
<1> QED
  BY <1>1 DEF Buffers, Junk

\* A write that found no block and fills those it has, or the block behind the last of them.
LEMMA WriteFailsFilling ==
  ASSUME IInv, NEW t \in Thread, write_fails_filling(t)
  PROVE  IInv'
<1>i. TypeOK /\ Laid /\ LocksHeld /\ Owned /\ BlocksDistinct /\ BytesInPlace
  BY DEF IInv, Owned, Laid
<1>c. BLOCK_SIZE \in Nat \ {0} /\ MAX_FILE_SIZE \in Nat /\ MAX_BLOCKS \in Nat
  BY Constants
<1>1. PICK f, offset, start, last, o, n, needed :
        /\ f = call[t].file /\ offset = call[t].offset /\ needed = call[t].to_write
        /\ start = current_block(offset) /\ last = call[t].block - 1
        /\ o = BLOCK_OFFSET(offset) /\ n = (last - start + 1) * BLOCK_SIZE
  OBVIOUS
<1>2. PICK buffer : buffer = [i \in 0 .. MAX_FILE_SIZE - 1 |->
                                IF i < needed THEN Data(f, offset + i) ELSE Junk]
  OBVIOUS
<1>3. /\ Failing(t) /\ Return(t) /\ start < last
      /\ fill_blocks(f, Pieces(start, last, o, n), buffer)
      /\ health' = IF o > 0 THEN "damaged" ELSE Leaked(t)
      /\ inode_table' = inode_table /\ free_blocks' = free_blocks
      /\ reached' = reached /\ written' = written
  BY <1>1, <1>2 DEF write_fails_filling
<1>4. health # "damaged" /\ call[t].at \in {"failing", "failing_first"}
  BY <1>3 DEF Failing, At
<1>5. /\ f \in File /\ StepOf(t, f) /\ Laid' /\ call' \in [Thread -> Calls] /\ ~ Freeing(f)
      /\ Indices(f)' \subseteq Indices(f)
      /\ Leaked(t) \in {"sound", "leaking"}
      /\ Leaked(t) = "sound" => health = "sound" /\ Indices(f)' = Indices(f)
      /\ \A k \in 0 .. last : k \in Indices(f)
  BY <1>1, <1>3, FailReturn
<1>6. /\ offset \in Nat /\ needed \in Nat \ {0} /\ offset + needed <= MAX_FILE_SIZE
      /\ last + 1 \in 0 .. MAX_BLOCKS
      /\ last + 1 < rw_total_blocks(offset, needed)
  <2>1. call[t].at \in Extending
    BY <1>4 DEF Extending, First
  <2>2. /\ offset \in Nat /\ needed \in Nat \ {0} /\ offset + needed <= MAX_FILE_SIZE
        /\ call[t].block \in 0 .. MAX_BLOCKS
        /\ call[t].block < rw_total_blocks(offset, needed)
    BY <1>i, <1>1, <2>1, ExtendingCall
  <2>3. last + 1 = call[t].block
    BY <1>1, <2>2
  <2> QED
    BY <2>2, <2>3
<1>7. /\ start \in Nat /\ o \in 0 .. BLOCK_SIZE - 1 /\ offset = start * BLOCK_SIZE + o
  <2>1. start \in Nat
    BY <1>c, <1>1, <1>6 DEF current_block
  <2> QED
    BY <1>c, <1>1, <1>6, <2>1, DivMod DEF current_block, BLOCK_OFFSET
<1>8. last \in Nat /\ last - start + 1 \in 0 .. MAX_BLOCKS
  <2>1. last \in Int
    <3>1. call[t].block \in 0 .. MAX_BLOCKS
      BY <1>i, Typing DEF Calls
    <3> QED
      BY <1>1, <1>c, <3>1
  <2>2. start \in Nat
    BY <1>7
  <2> QED
    BY <1>c, <1>3, <1>6, <2>1, <2>2
<1>9. /\ n = (last - start) * BLOCK_SIZE + BLOCK_SIZE /\ n \in Nat \ {0}
      /\ (last - start) * BLOCK_SIZE \in Nat
  <2>1. last - start \in Nat
    BY <1>3, <1>7, <1>8
  <2>2. (last - start) * BLOCK_SIZE \in Nat
    BY <1>c, <2>1, MulNat
  <2>3. n = (last - start) * BLOCK_SIZE + BLOCK_SIZE
    BY <1>c, <1>1, <2>1
  <2> QED
    BY <1>c, <2>2, <2>3
<1>10. n <= MAX_FILE_SIZE
  <2>1. PICK m \in 0 .. MAX_BLOCKS : m = last - start + 1
    BY <1>8
  <2>2. m * BLOCK_SIZE <= MAX_BLOCKS * BLOCK_SIZE
    BY <1>c, <2>1
  <2>3. MAX_FILE_SIZE = MAX_BLOCKS * BLOCK_SIZE
    BY Constants
  <2> QED
    BY <1>1, <2>1, <2>2, <2>3
<1>11. Walk(f, start, last, o, n)
  <2>1. Spans(start, last, o, n)
    BY <1>c, <1>3, <1>7, <1>8, <1>9 DEF Spans
  <2>2. start .. last \subseteq Indices(f)
    BY <1>5, <1>7, <1>8
  <2> QED
    BY <1>10, <2>1, <2>2 DEF Walk
<1>12. fs_data' \in [Address -> Int]
  <2>1. buffer \in Buffers
    <3>1. offset \in Int
      BY <1>6
    <3>2. [i \in 0 .. MAX_FILE_SIZE - 1 |->
            IF i < needed THEN Data(f, offset + i) ELSE Junk] \in Buffers
      BY <1>5, <3>1, PaddedBuffer
    <3> QED
      BY <1>2, <3>2
  <2> QED
    BY <1>i, <1>3, <1>4, <1>5, <1>11, <2>1, WalkTyped
<1>13. ASSUME o > 0
       PROVE  IInv'
  BY <1>3, <1>5, <1>12, <1>13, Damaged
<1>14. ASSUME o = 0
       PROVE  IInv'
  <2>1. o + n <= (last - start) * BLOCK_SIZE + BLOCK_SIZE
    BY <1>9, <1>14, <1>c
  <2>2. n < needed
    <3>1. PICK needs : needs = rw_total_blocks(offset, needed)
      OBVIOUS
    <3>2. offset + needed \in 0 .. MAX_FILE_SIZE /\ offset + needed > 0
      BY <1>c, <1>6
    <3>3. needs \in 0 .. MAX_BLOCKS /\ needs * BLOCK_SIZE - BLOCK_SIZE < offset + needed
      BY <3>1, <3>2, Sizes DEF rw_total_blocks
    <3>4. last * BLOCK_SIZE + BLOCK_SIZE + BLOCK_SIZE <= needs * BLOCK_SIZE
      <4>1. last + 1 < needs
        BY <1>6, <3>1
      <4>2. (last + 1) * BLOCK_SIZE + BLOCK_SIZE <= needs * BLOCK_SIZE
        BY <1>c, <1>8, <3>3, <4>1, MulStep
      <4>3. (last + 1) * BLOCK_SIZE = last * BLOCK_SIZE + BLOCK_SIZE
        BY <1>c, <1>8
      <4> QED
        BY <4>2, <4>3
    <3>5. /\ (last - start) * BLOCK_SIZE = last * BLOCK_SIZE - start * BLOCK_SIZE
          /\ last * BLOCK_SIZE \in Int /\ start * BLOCK_SIZE \in Int /\ needs * BLOCK_SIZE \in Int
      BY <1>c, <1>7, <1>8, <3>3
    <3> QED
      BY <1>c, <1>6, <1>7, <1>9, <1>14, <3>3, <3>4, <3>5
  <2>3. \A i \in 0 .. n - 1 : buffer[i] = Data(f, offset + i)
    BY <1>c, <1>2, <1>6, <1>9, <1>10, <2>2
  <2>4. \A q \in written'[f] : \/ q \in written[f]
                               \/ q \in offset .. offset + n - 1 /\ q < inode_table'[f].i_size
    BY <1>3
  <2>5. inode_table[f].i_size <= inode_table'[f].i_size /\ inode_table'[f].i_size \in Nat
    <3>1. inode_table[f].i_size \in Nat
      BY <1>i, <1>5, Typing, Constants DEF Inodes
    <3> QED
      BY <1>3, <3>1
  <2>6. /\ \A g \in File : \A k \in Indices(g) :
                BlockOf(g, k)' = BlockOf(g, k)
        /\ BytesInPlace'
    BY <1>3, <1>4, <1>5, <1>6, <1>7, <1>11, <2>1, <2>3, <2>4, <2>5, WalkStep
  <2>7. health' = Leaked(t)
    BY <1>3, <1>14
  <2>8. Owned'
    BY <1>i, <1>3, <1>4, <1>5, <2>6, <2>7, KeepStep
  <2>9. TypeOK'
    BY <1>i, <1>3, <1>5, <1>12, <2>7, Typing, TypingNext
  <2> QED
    BY <1>5, <2>6, <2>8, <2>9 DEF IInv
<1> QED
  BY <1>7, <1>c, <1>13, <1>14

\* A write that found no block and fills one that an old pointer names.
LEMMA WriteFailsStale ==
  ASSUME IInv, NEW t \in Thread, write_fails_stale(t)
  PROVE  IInv'
<1>i. TypeOK /\ Laid
  BY DEF IInv
<1>c. BLOCK_SIZE \in Nat \ {0} /\ MAX_FILE_SIZE \in Nat /\ BLOCK_SIZE <= MAX_FILE_SIZE
  BY Constants
<1>1. PICK f, offset, start, o, needed, stale :
        /\ f = call[t].file /\ offset = call[t].offset /\ needed = call[t].to_write
        /\ start = current_block(offset) /\ o = BLOCK_OFFSET(offset)
        /\ stale = get_block_number(f, start)
  OBVIOUS
<1>2. PICK buffer : buffer = [i \in 0 .. MAX_FILE_SIZE - 1 |->
                                IF i < needed THEN Data(f, offset + i) ELSE Junk]
  OBVIOUS
<1> DEFINE p == [block |-> start, at |-> o, from |-> 0, len |-> BLOCK_SIZE - o]
<1>3. /\ Failing(t) /\ Return(t) /\ health' = "damaged"
      /\ IF stale \in Block THEN fill_blocks(f, {p}, buffer) ELSE fs_data' = fs_data
      /\ inode_table' = inode_table /\ free_blocks' = free_blocks
      /\ reached' = reached /\ written' = written
  BY <1>1, <1>2 DEF write_fails_stale
<1>4. f \in File /\ Laid' /\ call' \in [Thread -> Calls]
  BY <1>1, <1>3, FailReturn
<1>5. offset \in Nat
  <2>1. call[t].at \in Extending
    BY <1>3 DEF Failing, At, Extending, First
  <2> QED
    BY <1>i, <1>1, <2>1, ExtendingCall
<1>6. o \in 0 .. BLOCK_SIZE - 1
  <2>1. offset % BLOCK_SIZE \in 0 .. BLOCK_SIZE - 1
    BY <1>c, <1>5, DivMod
  <2> QED
    BY <1>1, <2>1 DEF BLOCK_OFFSET
<1>7. p.block = start /\ p.at = o /\ p.from = 0 /\ p.len = BLOCK_SIZE - o
  OBVIOUS
<1> HIDE DEF p
<1>8. fs_data' \in [Address -> Int]
  <2>1. ASSUME stale \in Block
        PROVE  fs_data' \in [Address -> Int]
    <3>1. Base(f, p) \in Int
      BY <1>1, <1>6, <1>7, <1>c, <2>1 DEF Base, Block
    <3>2. p.from \in Nat /\ p.len \in Nat /\ p.from + p.len <= MAX_FILE_SIZE
      BY <1>6, <1>7, <1>c
    <3>3. \A a \in Address : Over(f, {p}, a) # {} =>
            \E r \in Over(f, {p}, a) : \A q \in Over(f, {p}, a) : q.from <= r.from
      <4>1. p.from <= p.from
        BY <1>7
      <4> QED
        BY <4>1 DEF Over
    <3>4. buffer \in Buffers
      <4>1. offset \in Int
        BY <1>5
      <4>2. [i \in 0 .. MAX_FILE_SIZE - 1 |->
              IF i < needed THEN Data(f, offset + i) ELSE Junk] \in Buffers
        BY <1>4, <4>1, PaddedBuffer
      <4> QED
        BY <1>2, <4>2
    <3>5. fill_blocks(f, {p}, buffer)
      BY <1>3, <2>1
    <3> QED
      BY <1>i, <3>1, <3>2, <3>3, <3>4, <3>5, FillTyped
  <2> QED
    BY <1>i, <1>3, <2>1, Typing
<1> QED
  BY <1>3, <1>4, <1>8, Damaged

-----------------------------------------------------------------------------
(* The theorems *)

\* After tfs_init no file has a block.
LEMMA InitHolds == Init => IInv
<1> SUFFICES ASSUME Init PROVE IInv
  OBVIOUS
<1>1. /\ \A f \in File : /\ inode_table[f].i_size = 0 /\ written[f] = {}
      /\ \A t \in Thread : call[t] = Idle
      /\ free_blocks = Block \ {ROOT_BLOCK}
  BY DEF Init
<1>2. TypeOK
  <2>1. [i_size |-> 0,
         i_direct_data_blocks |-> [k \in Direct |-> IF k = 0 THEN UNALLOCATED_BLOCK ELSE 0],
         i_indirect_data_block |-> UNALLOCATED_BLOCK] \in Inodes
    <3>1. 0 \in 0 .. MAX_FILE_SIZE /\ 0 \in Block
      BY Constants DEF Block
    <3> QED
      BY <3>1 DEF Inodes, UNALLOCATED_BLOCK
  <2>2. Idle \in Calls
    BY Constants DEF Idle, Calls, Steps
  <2>3. 0 \in 0 .. MAX_FILE_SIZE
    BY Constants
  <2> QED
    <3>1. inode_table \in [File -> Inodes]
      BY <2>1 DEF Init
    <3>2. call \in [Thread -> Calls]
      BY <2>2 DEF Init
    <3>3. fs_data \in [Address -> Int] /\ free_blocks \subseteq Block
      BY DEF Init, Junk
    <3>4. /\ reached \in [File -> 0 .. MAX_FILE_SIZE]
          /\ written \in [File -> SUBSET (0 .. MAX_FILE_SIZE - 1)]
          /\ health \in {"sound", "leaking", "damaged"}
      BY <2>3 DEF Init
    <3> QED
      BY <3>1, <3>2, <3>3, <3>4, Typing
<1>3. Laid
  BY <1>1 DEF Laid, LocksHeld, CallsPlaced, Placed, Idle, First, Extending
<1>4. \A f \in File : Indices(f) = {}
  <2>1. \A f \in File : ~ Locked(f)
    BY <1>1 DEF Locked, Idle
  <2>2. BLOCK_SIZEOF(0) = 0
    BY Constants, Sizes
  <2>3. UpTo(0) = {}
    BY Constants DEF UpTo
  <2> QED
    BY <1>1, <2>1, <2>2, <2>3, IndicesUnlocked DEF blocks_allocated
<1>5. Owned
  BY <1>1, <1>4 DEF Owned, RootTaken, BlocksDistinct, BlocksKept
<1>6. BytesInPlace
  BY <1>1 DEF BytesInPlace
<1> QED
  BY <1>2, <1>3, <1>5, <1>6 DEF IInv

\* The invariant is inductive.
LEMMA NextKeeps == IInv /\ [Next]_vars => IInv'
<1> SUFFICES ASSUME IInv, [Next]_vars PROVE IInv'
  OBVIOUS
<1>1. ASSUME Next PROVE IInv'
  <2>1. PICK t \in Thread :
          \/ \E f \in File : open_truncate(t, f)
          \/ free_block(t) \/ free_indirect_block(t)
          \/ \E w \in Writes : write_begin(t, w)
          \/ allocate_block(t) \/ allocate_first_of_indirect(t) \/ allocate_none(t)
          \/ write_filled(t)
          \/ write_fails(t) \/ write_fails_filling(t) \/ write_fails_stale(t)
    BY <1>1 DEF Next
  <2>2. CASE \E f \in File : open_truncate(t, f)
    BY <2>2, OpenTruncate
  <2>3. CASE free_block(t)
    BY <2>3, FreeBlock
  <2>4. CASE free_indirect_block(t)
    BY <2>4, FreeIndirectBlock
  <2>5. CASE \E w \in Writes : write_begin(t, w)
    BY <2>5, WriteBegin
  <2>6. CASE allocate_block(t)
    BY <2>6, AllocateBlock
  <2>7. CASE allocate_first_of_indirect(t)
    BY <2>7, AllocateFirstOfIndirect
  <2>8. CASE allocate_none(t)
    BY <2>8, AllocateNone
  <2>9. CASE write_filled(t)
    BY <2>9, WriteFilled
  <2>10. CASE write_fails(t)
    BY <2>10, WriteFails
  <2>11. CASE write_fails_filling(t)
    BY <2>11, WriteFailsFilling
  <2>12. CASE write_fails_stale(t)
    BY <2>12, WriteFailsStale
  <2> QED
    BY <2>1, <2>2, <2>3, <2>4, <2>5, <2>6, <2>7, <2>8, <2>9, <2>10, <2>11, <2>12
<1>2. CASE UNCHANGED vars
  <2>1. UNCHANGED <<inode_table, free_blocks, fs_data, call, reached, written, health>>
    BY <1>2 DEF vars
  <2>2. TypeOK'
    BY <2>1 DEF IInv, TypeOK
  <2>3. Laid'
    BY <2>1 DEF IInv, Laid, LocksHeld, CallsPlaced, Placed, blocks_allocated
  <2>4. \A f \in File :
          /\ Indices(f)' = Indices(f) /\ Freeing(f)' = Freeing(f)
          /\ \A k : BlockOf(f, k)' = BlockOf(f, k)
          /\ \A q : CellOf(f, q)' = CellOf(f, q)
    BY <2>1 DEF Indices, Freeing, Locked, blocks_allocated, BlockOf, get_block_number, CellOf
  <2>5. Owned'
    BY <2>1, <2>4 DEF IInv, Owned, RootTaken, BlocksDistinct, BlocksKept
  <2>6. BytesInPlace'
    BY <2>1, <2>4 DEF IInv, BytesInPlace
  <2> QED
    BY <2>2, <2>3, <2>5, <2>6 DEF IInv
<1> QED
  BY <1>1, <1>2

\* The invariant holds in every reachable state.
LEMMA InvariantHolds == Spec => []IInv
  BY InitHolds, NextKeeps, PTL DEF Spec

\* Types, and the calls of the threads stay calls on files.
THEOREM TypesHold == Spec => []TypeOK
<1>1. IInv => TypeOK
  BY DEF IInv
<1> QED
  BY <1>1, InvariantHolds, PTL

\* However the calls of any number of threads take and give back blocks, no
\* block is at two places, FREE while a file names it, or the root directory's.
THEOREM BlocksAreAtOnePlace == Spec => []OnePlacePerBlock
<1>1. IInv => OnePlacePerBlock
  <2> SUFFICES ASSUME IInv, health # "damaged", NEW p \in Places
               PROVE  /\ BlockAt(p) \in Block \ (free_blocks \cup {ROOT_BLOCK})
                      /\ \A q \in Places : BlockAt(p) = BlockAt(q) => p = q
    BY DEF OnePlacePerBlock
  <2>1. \A q \in Places : q[1] \in File /\ q[2] \in Indices(q[1]) /\ q = <<q[1], q[2]>>
    BY DEF Places
  <2> QED
    BY <2>1 DEF IInv, Owned, BlocksDistinct, BlockAt
<1> QED
  BY <1>1, InvariantHolds, PTL

\* As long as no write failed for want of blocks, every block is FREE, the root
\* directory's, or named by a file.
THEOREM BlocksAreKept == Spec => []NoBlockLost
<1>1. IInv => NoBlockLost
  <2> SUFFICES ASSUME IInv, health = "sound", NEW b \in Block \ (free_blocks \cup {ROOT_BLOCK})
               PROVE  \E p \in Places : BlockAt(p) = b
    BY DEF NoBlockLost
  <2>1. PICK f \in File : \E k \in Indices(f) : BlockOf(f, k) = b
    BY DEF IInv, Owned, BlocksKept
  <2>2. PICK k \in Indices(f) : BlockOf(f, k) = b
    BY <2>1
  <2>3. k \in -1 .. MAX_BLOCKS
    <3>1. k \in -1 .. MAX_BLOCKS - 1
      BY IndicesRange DEF IInv
    <3> QED
      BY <3>1, Constants
  <2>4. <<f, k>> \in Places /\ BlockAt(<<f, k>>) = b
    BY <2>2, <2>3 DEF Places, BlockAt
  <2> QED
    BY <2>4
<1> QED
  BY <1>1, InvariantHolds, PTL

\* Whatever part of an unlocked file is read, through direct and indirect
\* blocks, each byte written there and not truncated since comes back.
THEOREM ReadsAreTrue == Spec => []ReadsGiveBack
<1>1. IInv => ReadsGiveBack
  <2> SUFFICES ASSUME IInv, health # "damaged", NEW f \in File, ~ Locked(f),
                      NEW offset \in 0 .. inode_table[f].i_size - 1,
                      NEW n \in 1 .. inode_table[f].i_size - offset,
                      NEW i \in 0 .. n - 1, offset + i \in written[f]
               PROVE  read_impl(f, offset, n)[i] = Data(f, offset + i)
    BY DEF ReadsGiveBack
  <2>i. TypeOK /\ Laid /\ BlocksDistinct /\ BytesInPlace
    BY DEF IInv, Owned
  <2>c. BLOCK_SIZE \in Nat \ {0} /\ MAX_FILE_SIZE \in Nat
    BY Constants
  <2>1. offset \in Nat /\ n \in Nat \ {0} /\ offset + n <= MAX_FILE_SIZE /\ i \in Nat
    <3>1. inode_table[f].i_size \in 0 .. MAX_FILE_SIZE
      BY <2>i, Typing DEF Inodes
    <3> QED
      BY <2>c, <3>1
  <2>2. PICK start, last, o : start = current_block(offset) /\ last = final_block(offset, n)
                              /\ o = BLOCK_OFFSET(offset)
    OBVIOUS
  <2>3. /\ Spans(start, last, o, n) /\ offset = start * BLOCK_SIZE + o
        /\ o + n <= (last - start) * BLOCK_SIZE + BLOCK_SIZE
    BY <2>1, <2>2, WriteWalk
  <2>4. start \in Nat /\ last \in Nat /\ o \in 0 .. BLOCK_SIZE - 1
    BY <2>3 DEF Spans
  <2>5. PICK k, c : k = (offset + i) \div BLOCK_SIZE /\ c = (offset + i) % BLOCK_SIZE
    OBVIOUS
  <2>6. /\ (offset + i) - offset = (k - start) * BLOCK_SIZE + c - o
        /\ c \in 0 .. BLOCK_SIZE - 1 /\ k \in start .. last
    <3>1. ByteSpot(offset + i, k, c)
      BY <2>1, <2>5 DEF ByteSpot
    <3>2. Within(offset, start, last, o, n)
      BY <2>1, <2>3 DEF Within
    <3>3. offset + i \in offset .. offset + n - 1
      BY <2>1
    <3> QED
      BY <3>1, <3>2, <3>3, ByteOfWalk
  <2> DEFINE pieces == Pieces(start, last, o, n)
  <2>7. PICK p \in pieces : p.block = k
    BY <2>3, <2>6, PieceOfBlock
  <2>8. i = (k - start) * BLOCK_SIZE + c - o
    BY <2>1, <2>6
  <2>9. p.at <= c /\ c < p.at + p.len /\ i = p.from + (c - p.at)
    BY <2>3, <2>6, <2>7, <2>8, PieceOfByte
  <2>10. \A q \in pieces : /\ q.at \in Nat /\ q.from \in Nat /\ q.len \in Nat
                           /\ q.block \in start .. last
    BY <2>3, PieceShape DEF PieceAt
  <2>11. p.from <= i /\ i < p.from + p.len
    BY <2>4, <2>6, <2>7, <2>9, <2>10
  <2> DEFINE P == CHOOSE q \in pieces : q.from <= i /\ i < q.from + q.len
  <2>12. P \in pieces /\ P.from <= i /\ i < P.from + P.len
    BY <2>7, <2>11
  <2>13. read_impl(f, offset, n)[i] =
            fs_data[get_block_number(f, P.block) * BLOCK_SIZE + P.at + (i - P.from)]
    BY <2>2 DEF read_impl
  <2> HIDE DEF P
  \* The piece is the one of block k, for byte i lies in no other.
  <2>14. P.block = k /\ P.at + (i - P.from) = c
    <3>1. PICK d : d = P.at + (i - P.from)
      OBVIOUS
    <3>2. PieceAt(P, start, last, o, n) /\ PieceAt(p, start, last, o, n)
      BY <2>3, <2>7, <2>12, PieceShape
    <3>3. d \in 0 .. BLOCK_SIZE - 1
      <4>1. P.at + P.len <= BLOCK_SIZE
        <5>1. P.block \in start .. last /\ 0 \in 0 .. BLOCK_SIZE - 1
          BY <2>10, <2>12, <2>c
        <5> QED
          BY <2>3, <2>12, <5>1, PieceOfByte
      <4> QED
        BY <2>1, <2>10, <2>12, <2>c, <3>1, <4>1
    <3>4. i = (P.block - start) * BLOCK_SIZE + d - o
      <4>1. PICK m \in Int : m = (P.block - start) * BLOCK_SIZE
        BY <2>4, <2>10, <2>12, <2>c
      <4>2. P.from = m + P.at - o
        BY <3>2, <4>1 DEF PieceAt
      <4>3. i = m + d - o
        BY <2>1, <2>4, <2>10, <2>12, <3>1, <4>2
      <4> QED
        BY <4>1, <4>3
    <3>5. offset + i = P.block * BLOCK_SIZE + d
      <4>1. P.block \in Int
        BY <2>4, <2>10, <2>12
      <4>2. (P.block - start) * BLOCK_SIZE = P.block * BLOCK_SIZE - start * BLOCK_SIZE
            /\ P.block * BLOCK_SIZE \in Int /\ start * BLOCK_SIZE \in Int
        BY <2>4, <2>c, <4>1
      <4> QED
        BY <2>1, <2>3, <2>4, <2>c, <3>3, <3>4, <4>2
    <3>6. P.block \in Int
      BY <2>4, <2>10, <2>12
    <3> QED
      <4>1. (P.block * BLOCK_SIZE + d) \div BLOCK_SIZE = P.block
            /\ (P.block * BLOCK_SIZE + d) % BLOCK_SIZE = d
        BY <2>c, <3>3, <3>6, DivUnique
      <4> QED
        BY <2>5, <3>1, <3>5, <4>1
  <2>15. read_impl(f, offset, n)[i] = fs_data[CellOf(f, offset + i)]
    <3>1. k \in Int /\ BlockOf(f, k) \in Block
      <4>1. k \in 0 .. blocks_allocated(f) - 1
        <5>1. offset + i \in 0 .. inode_table[f].i_size - 1 /\ inode_table[f].i_size \in 0 .. MAX_FILE_SIZE
          BY <2>i, <2>1, Typing DEF Inodes
        <5> QED
          BY <2>5, <5>1, Sizes DEF blocks_allocated
      <4>2. k \in Indices(f)
        <5>1. ~ Freeing(f)
          BY DEF Freeing, Locked
        <5> QED
          BY <2>i, <4>1, <5>1, SizeHeld
      <4> QED
        BY <2>i, <4>1, <4>2 DEF BlocksDistinct
    <3>2. PICK b \in Int : b = BlockOf(f, k) * BLOCK_SIZE
      BY <2>c, <3>1 DEF Block
    <3>3. P.at \in Int /\ P.from \in Int /\ i \in Int
      BY <2>1, <2>10, <2>12
    <3>4. b + P.at + (i - P.from) = b + c
      BY <2>14, <3>2, <3>3
    <3>5. BlockOf(f, k) = get_block_number(f, k)
      BY <2>4, <2>6, NumberOf
    <3> QED
      BY <2>5, <2>13, <2>14, <3>2, <3>4, <3>5 DEF CellOf
  <2>16. fs_data[CellOf(f, offset + i)] = Data(f, offset + i)
    <3>1. ~ Freeing(f)
      BY DEF Freeing, Locked
    <3> QED
      BY <2>i, <3>1, ByteHeld
  <2> QED
    BY <2>15, <2>16
<1> QED
  BY <1>1, InvariantHolds, PTL

=============================================================================
