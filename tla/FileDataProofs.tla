--------------------------- MODULE FileDataProofs ----------------------------
(***************************************************************************)
(* Proofs about FileData, for any files, slots, blocks, block size and way *)
(* to place the blocks: a file that never existed beside another with one  *)
(* of its device blocks reads what it wrote through the page cache.        *)
(***************************************************************************)
EXTENDS FileData, TLAPS

Marks == Files \union {Nobody}
Page == [cached : BOOLEAN, dirty : BOOLEAN, data : [Bytes -> Marks]]
DataType ==
    /\ st \in [Files -> {"free", "live", "orphan"}]
    /\ slot \in [Files -> Slots \union {NoSlot}]
    /\ used \subseteq Slots /\ met \subseteq Files
    /\ size \in [Files -> Nat] /\ i_size \in [Files -> Nat]
    /\ page \in [Files -> [Blocks -> Page]]
    /\ device \in [DeviceBlocks -> [Bytes -> Marks]]
    /\ wrote \in [Files -> SUBSET (Blocks \X Bytes)]

\* A file that exists has a slot; one that does not has no dirty pages; a dirty page is
\* in the cache.
FileInv ==
    \A f \in Files :
        /\ st[f] # "free" => slot[f] \in Slots
        /\ st[f] = "free" => wrote[f] = {} /\ \A b \in Blocks : ~page[f][b].dirty
        /\ \A b \in Blocks : page[f][b].dirty => page[f][b].cached

\* A file that met no other has its blocks for itself, each once.
SlotInv ==
    \A f \in Files \ met : st[f] # "free" =>
        /\ ~Folded(slot[f])
        /\ \A g \in Files \ {f} : st[g] # "free" => ~Touch(slot[f], slot[g])

\* Where byte u of block b of f is, and that the sizes count it.
Held(f, b, u) ==
    /\ b * U + u < i_size[f] /\ b < size[f]
    /\ page[f][b].cached => page[f][b].data[u] = f
    /\ ~page[f][b].dirty => device[Block(f, b)][u] = f
HeldInv ==
    \A f \in Files \ met : st[f] # "free" =>
        \A b \in Blocks, u \in Bytes : <<b, u>> \in wrote[f] => Held(f, b, u)

DataInv == DataType /\ FileInv /\ SlotInv /\ HeldInv

-----------------------------------------------------------------------------
(* Lemmas about the operators *)

LEMMA BlockBelowByte ==
    ASSUME NEW b \in Blocks, NEW u \in Bytes
    PROVE  b * U <= b * U + u /\ b <= b * U + u /\ b * U \in Nat /\ b \in Nat /\ u \in Nat
<1>1. b \in Nat /\ U \in Nat /\ U >= 1 /\ u \in Nat
  BY DataAssumption DEF Bytes
<1>2. \A x, y \in Nat : y >= 1 => x * y >= x /\ x * y \in Nat
  OBVIOUS
<1> QED BY <1>1, <1>2

LEMMA LargerType ==
    ASSUME NEW x \in Nat, NEW y \in Nat
    PROVE  Larger(x, y) \in Nat /\ Larger(x, y) >= x /\ Larger(x, y) >= y
  BY DEF Larger

LEMMA ZeroType == Zero \in [Bytes -> Marks] /\ Absent \in Page
                  /\ Absent.cached = FALSE /\ Absent.dirty = FALSE
  BY DEF Zero, Marks, Absent, Page

LEMMA PageUpdate ==
    ASSUME DataType, NEW f \in Files, NEW b \in Blocks, NEW r \in Page,
           page' = [page EXCEPT ![f][b] = r]
    PROVE  /\ page' \in [Files -> [Blocks -> Page]]
           /\ page'[f][b] = r
           /\ \A g \in Files, c \in Blocks : g # f \/ c # b => page'[g][c] = page[g][c]
  BY DEF DataType

LEMMA PageFields ==
    ASSUME DataType, NEW f \in Files, NEW b \in Blocks
    PROVE  /\ page[f][b] \in Page
           /\ page[f][b].cached \in BOOLEAN /\ page[f][b].dirty \in BOOLEAN
           /\ page[f][b].data \in [Bytes -> Marks]
  BY DEF DataType, Page

LEMMA PageMade ==
    ASSUME NEW dirty \in BOOLEAN, NEW cached \in BOOLEAN, NEW data \in [Bytes -> Marks]
    PROVE  [cached |-> cached, dirty |-> dirty, data |-> data] \in Page
  BY DEF Page

\* A file does not write to the device blocks of one that met no other.
LEMMA OtherBlock ==
    ASSUME FileInv, SlotInv, NEW f \in Files, NEW g \in Files,
           NEW b \in Blocks, NEW c \in Blocks, st[f] # "free",
           st[g] # "free", g \notin met, g # f \/ c # b
    PROVE  Block(g, c) # Block(f, b)
<1>1. CASE g # f
  <2>1. ~Touch(slot[g], slot[f])
    BY <1>1 DEF SlotInv
  <2> QED BY <2>1 DEF Touch, Block
<1>2. CASE g = f /\ c # b
  <2>1. ~Folded(slot[g])
    BY DEF SlotInv
  <2> QED BY <1>2, <2>1 DEF Folded, Block
<1> QED BY <1>1, <1>2

LEMMA BlockType ==
    ASSUME FileInv, NEW f \in Files, NEW b \in Blocks, st[f] # "free"
    PROVE  Block(f, b) \in DeviceBlocks
  BY DataAssumption DEF FileInv, Block

-----------------------------------------------------------------------------
(* Data *)

\* A byte that a step does not touch stays where it is.
LEMMA HeldOther ==
    ASSUME NEW g \in Files, NEW c \in Blocks, NEW v \in Bytes, Held(g, c, v),
           slot'[g] = slot[g], i_size'[g] = i_size[g], size'[g] = size[g],
           page'[g][c] = page[g][c], device'[Block(g, c)] = device[Block(g, c)]
    PROVE  Held(g, c, v)'
  BY DEF Held, Block

\* What a write, a truncation or the flusher may change of the files, and what not.
LEMMA DataStep ==
    ASSUME DataInv, NEW f \in Files, UNCHANGED nameVars, DataType', st[f] # "free",
           \A g \in Files \ {f} :
              /\ i_size'[g] = i_size[g] /\ size'[g] = size[g] /\ wrote'[g] = wrote[g]
              /\ \A b \in Blocks : page'[g][b] = page[g][b],
           \A b \in Blocks : page'[f][b].dirty => page'[f][b].cached,
           \A g \in Files \ (met \union {f}), b \in Blocks : st[g] # "free" =>
              device'[Block(g, b)] = device[Block(g, b)],
           f \notin met /\ st[f] # "free" =>
              \A b \in Blocks, u \in Bytes : <<b, u>> \in wrote'[f] => Held(f, b, u)'
    PROVE  DataInv'
<1>1. UNCHANGED <<st, slot, used, met>>
  BY DEF nameVars
<1>2. SlotInv'
  BY <1>1 DEF DataInv, SlotInv
<1>3. FileInv'
  BY <1>1 DEF DataInv, FileInv
<1>4. HeldInv'
  <2> SUFFICES ASSUME NEW g \in Files \ met, st[g] # "free", NEW b \in Blocks, NEW u \in Bytes,
                      <<b, u>> \in wrote'[g]
               PROVE  Held(g, b, u)'
    BY <1>1 DEF HeldInv
  <2>1. CASE g = f
    BY <2>1
  <2>2. CASE g # f
    <3>1. Held(g, b, u)
      BY <2>2 DEF DataInv, HeldInv
    <3> QED BY <1>1, <2>2, <3>1, HeldOther
  <2> QED BY <2>1, <2>2
<1> QED BY <1>2, <1>3, <1>4 DEF DataInv

LEMMA WriteStep ==
    ASSUME DataInv, NEW f \in Files, ffs_write(f)
    PROVE  DataInv'
<1>1. PICK b \in Blocks, from \in Bytes, to \in 1 .. U :
        LET part == from .. to - 1
            old == block_write_begin(f, b, part)
            end == b * U + to
        IN
        /\ from < to
        /\ page' = [page EXCEPT ![f][b] =
                      [cached |-> TRUE, dirty |-> TRUE,
                       data |-> [u \in Bytes |-> IF u \in part THEN f ELSE old[u]]]]
        /\ SizeUpdate(f, end)
        /\ i_size' = [i_size EXCEPT ![f] = Larger(end, @)]
        /\ wrote' = [wrote EXCEPT ![f] = @ \union ({b} \X part)]
  BY DEF ffs_write
<1> DEFINE part == from .. to - 1
           old == block_write_begin(f, b, part)
           end == b * U + to
           new == [u \in Bytes |-> IF u \in part THEN f ELSE old[u]]
           r == [cached |-> TRUE, dirty |-> TRUE, data |-> new]
<1>2. DataType /\ FileInv /\ SlotInv /\ HeldInv /\ U \in Nat \ {0} /\ b \in Nat
  BY DataAssumption DEF DataInv
<1>3. st[f] # "free" /\ UNCHANGED nameVars /\ UNCHANGED device
  BY DEF ffs_write, Writing
<1>4. /\ page' = [page EXCEPT ![f][b] = r]
      /\ size' = [size EXCEPT ![f] = Larger(end, size[f])]
      /\ i_size' = [i_size EXCEPT ![f] = Larger(end, i_size[f])]
      /\ wrote' = [wrote EXCEPT ![f] = wrote[f] \union ({b} \X part)]
  BY <1>1 DEF SizeUpdate
<1>5. part \subseteq Bytes
  BY <1>2 DEF Bytes
<1>6. Block(f, b) \in DeviceBlocks
  BY <1>2, <1>3, BlockType
<1>7. old \in [Bytes -> Marks]
  BY <1>2, <1>6, PageFields, ZeroType DEF block_write_begin, DataType
<1>8. end \in Nat /\ end > b * U /\ b * U \in Nat /\ end > b
  <2>1. b * U \in Nat /\ b * U >= b
    <3>1. \A x, y \in Nat : y >= 1 => x * y >= x /\ x * y \in Nat
      OBVIOUS
    <3> QED BY <1>2, <3>1
  <2> QED BY <1>2, <2>1
<1>9. size[f] \in Nat /\ i_size[f] \in Nat
  BY <1>2 DEF DataType
<1> HIDE DEF old, end
<1>10. new \in [Bytes -> Marks]
  BY <1>7 DEF Marks
<1> HIDE DEF new
<1>11. r \in Page /\ r.cached = TRUE /\ r.dirty = TRUE /\ r.data = new
  BY <1>10 DEF Page
<1> HIDE DEF r
<1>12. /\ page' \in [Files -> [Blocks -> Page]]
       /\ page'[f][b] = r
       /\ \A g \in Files, c \in Blocks : g # f \/ c # b => page'[g][c] = page[g][c]
  <2>1. page' = [page EXCEPT ![f][b] = r]
    BY <1>4
  <2>2. r \in Page
    BY <1>11
  <2>3. DataType
    BY <1>2
  <2> QED BY <2>1, <2>2, <2>3, PageUpdate, Zenon
<1>13. /\ Larger(end, size[f]) \in Nat /\ Larger(end, size[f]) >= end /\ Larger(end, size[f]) >= size[f]
       /\ Larger(end, i_size[f]) \in Nat /\ Larger(end, i_size[f]) >= end
       /\ Larger(end, i_size[f]) >= i_size[f]
  BY <1>8, <1>9, LargerType
<1>14. /\ size' \in [Files -> Nat] /\ i_size' \in [Files -> Nat]
       /\ size'[f] >= end /\ size'[f] >= size[f] /\ i_size'[f] >= end /\ i_size'[f] >= i_size[f]
       /\ \A g \in Files \ {f} : size'[g] = size[g] /\ i_size'[g] = i_size[g]
  BY <1>2, <1>4, <1>13 DEF DataType
<1> HIDE DEF part
<1>15. /\ wrote' \in [Files -> SUBSET (Blocks \X Bytes)]
       /\ wrote'[f] = wrote[f] \union ({b} \X part)
       /\ \A g \in Files \ {f} : wrote'[g] = wrote[g]
  BY <1>2, <1>4, <1>5 DEF DataType
<1>16. DataType'
  BY <1>2, <1>3, <1>12, <1>14, <1>15 DEF DataType, nameVars
<1>17. \A c \in Blocks : page'[f][c].dirty => page'[f][c].cached
  BY <1>2, <1>11, <1>12 DEF FileInv
<1>18. ASSUME f \notin met, st[f] # "free", NEW c \in Blocks, NEW u \in Bytes,
              <<c, u>> \in wrote'[f]
       PROVE  Held(f, c, u)'
  <2>0. c \in Nat /\ u \in Nat /\ c * U + u \in Nat
    BY BlockBelowByte, <1>2
  <2>1. CASE c # b
    <3>1. <<c, u>> \in wrote[f]
      BY <1>15, <1>18, <2>1
    <3>2. Held(f, c, u)
      BY <1>2, <1>18, <3>1 DEF HeldInv
    <3>3. c * U + u < i_size'[f] /\ c < size'[f]
      BY <1>9, <1>14, <2>0, <3>2 DEF Held, DataType
    <3>4. page'[f][c] = page[f][c] /\ slot'[f] = slot[f] /\ device' = device
      BY <1>3, <1>12, <2>1 DEF nameVars
    <3> QED BY <3>2, <3>3, <3>4 DEF Held, Block
  <2>2. CASE c = b /\ u \in part
    <3>1. u < to /\ b * U + u < end
      BY <1>2, <1>8, <2>0, <2>2 DEF part, end
    <3>2. b * U + u < i_size'[f] /\ b < size'[f]
      BY <1>2, <1>8, <1>14, <2>0, <2>2, <3>1 DEF DataType
    <3>3. new[u] = f
      BY <2>2 DEF new
    <3> QED BY <1>11, <1>12, <2>2, <3>2, <3>3 DEF Held
  <2>3. CASE c = b /\ u \notin part
    <3>1. <<b, u>> \in wrote[f]
      BY <1>15, <1>18, <2>3
    <3>2. Held(f, b, u)
      BY <1>2, <1>18, <3>1 DEF HeldInv
    <3>3. b * U + u < i_size'[f] /\ b < size'[f]
      BY <1>2, <1>9, <1>14, <2>0, <2>3, <3>2 DEF Held, DataType
    <3>4. old[u] = f
      <4>1. CASE page[f][b].cached
        BY <3>2, <4>1 DEF old, block_write_begin, Held
      <4>2. CASE ~page[f][b].cached
        <5>1. ~page[f][b].dirty
          BY <1>2, <4>2 DEF FileInv
        <5>2. ~BlockIsNew(f, b) /\ part # Bytes
          BY <1>2, <1>9, <2>3, <3>2 DEF Held, BlockIsNew
        <5> QED BY <3>2, <4>2, <5>1, <5>2 DEF old, block_write_begin, Held
      <4> QED BY <4>1, <4>2
    <3>5. new[u] = f
      BY <2>3, <3>4 DEF new
    <3> QED BY <1>11, <1>12, <2>3, <3>3, <3>5 DEF Held
  <2> QED BY <2>1, <2>2, <2>3
<1> QED BY <1>3, <1>12, <1>14, <1>15, <1>16, <1>17, <1>18, DataStep

LEMMA WriteFailsStep ==
    ASSUME DataInv, NEW f \in Files, ffs_write_begin_fails(f)
    PROVE  DataInv'
<1>1. PICK o \in Offsets : SizeUpdate(f, o + 1)
  BY DEF ffs_write_begin_fails
<1>2. DataType /\ FileInv /\ SlotInv /\ HeldInv
  BY DEF DataInv
<1>3. st[f] # "free" /\ UNCHANGED <<nameVars, i_size, page, device, wrote>>
  BY DEF ffs_write_begin_fails, Writing
<1>4. o + 1 \in Nat
  <2>1. PICK b \in Blocks, u \in Bytes : o = b * U + u
    BY DEF Offsets
  <2> QED BY <2>1, BlockBelowByte
<1>5. size[f] \in Nat /\ size' = [size EXCEPT ![f] = Larger(o + 1, size[f])]
  BY <1>1, <1>2 DEF SizeUpdate, DataType
<1>6. Larger(o + 1, size[f]) \in Nat /\ Larger(o + 1, size[f]) >= size[f]
  BY <1>4, <1>5, LargerType
<1>7. /\ size' \in [Files -> Nat] /\ size'[f] >= size[f]
      /\ \A g \in Files \ {f} : size'[g] = size[g]
  BY <1>2, <1>5, <1>6 DEF DataType
<1>8. DataType'
  BY <1>2, <1>3, <1>7 DEF DataType, nameVars
<1>9. ASSUME f \notin met, st[f] # "free", NEW c \in Blocks, NEW u \in Bytes, <<c, u>> \in wrote'[f]
      PROVE  Held(f, c, u)'
  <2>1. Held(f, c, u)
    BY <1>2, <1>3, <1>9 DEF HeldInv
  <2>2. c < size'[f]
    <3>1. c \in Nat /\ size'[f] \in Nat
      BY <1>7, DataAssumption
    <3> QED BY <1>5, <1>7, <2>1, <3>1 DEF Held
  <2> QED BY <1>3, <2>1, <2>2 DEF Held, Block, nameVars
<1>10. \A c \in Blocks : page'[f][c].dirty => page'[f][c].cached
  BY <1>2, <1>3 DEF FileInv
<1> QED BY <1>3, <1>7, <1>8, <1>9, <1>10, DataStep

\* The device after one block of f was written: only f's block of it is another.
LEMMA DeviceUpdate ==
    ASSUME DataInv, NEW f \in Files, NEW b \in Blocks, st[f] # "free",
           NEW data \in [Bytes -> Marks], device' = [device EXCEPT ![Block(f, b)] = data]
    PROVE  /\ device' \in [DeviceBlocks -> [Bytes -> Marks]]
           /\ device'[Block(f, b)] = data
           /\ \A g \in Files \ met, c \in Blocks : st[g] # "free" /\ (g # f \/ c # b) =>
                device'[Block(g, c)] = device[Block(g, c)]
<1>1. DataType /\ FileInv /\ SlotInv
  BY DEF DataInv
<1>2. Block(f, b) \in DeviceBlocks
  BY <1>1, BlockType
<1>3. ASSUME NEW g \in Files \ met, NEW c \in Blocks, st[g] # "free", g # f \/ c # b
      PROVE  device'[Block(g, c)] = device[Block(g, c)]
  <2>1. Block(g, c) # Block(f, b)
    BY <1>1, <1>3, OtherBlock
  <2>2. Block(g, c) \in DeviceBlocks
    BY <1>1, <1>3, BlockType
  <2> QED BY <1>1, <2>1, <2>2 DEF DataType
<1> QED BY <1>1, <1>2, <1>3 DEF DataType

LEMMA DirectStep ==
    ASSUME DataInv, NEW f \in Files, ffs_direct_IO(f)
    PROVE  DataInv'
<1>1. PICK b \in Blocks :
        /\ device' = [device EXCEPT ![Block(f, b)] = [u \in Bytes |-> f]]
        /\ page' = [page EXCEPT ![f][b] = Absent]
        /\ i_size' = [i_size EXCEPT ![f] = Larger((b + 1) * U, i_size[f])]
        /\ wrote' = [wrote EXCEPT ![f] = {o \in wrote[f] : o[1] # b}]
  BY DEF ffs_direct_IO
<1>2. DataType /\ FileInv /\ SlotInv /\ HeldInv
  BY DEF DataInv
<1>3. st[f] # "free" /\ UNCHANGED <<nameVars, size>>
  BY DEF ffs_direct_IO, Writing
<1>4. [u \in Bytes |-> f] \in [Bytes -> Marks]
  BY DEF Marks
<1>5. /\ device' \in [DeviceBlocks -> [Bytes -> Marks]]
      /\ \A g \in Files \ met, c \in Blocks : st[g] # "free" /\ (g # f \/ c # b) =>
           device'[Block(g, c)] = device[Block(g, c)]
  BY <1>1, <1>3, <1>4, DeviceUpdate
<1>6. /\ page' \in [Files -> [Blocks -> Page]]
      /\ page'[f][b] = Absent
      /\ \A g \in Files, c \in Blocks : g # f \/ c # b => page'[g][c] = page[g][c]
  <2>1. page' = [page EXCEPT ![f][b] = Absent]
    BY <1>1
  <2> QED BY <1>2, <2>1, ZeroType, PageUpdate
<1>7. (b + 1) * U \in Nat /\ i_size[f] \in Nat
  <2>1. b + 1 \in Nat /\ U \in Nat
    BY DataAssumption
  <2>2. \A x, y \in Nat : x * y \in Nat
    OBVIOUS
  <2> QED BY <1>2, <2>1, <2>2 DEF DataType
<1>8. Larger((b + 1) * U, i_size[f]) \in Nat /\ Larger((b + 1) * U, i_size[f]) >= i_size[f]
  BY <1>7, LargerType
<1>9. /\ i_size' \in [Files -> Nat] /\ i_size'[f] >= i_size[f]
      /\ \A g \in Files \ {f} : i_size'[g] = i_size[g]
  BY <1>1, <1>2, <1>8 DEF DataType
<1>10. /\ wrote' \in [Files -> SUBSET (Blocks \X Bytes)]
       /\ \A c, u : <<c, u>> \in wrote'[f] => <<c, u>> \in wrote[f] /\ c # b
       /\ \A g \in Files \ {f} : wrote'[g] = wrote[g]
  BY <1>1, <1>2 DEF DataType
<1>11. DataType'
  BY <1>2, <1>3, <1>5, <1>6, <1>9, <1>10 DEF DataType, nameVars
<1>12. ASSUME f \notin met, st[f] # "free", NEW c \in Blocks, NEW u \in Bytes, <<c, u>> \in wrote'[f]
       PROVE  Held(f, c, u)'
  <2>1. <<c, u>> \in wrote[f] /\ c # b
    BY <1>10, <1>12
  <2>2. Held(f, c, u)
    BY <1>2, <1>12, <2>1 DEF HeldInv
  <2>3. page'[f][c] = page[f][c] /\ device'[Block(f, c)] = device[Block(f, c)]
    BY <1>5, <1>6, <1>12, <2>1
  <2>4. c * U + u < i_size'[f]
    <3>1. c * U + u \in Nat /\ i_size'[f] \in Nat
      BY <1>9, BlockBelowByte
    <3> QED BY <1>7, <1>9, <2>2, <3>1 DEF Held
  <2> QED BY <1>3, <2>2, <2>3, <2>4 DEF Held, Block, nameVars
<1>13. \A c \in Blocks : page'[f][c].dirty => page'[f][c].cached
  BY <1>2, <1>6, ZeroType DEF FileInv
<1> QED BY <1>3, <1>5, <1>6, <1>9, <1>10, <1>11, <1>12, <1>13, DataStep

LEMMA WritepageStep ==
    ASSUME DataInv, NEW f \in Files, NEW b \in Blocks, ffs_writepage(f, b)
    PROVE  DataInv'
<1> DEFINE kept == [u \in Bytes |-> IF b * U + u < i_size[f] THEN page[f][b].data[u] ELSE Nobody]
           r == [cached |-> TRUE, dirty |-> FALSE, data |-> kept]
<1>1. /\ page[f][b].dirty
      /\ device' = IF b * U < i_size[f] THEN [device EXCEPT ![Block(f, b)] = kept] ELSE device
      /\ page' = [page EXCEPT ![f][b] = r]
      /\ UNCHANGED <<nameVars, size, i_size, wrote>>
  BY DEF ffs_writepage
<1>2. DataType /\ FileInv /\ SlotInv /\ HeldInv
  BY DEF DataInv
<1>3. st[f] # "free" /\ page[f][b].cached
  BY <1>1, <1>2 DEF FileInv
<1>4. kept \in [Bytes -> Marks]
  BY <1>2, PageFields DEF Marks
<1>5. /\ device' \in [DeviceBlocks -> [Bytes -> Marks]]
      /\ b * U < i_size[f] => device'[Block(f, b)] = kept
      /\ \A g \in Files \ met, c \in Blocks : st[g] # "free" /\ (g # f \/ c # b) =>
           device'[Block(g, c)] = device[Block(g, c)]
  <2> HIDE DEF kept
  <2>1. CASE b * U < i_size[f]
    <3>1. device' = [device EXCEPT ![Block(f, b)] = kept]
      BY <1>1, <2>1
    <3> QED BY <1>3, <1>4, <3>1, DeviceUpdate
  <2>2. CASE ~(b * U < i_size[f])
    BY <1>1, <1>2, <2>2 DEF DataType
  <2> QED BY <2>1, <2>2
<1>6. \A u \in Bytes : b * U + u < i_size[f] => kept[u] = page[f][b].data[u]
  OBVIOUS
<1> HIDE DEF kept
<1>7. r \in Page /\ r.cached = TRUE /\ r.dirty = FALSE /\ r.data = kept
  BY <1>4 DEF Page
<1> HIDE DEF r
<1>8. /\ page' \in [Files -> [Blocks -> Page]]
      /\ page'[f][b] = r
      /\ \A g \in Files, c \in Blocks : g # f \/ c # b => page'[g][c] = page[g][c]
  <2>1. page' = [page EXCEPT ![f][b] = r]
    BY <1>1
  <2>2. r \in Page
    BY <1>7
  <2> QED BY <1>2, <2>1, <2>2, PageUpdate
<1>9. DataType'
  BY <1>1, <1>2, <1>5, <1>8 DEF DataType, nameVars
<1>10. ASSUME f \notin met, st[f] # "free", NEW c \in Blocks, NEW u \in Bytes, <<c, u>> \in wrote'[f]
       PROVE  Held(f, c, u)'
  <2>1. Held(f, c, u)
    BY <1>1, <1>2, <1>10 DEF HeldInv
  <2>2. CASE c # b
    <3>1. page'[f][c] = page[f][c] /\ device'[Block(f, c)] = device[Block(f, c)]
      BY <1>5, <1>8, <1>10, <2>2
    <3> QED BY <1>1, <2>1, <3>1 DEF Held, Block, nameVars
  <2>3. CASE c = b
    <3>1. b * U + u < i_size[f] /\ page[f][b].data[u] = f
      BY <1>3, <2>1, <2>3 DEF Held
    <3>2. b * U < i_size[f]
      <4>1. b * U \in Nat /\ u \in Nat /\ i_size[f] \in Nat
        BY <1>2, BlockBelowByte DEF DataType
      <4> QED BY <3>1, <4>1
    <3>3. kept[u] = f
      BY <1>6, <3>1
    <3>4. page'[f][b].cached = TRUE /\ page'[f][b].dirty = FALSE /\ page'[f][b].data[u] = f
      BY <1>7, <1>8, <3>3
    <3>5. slot' = slot /\ i_size' = i_size /\ size' = size
      BY <1>1 DEF nameVars
    <3>6. device'[Block(f, b)][u] = f
      BY <1>5, <3>2, <3>3
    <3> QED BY <2>1, <2>3, <3>4, <3>5, <3>6 DEF Held, Block
  <2> QED BY <2>2, <2>3
<1>11. \A c \in Blocks : page'[f][c].dirty => page'[f][c].cached
  BY <1>2, <1>7, <1>8 DEF FileInv
<1>12. \A g \in Files \ {f} :
         /\ i_size'[g] = i_size[g] /\ size'[g] = size[g] /\ wrote'[g] = wrote[g]
         /\ \A c \in Blocks : page'[g][c] = page[g][c]
  BY <1>1, <1>8
<1>13. UNCHANGED nameVars
  BY <1>1
<1> QED BY <1>3, <1>5, <1>9, <1>10, <1>11, <1>12, <1>13, DataStep

\* A page read from the device, and a clean page that goes.
LEMMA ReadStep ==
    ASSUME DataInv, NEW f \in Files, NEW b \in Blocks, ffs_readpage(f, b) \/ Reclaim(f, b)
    PROVE  DataInv'
<1>1. DataType /\ FileInv /\ SlotInv /\ HeldInv
  BY DEF DataInv
<1>2. /\ UNCHANGED <<nameVars, size, i_size, device, wrote>>
      /\ ~page[f][b].dirty
  BY <1>1 DEF ffs_readpage, Reclaim, FileInv
<1> DEFINE r == [cached |-> TRUE, dirty |-> FALSE, data |-> device[Block(f, b)]]
<1>3. PICK p \in Page :
        /\ page' = [page EXCEPT ![f][b] = p] /\ p.dirty = FALSE
        /\ p.cached => st[f] # "free" /\ p.data = device[Block(f, b)]
  <2>1. CASE ffs_readpage(f, b)
    <3>1. st[f] # "free" /\ page' = [page EXCEPT ![f][b] = r]
      BY <2>1 DEF ffs_readpage
    <3>2. device[Block(f, b)] \in [Bytes -> Marks]
      BY <1>1, <3>1, BlockType DEF DataType
    <3>3. r \in Page /\ r.dirty = FALSE /\ r.data = device[Block(f, b)]
      BY <3>2 DEF Page
    <3> HIDE DEF r
    <3> QED BY <3>1, <3>3
  <2>2. CASE Reclaim(f, b)
    <3>1. page' = [page EXCEPT ![f][b] = Absent]
      BY <2>2 DEF Reclaim
    <3> QED BY <3>1, ZeroType
  <2> QED BY <2>1, <2>2
<1>4. /\ page' \in [Files -> [Blocks -> Page]]
      /\ page'[f][b] = p
      /\ \A g \in Files, c \in Blocks : g # f \/ c # b => page'[g][c] = page[g][c]
  <2>1. page' = [page EXCEPT ![f][b] = p]
    BY <1>3
  <2> QED BY <1>1, <2>1, PageUpdate
<1>5. DataType'
  BY <1>1, <1>2, <1>4 DEF DataType, nameVars
<1>6. ASSUME f \notin met, st[f] # "free", NEW c \in Blocks, NEW u \in Bytes, <<c, u>> \in wrote'[f]
      PROVE  Held(f, c, u)'
  <2>1. Held(f, c, u)
    BY <1>1, <1>2, <1>6 DEF HeldInv
  <2>2. CASE c # b
    BY <1>2, <1>4, <2>1, <2>2 DEF Held, Block, nameVars
  <2>3. CASE c = b
    BY <1>2, <1>3, <1>4, <2>1, <2>3 DEF Held, Block, nameVars
  <2> QED BY <2>2, <2>3
<1>7. UNCHANGED <<st, slot, used, met, size, i_size, device, wrote>>
  BY <1>2 DEF nameVars
<1>8. SlotInv'
  BY <1>1, <1>7 DEF SlotInv
<1>9. FileInv'
  <2> SUFFICES ASSUME NEW g \in Files
               PROVE  /\ st[g] # "free" => slot[g] \in Slots
                      /\ st[g] = "free" => wrote[g] = {} /\ \A c \in Blocks : ~page'[g][c].dirty
                      /\ \A c \in Blocks : page'[g][c].dirty => page'[g][c].cached
    BY <1>7 DEF FileInv
  <2>1. \A c \in Blocks : page'[g][c] = page[g][c] \/ page'[g][c].dirty = FALSE
    BY <1>3, <1>4
  <2> QED BY <1>1, <2>1 DEF FileInv
<1>10. HeldInv'
  <2> SUFFICES ASSUME NEW g \in Files \ met, st[g] # "free", NEW c \in Blocks, NEW u \in Bytes,
                      <<c, u>> \in wrote[g]
               PROVE  Held(g, c, u)'
    BY <1>7 DEF HeldInv
  <2>1. CASE g = f
    BY <1>6, <1>7, <2>1
  <2>2. CASE g # f
    <3>1. Held(g, c, u)
      BY <1>1 DEF HeldInv
    <3> QED BY <1>4, <1>7, <2>2, <3>1, HeldOther
  <2> QED BY <2>1, <2>2
<1> QED BY <1>5, <1>8, <1>9, <1>10 DEF DataInv

LEMMA TruncateStep ==
    ASSUME DataInv, NEW f \in Files, Truncate(f)
    PROVE  DataInv'
<1> DEFINE cut(n, b) ==
             IF n >= i_size[f] THEN page[f][b]
             ELSE IF b * U >= n THEN Absent
             ELSE [cached |-> page[f][b].cached, dirty |-> page[f][b].dirty,
                   data |-> [u \in Bytes |-> IF b * U + u < n THEN page[f][b].data[u] ELSE Nobody]]
<1>1. PICK n \in Offsets :
        /\ i_size' = [i_size EXCEPT ![f] = n]
        /\ page' = [page EXCEPT ![f] = [b \in Blocks |-> cut(n, b)]]
        /\ wrote' = [wrote EXCEPT ![f] = {o \in wrote[f] : o[1] * U + o[2] < n}]
  BY DEF Truncate
<1>2. DataType /\ FileInv /\ SlotInv /\ HeldInv
  BY DEF DataInv
<1>3. st[f] # "free" /\ UNCHANGED <<nameVars, size, device>>
  BY DEF Truncate, Writing
<1>4. n \in Nat
  <2>1. PICK b \in Blocks, u \in Bytes : n = b * U + u
    BY DEF Offsets
  <2> QED BY <2>1, BlockBelowByte
<1>5. i_size' \in [Files -> Nat] /\ i_size'[f] = n /\ \A g \in Files \ {f} : i_size'[g] = i_size[g]
  BY <1>1, <1>2, <1>4 DEF DataType
<1>6. /\ wrote' \in [Files -> SUBSET (Blocks \X Bytes)]
      /\ \A c \in Blocks, u \in Bytes : <<c, u>> \in wrote'[f] => <<c, u>> \in wrote[f] /\ c * U + u < n
      /\ \A g \in Files \ {f} : wrote'[g] = wrote[g]
  BY <1>1, <1>2 DEF DataType
<1>7. ASSUME NEW b \in Blocks
      PROVE  /\ cut(n, b) \in Page
             /\ cut(n, b).dirty => cut(n, b).cached
             /\ \A u \in Bytes : b * U + u < n =>
                  /\ cut(n, b).cached => page[f][b].cached /\ cut(n, b).data[u] = page[f][b].data[u]
                  /\ cut(n, b).dirty = page[f][b].dirty
  <2>0. /\ page[f][b] \in Page /\ page[f][b].cached \in BOOLEAN /\ page[f][b].dirty \in BOOLEAN
        /\ page[f][b].data \in [Bytes -> Marks]
        /\ page[f][b].dirty => page[f][b].cached
    BY <1>2, PageFields DEF FileInv
  <2>1. CASE n >= i_size[f]
    BY <2>0, <2>1
  <2>2. CASE ~(n >= i_size[f]) /\ b * U >= n
    <3>1. \A u \in Bytes : ~(b * U + u < n)
      <4> SUFFICES ASSUME NEW u \in Bytes, b * U + u < n
                   PROVE  FALSE
        OBVIOUS
      <4>1. b * U \in Nat /\ u \in Nat
        BY BlockBelowByte
      <4> QED BY <1>4, <2>2, <4>1
    <3> QED BY <2>2, <3>1, ZeroType
  <2>3. CASE ~(n >= i_size[f]) /\ ~(b * U >= n)
    <3> DEFINE data == [u \in Bytes |-> IF b * U + u < n THEN page[f][b].data[u] ELSE Nobody]
               p == [cached |-> page[f][b].cached, dirty |-> page[f][b].dirty, data |-> data]
    <3>1. cut(n, b) = p
      BY <2>3
    <3>2. data \in [Bytes -> Marks] /\ \A u \in Bytes : b * U + u < n => data[u] = page[f][b].data[u]
      BY <2>0 DEF Marks
    <3> HIDE DEF data, cut
    <3>3. p \in Page /\ p.cached = page[f][b].cached /\ p.dirty = page[f][b].dirty /\ p.data = data
      BY <2>0, <3>2 DEF Page
    <3> HIDE DEF p
    <3> QED BY <2>0, <3>1, <3>2, <3>3
  <2> QED BY <2>1, <2>2, <2>3
<1> HIDE DEF cut
<1>8. /\ page' \in [Files -> [Blocks -> Page]]
      /\ \A b \in Blocks : page'[f][b] = cut(n, b)
      /\ \A g \in Files \ {f}, b \in Blocks : page'[g][b] = page[g][b]
  BY <1>1, <1>2, <1>7 DEF DataType
<1>9. DataType'
  BY <1>2, <1>3, <1>5, <1>6, <1>8 DEF DataType, nameVars
<1>10. ASSUME f \notin met, st[f] # "free", NEW c \in Blocks, NEW u \in Bytes, <<c, u>> \in wrote'[f]
       PROVE  Held(f, c, u)'
  <2>1. <<c, u>> \in wrote[f] /\ c * U + u < n
    BY <1>6, <1>10
  <2>2. Held(f, c, u)
    BY <1>2, <1>10, <2>1 DEF HeldInv
  <2>3. c * U + u < i_size'[f] /\ c < size'[f]
    BY <1>3, <1>5, <2>1, <2>2 DEF Held
  <2>4. /\ page'[f][c].cached => page[f][c].cached /\ page'[f][c].data[u] = page[f][c].data[u]
        /\ page'[f][c].dirty = page[f][c].dirty
    BY <1>7, <1>8, <2>1
  <2> QED BY <1>3, <2>2, <2>3, <2>4 DEF Held, Block, nameVars
<1>11. \A c \in Blocks : page'[f][c].dirty => page'[f][c].cached
  BY <1>7, <1>8
<1>12. /\ UNCHANGED nameVars
       /\ \A g \in Files \ {f} :
           /\ i_size'[g] = i_size[g] /\ size'[g] = size[g] /\ wrote'[g] = wrote[g]
           /\ \A b \in Blocks : page'[g][b] = page[g][b]
       /\ \A g \in Files \ (met \union {f}), b \in Blocks : st[g] # "free" =>
           device'[Block(g, b)] = device[Block(g, b)]
  BY <1>3, <1>5, <1>6, <1>8
<1> QED BY <1>3, <1>9, <1>10, <1>11, <1>12, DataStep

-----------------------------------------------------------------------------
(* Files *)

LEMMA TouchBoth == \A s, t : Touch(s, t) => Touch(t, s)
BY DEF Touch

LEMMA CreateStep ==
    ASSUME DataInv, NEW f \in Files, Create(f)
    PROVE  DataInv'
<1>1. PICK s \in Slots :
        LET beside == {g \in Files : st[g] # "free" /\ Touch(slot[g], s)} IN
        /\ \/ s \notin used /\ used' = used \union {s}
           \/ (\E full \in SUBSET used : <<full, s>> \in Overflow) /\ UNCHANGED used
        /\ slot' = [slot EXCEPT ![f] = s]
        /\ met' = met \union beside \union {g \in {f} : beside # {} \/ Folded(s)}
  BY DEF Create
<1>2. DataType /\ FileInv /\ SlotInv /\ HeldInv
  BY DEF DataInv
<1>3. /\ st[f] = "free" /\ st' = [st EXCEPT ![f] = "live"]
      /\ size' = [size EXCEPT ![f] = 0] /\ i_size' = [i_size EXCEPT ![f] = 0]
      /\ UNCHANGED <<page, device, wrote>>
  BY DEF Create
<1>4. /\ st'[f] = "live" /\ slot'[f] = s
      /\ \A g \in Files \ {f} : /\ st'[g] = st[g] /\ slot'[g] = slot[g]
                                /\ size'[g] = size[g] /\ i_size'[g] = i_size[g]
  BY <1>1, <1>2, <1>3 DEF DataType
<1>5. /\ slot' = [slot EXCEPT ![f] = s] /\ used' \subseteq Slots /\ met' \subseteq Files
      /\ met \subseteq met'
      /\ \A g \in Files \ {f} : st[g] # "free" /\ Touch(slot[g], s) => g \in met' /\ f \in met'
      /\ Folded(s) => f \in met'
  BY <1>1, <1>2 DEF DataType
<1>6. DataType'
  BY <1>2, <1>3, <1>5 DEF DataType
<1>7. FileInv'
  BY <1>2, <1>3, <1>4 DEF FileInv
<1>8. SlotInv'
  <2> SUFFICES ASSUME NEW g \in Files \ met', st'[g] # "free"
               PROVE  /\ ~Folded(slot'[g])
                      /\ \A h \in Files \ {g} : st'[h] # "free" => ~Touch(slot'[g], slot'[h])
    BY DEF SlotInv, Folded, Touch
  <2>1. CASE g = f
    <3>1. ~Folded(slot'[g])
      BY <1>4, <1>5, <2>1
    <3>2. ASSUME NEW h \in Files \ {g}, st'[h] # "free" PROVE ~Touch(slot'[g], slot'[h])
      <4>1. st[h] # "free" /\ slot'[h] = slot[h] /\ h # f
        BY <1>4, <2>1, <3>2
      <4>2. ~Touch(slot[h], s)
        BY <1>5, <2>1, <4>1
      <4> QED BY <1>4, <2>1, <4>1, <4>2, TouchBoth
    <3> QED BY <3>1, <3>2
  <2>2. CASE g # f
    <3>1. g \notin met /\ st[g] # "free" /\ slot'[g] = slot[g]
      BY <1>4, <1>5, <2>2
    <3>2. ~Folded(slot[g]) /\ \A h \in Files \ {g} : st[h] # "free" => ~Touch(slot[g], slot[h])
      BY <1>2, <3>1 DEF SlotInv
    <3>3. ASSUME NEW h \in Files \ {g}, st'[h] # "free" PROVE ~Touch(slot[g], slot'[h])
      <4>1. CASE h = f
        BY <1>4, <1>5, <2>2, <3>1, <4>1
      <4>2. CASE h # f
        BY <1>4, <3>2, <3>3, <4>2
      <4> QED BY <4>1, <4>2
    <3> QED BY <3>1, <3>2, <3>3
  <2> QED BY <2>1, <2>2
<1>9. HeldInv'
  <2> SUFFICES ASSUME NEW g \in Files \ met', st'[g] # "free", NEW b \in Blocks, NEW u \in Bytes,
                      <<b, u>> \in wrote[g]
               PROVE  Held(g, b, u)'
    BY <1>3 DEF HeldInv
  <2>1. g # f
    BY <1>2, <1>3 DEF FileInv
  <2>2. g \notin met
    BY <1>5
  <2>3. Held(g, b, u)
    BY <1>2, <1>4, <2>1, <2>2 DEF HeldInv
  <2> QED BY <1>3, <1>4, <2>1, <2>3, HeldOther
<1> QED BY <1>6, <1>7, <1>8, <1>9 DEF DataInv

LEMMA GoneStep ==
    ASSUME DataInv, NEW f \in Files, Gone(f), UNCHANGED <<used, device>>
    PROVE  DataInv'
<1>2. DataType /\ FileInv /\ SlotInv /\ HeldInv
  BY DEF DataInv
<1>3. /\ st' = [st EXCEPT ![f] = "free"]
      /\ slot' = [slot EXCEPT ![f] = NoSlot]
      /\ page' = [page EXCEPT ![f] = [b \in Blocks |-> Absent]]
      /\ wrote' = [wrote EXCEPT ![f] = {}]
      /\ size' = [size EXCEPT ![f] = 0]
      /\ i_size' = [i_size EXCEPT ![f] = 0]
      /\ met' = met \ {f}
  BY DEF Gone
<1>4. /\ st'[f] = "free" /\ wrote'[f] = {} /\ \A b \in Blocks : page'[f][b] = Absent
      /\ \A g \in Files \ {f} : /\ st'[g] = st[g] /\ slot'[g] = slot[g] /\ wrote'[g] = wrote[g]
                                /\ size'[g] = size[g] /\ i_size'[g] = i_size[g]
                                /\ page'[g] = page[g]
  BY <1>2, <1>3 DEF DataType
<1>5. DataType'
  BY <1>2, <1>3, ZeroType DEF DataType
<1>6. FileInv'
  BY <1>2, <1>3, <1>4, ZeroType DEF FileInv
<1>7. SlotInv'
  <2> SUFFICES ASSUME NEW g \in Files \ met', st'[g] # "free"
               PROVE  /\ ~Folded(slot'[g])
                      /\ \A h \in Files \ {g} : st'[h] # "free" => ~Touch(slot'[g], slot'[h])
    BY DEF SlotInv, Folded, Touch
  <2>1. g \notin met /\ g # f /\ st[g] # "free" /\ slot'[g] = slot[g]
    BY <1>3, <1>4
  <2> QED BY <1>2, <1>4, <2>1 DEF SlotInv
<1>8. HeldInv'
  <2> SUFFICES ASSUME NEW g \in Files \ met', st'[g] # "free", NEW b \in Blocks, NEW u \in Bytes,
                      <<b, u>> \in wrote'[g]
               PROVE  Held(g, b, u)'
    BY DEF HeldInv
  <2>1. g # f /\ g \notin met
    BY <1>3, <1>4
  <2>2. Held(g, b, u)
    BY <1>2, <1>4, <2>1 DEF HeldInv
  <2> QED BY <1>4, <2>1, <2>2, HeldOther
<1> QED BY <1>5, <1>6, <1>7, <1>8 DEF DataInv

LEMMA OrphanStep ==
    ASSUME DataInv, NEW f \in Files, st[f] = "live", st' = [st EXCEPT ![f] = "orphan"],
           UNCHANGED <<slot, used, met, size, i_size, page, device, wrote>>
    PROVE  DataInv'
<1>1. DataType /\ FileInv /\ SlotInv /\ HeldInv
  BY DEF DataInv
<1>2. st'[f] = "orphan" /\ \A g \in Files \ {f} : st'[g] = st[g]
  BY <1>1 DEF DataType
<1>3. DataType'
  BY <1>1 DEF DataType
<1>4. FileInv'
  BY <1>1, <1>2 DEF FileInv
<1>5. SlotInv'
  BY <1>1, <1>2 DEF SlotInv
<1>6. HeldInv'
  BY <1>1, <1>2 DEF HeldInv, Held, Block
<1> QED BY <1>3, <1>4, <1>5, <1>6 DEF DataInv

LEMMA ClearedStep ==
    ASSUME DataInv, NEW s \in Slots, SlotCleared(s)
    PROVE  DataInv'
<1>1. DataType /\ FileInv /\ SlotInv /\ HeldInv
  BY DEF DataInv
<1>2. /\ used' = used \ {s}
      /\ UNCHANGED <<st, slot, met, size, i_size, page, device, wrote>>
  BY DEF SlotCleared
<1>3. DataType'
  BY <1>1, <1>2 DEF DataType
<1>4. FileInv'
  BY <1>1, <1>2 DEF FileInv
<1>5. SlotInv' /\ HeldInv'
  BY <1>1, <1>2 DEF SlotInv, HeldInv, Held, Block
<1> QED BY <1>3, <1>4, <1>5 DEF DataInv

LEMMA DataInit ==
    ASSUME Init
    PROVE  DataInv
<1>1. DataType
  BY ZeroType DEF Init, DataType
<1>2. FileInv
  BY ZeroType DEF Init, FileInv
<1>3. SlotInv /\ HeldInv
  BY DEF Init, SlotInv, HeldInv
<1> QED BY <1>1, <1>2, <1>3 DEF DataInv

LEMMA DataNext ==
    ASSUME DataInv, [Next]_vars
    PROVE  DataInv'
<1>1. CASE UNCHANGED vars
  <2>1. UNCHANGED <<st, slot, used, met, size, i_size, page, device, wrote>>
    BY <1>1 DEF vars, nameVars
  <2> QED BY <2>1 DEF DataInv, DataType, FileInv, SlotInv, HeldInv, Held, Block
<1>2. ASSUME NEW f \in Files, ffs_write(f) \/ ffs_write_begin_fails(f) \/ ffs_direct_IO(f) \/ Truncate(f)
      PROVE  DataInv'
  BY <1>2, WriteStep, WriteFailsStep, DirectStep, TruncateStep
<1>3. ASSUME NEW f \in Files, Create(f) \/ Unlink(f) \/ Evict(f)
      PROVE  DataInv'
  <2>1. CASE Create(f)
    BY <2>1, CreateStep
  <2>2. CASE Unlink(f)
    <3>1. CASE Gone(f)
      BY <2>2, <3>1, GoneStep DEF Unlink
    <3>2. CASE st' = [st EXCEPT ![f] = "orphan"] /\ UNCHANGED <<slot, page, wrote, size, i_size, met>>
      BY <2>2, <3>2, OrphanStep DEF Unlink
    <3> QED BY <2>2, <3>1, <3>2 DEF Unlink
  <2>3. CASE Evict(f)
    BY <2>3, GoneStep DEF Evict
  <2> QED BY <1>3, <2>1, <2>2, <2>3
<1>4. ASSUME NEW f \in Files, NEW b \in Blocks,
             ffs_writepage(f, b) \/ ffs_readpage(f, b) \/ Reclaim(f, b)
      PROVE  DataInv'
  BY <1>4, WritepageStep, ReadStep
<1>5. ASSUME NEW s \in Slots, SlotCleared(s)
      PROVE  DataInv'
  BY <1>5, ClearedStep
<1> QED BY <1>1, <1>2, <1>3, <1>4, <1>5 DEF Next

LEMMA HeldEnough ==
    ASSUME DataInv
    PROVE  ReadBack
<1> SUFFICES ASSUME NEW f \in Files \ met, st[f] # "free", NEW o \in wrote[f]
             PROVE  View(f, o[1], o[2]) = f
  BY DEF ReadBack
<1>1. PICK b \in Blocks, u \in Bytes : o = <<b, u>>
  BY DEF DataInv, DataType
<1>2. Held(f, b, u)
  BY <1>1 DEF DataInv, HeldInv
<1>3. page[f][b].dirty => page[f][b].cached
  BY DEF DataInv, FileInv
<1>4. View(f, b, u) = f
  BY <1>2, <1>3 DEF View, Held
<1> QED BY <1>1, <1>4

\* Whatever the files write, truncate and flush, and however slots are cleared and
\* handed out again beside them: a file that existed beside none with a block of its own
\* reads what it wrote through the page cache.  No byte that it wrote lies in a block
\* that ffs_get_block_prep calls new.
THEOREM FilesReadBack == Spec => []ReadBack
<1>1. Init => DataInv
  BY DataInit
<1>2. DataInv /\ [Next]_vars => DataInv'
  BY DataNext
<1>3. DataInv => ReadBack
  BY HeldEnough
<1> QED BY <1>1, <1>2, <1>3, PTL DEF Spec

=============================================================================
