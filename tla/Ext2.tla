-------------------------------- MODULE Ext2 --------------------------------
(***************************************************************************)
(* The ext2 file system (fs/ext2.cc, fs/block_indices.cc,                  *)
(* fs/block_iterator.cc, fs/actual_file_desc.cc) of one thread, down to    *)
(* its single writes to the disk, and the power going off between them.    *)
(*                                                                         *)
(* The disk is counted in words of four bytes: what a block holds is a     *)
(* function from 0 .. BlockSize - 1 to numbers, which are data, block      *)
(* numbers (in an address block) or directory entries: the inode, the size *)
(* of the entry and the name take a word each.  A path is the sequence of  *)
(* the names after its slashes, so "/a/" is <<a, NoName>> and "/" is       *)
(* <<NoName>>.                                                             *)
(*                                                                         *)
(* An operation runs on a record fs: the disk, what the kernel keeps of it *)
(* in memory, and the writes so far.  Its action leaves the writes in todo *)
(* and WriteBlock does them one by one; no other operation begins before.  *)
(***************************************************************************)
EXTENDS Integers, Sequences, FiniteSets, SequencesExt, FiniteSetsExt, TLC

CONSTANTS
  BlockSize,        \* words in a block, and addresses in an address block
  Direct,           \* 12: the blocks that an inode points to itself
  BlocksPerGroup,   \* blocks_per_group
  InodesPerGroup,   \* inodes_per_group
  Groups,           \* 0 .. num_block_desc_ - 1
  Image,            \* the disk as mkfs and the host have left it
  Reserved,         \* the blocks that hold tables and bitmaps
  NoName,           \* the empty name
  Dot, DotDot,      \* the names . and ..
  Paths,            \* the paths files are created and looked up at
  Data,             \* what is written
  Offsets,          \* the offsets it is written or read at
  ReadLengths,      \* how many words are read
  MaxSize,          \* bound on the size of a file
  MaxOps,           \* bound on the number of operations
  MaxCrashes,       \* bound on the number of times the power goes off
  CrossLevels       \* whether one read may reach from a level to the next

VARIABLES
  disk,     \* inode table, blocks and bitmaps
  mem,      \* block_bitmap, inode_bitmap and root_dir_
  todo,     \* the writes that the current operation has still to do
  target,   \* the paths it changes
  files,    \* what is found at the paths once todo is done
  damaged,  \* those that were being changed when the power went off
  fd,       \* one ActualFileDescriptor, with its copy of the inode
  ops, crashes

vars == <<disk, mem, todo, target, files, damaged, fd, ops, crashes>>

EntrySize == 3
Root == 2
Inodes == DOMAIN Image.inode
-----------------------------------------------------------------------------
(* Positions of blocks in a file *)

Level(offset) ==
  LET n == offset \div BlockSize
      single == Direct + BlockSize
      double == single + BlockSize * BlockSize
  IN  IF n < Direct THEN 0 ELSE IF n < single THEN 1 ELSE IF n < double THEN 2 ELSE 3

\* The indices that lead to the block of an offset, one more than its level.
\* The third level is counted from the limit of the first, as in the code.
CreateBlockIndiceFromOffset(offset) ==
  LET level  == Level(offset)
      n      == offset \div BlockSize
      single == n - Direct
      double == n - Direct - BlockSize
      square == BlockSize * BlockSize
      rest   == double % square
  IN  CASE level = 0 -> <<n>>
        [] level = 1 -> <<Direct, single>>
        [] level = 2 -> <<Direct + 1, double \div BlockSize, double % BlockSize>>
        [] level = 3 -> <<Direct + 2, double \div square,
                          rest \div BlockSize, rest % BlockSize>>

\* The indices of the next block.  Their number stays the same, even when the
\* next block is one level deeper: the level is passed by value.
RecursiveIndexIncrease(ix) ==
  LET full == {k \in 2 .. Len(ix) : \A j \in k .. Len(ix) : ix[j] = BlockSize - 1}
      carried == IF full = {} THEN Len(ix) ELSE Min(full) - 1
  IN  [k \in DOMAIN ix |-> IF k \in full THEN 0
                           ELSE IF k = carried THEN ix[k] + 1 ELSE ix[k]]

\* The indices of n blocks from an offset on.
IndicesFrom(offset, n) ==
  LET next(s, k) == Append(s, RecursiveIndexIncrease(Last(s)))
  IN  FoldLeft(next, <<CreateBlockIndiceFromOffset(offset)>>, [k \in 1 .. n - 1 |-> k])

\* The blocks from the inode to the last index: address blocks, then data.
BlockIds(d, inode, ix) ==
  LET follow(ids, i) == Append(ids, d.block[Last(ids)][i])
  IN  FoldLeft(follow, <<inode.block[Head(ix)]>>, Tail(ix))

GetDataBlockID(d, inode, ix) == Last(BlockIds(d, inode, ix))
-----------------------------------------------------------------------------
(* Reading *)

NumBlocks(offset, n) ==
  LET end == offset + n
  IN  end \div BlockSize + (IF end % BlockSize = 0 THEN 0 ELSE 1) - offset \div BlockSize

\* The data blocks from an offset on that hold the next n words.
DataBlocks(d, inode, n, offset) ==
  LET read(ix) == d.block[GetDataBlockID(d, inode, ix)]
  IN  FoldLeft(LAMBDA s, ix : Append(s, read(ix)), <<>>, IndicesFrom(offset, NumBlocks(offset, n)))

\* n words from word first of these blocks on.
WordsFrom(blocks, first, n) ==
  [i \in 1 .. n |-> blocks[(first + i - 1) \div BlockSize + 1][(first + i - 1) % BlockSize]]

\* ReadFile on an inode, which may be a copy that the disk has moved on from.
ReadFileInode(d, inode, n, offset) ==
  LET count == Max({0, Min({n, inode.size - offset})})
  IN  WordsFrom(DataBlocks(d, inode, count, offset), offset % BlockSize, count)

EntriesIn(words) ==
  LET parse[p \in 0 .. Len(words)] ==
        IF p + EntrySize > Len(words) \/ words[p + 2] = 0 THEN <<>>
        ELSE <<[inode |-> words[p + 1], name |-> words[p + 3], end |-> p + words[p + 2]]>>
             \o (IF p + words[p + 2] > Len(words) THEN <<>> ELSE parse[p + words[p + 2]])
  IN  parse[0]

Entries(d, inode) == EntriesIn(ReadFileInode(d, inode, inode.size, 0))

\* The entries of a directory, up to its end or to an entry of size 0.
ParseDirectory(d, inode) ==
  FoldLeft(LAMBDA s, e : Append(s, [inode |-> e.inode, name |-> e.name]), <<>>, Entries(d, inode))

GetEndOfDirectoryEntry(d, inode) == FoldLeft(LAMBDA end, e : e.end, 0, Entries(d, inode))

\* The inode that an entry list has for a name, or -1; the first one counts.
InodeNamed(dir, name) ==
  LET found == {k \in DOMAIN dir : dir[k].name = name}
  IN  IF found = {} THEN -1 ELSE dir[Min(found)].inode

\* A slash at the end counts only after a name that was found.
GetInodeNumberFromPath(d, root_dir, path) ==
  LET last == IF Len(path) > 1 /\ Last(path) = NoName THEN Len(path) - 1 ELSE Len(path)
      in(i, name) == IF i = -1 THEN -1 ELSE InodeNamed(ParseDirectory(d, d.inode[i]), name)
      walk[k \in 1 .. last] == IF k = 1 THEN InodeNamed(root_dir, path[1])
                                ELSE in(walk[k - 1], path[k])
  IN  IF path = <<>> THEN -1 ELSE IF path = <<NoName>> THEN Root ELSE walk[last]

\* What a file holds, read block by block.
WordsOf(d, inode) ==
  FlattenSeq([k \in 1 .. NumBlocks(0, inode.size) |->
                ReadFileInode(d, inode, BlockSize, (k - 1) * BlockSize)])

\* What the paths lead to.
FilesOf(d, root_dir) ==
  LET content(inode) == [dir   |-> inode.mode = "dir",
                         words |-> IF inode.mode = "dir" THEN <<>> ELSE WordsOf(d, inode)]
      number == [p \in Paths |-> GetInodeNumberFromPath(d, root_dir, p)]
      found(to) == [p \in {p \in Paths : to[p] # -1} |-> content(d.inode[to[p]])]
  IN  found(number)
-----------------------------------------------------------------------------
(* Writing *)

Apply(d, w) == [d EXCEPT ![w.part][w.at] = w.value]

Write(fs, part, at, value) ==
  LET w == [part |-> part, at |-> at, value |-> value]
  IN  [fs EXCEPT !.disk = Apply(@, w), !.log = Append(@, w)]

WriteInode(fs, inode_num, inode) == Write(fs, "inode", inode_num, inode)

Bits(n) == 0 .. n - 1

GetEmptyBitIndex(bits, n) == Min(Bits(n) \ bits)

\* Groups with a clear bit among the first n.
WithEmptyBit(bitmap, n) == {g \in Groups : bitmap[g] # Bits(n)}

\* The first clear bit of the first group that has one.  The block's number is
\* the bit's, although bit 0 stands for block first_data_block.
GetEmptyBlock(fs) ==
  LET free == WithEmptyBit(fs.block_bitmap, BlocksPerGroup)
      in(g) == GetEmptyBitIndex(fs.block_bitmap[g], BlocksPerGroup) + BlocksPerGroup * g
  IN  IF free = {} THEN 0 ELSE in(Min(free))

GetEmptyInode(fs) ==
  LET free == WithEmptyBit(fs.inode_bitmap, InodesPerGroup)
      in(g) == GetEmptyBitIndex(fs.inode_bitmap[g], InodesPerGroup) + InodesPerGroup * g + 1
  IN  IF free = {} THEN 0 ELSE in(Min(free))

FlipBit(bits, b) == IF b \in bits THEN bits \ {b} ELSE bits \cup {b}

\* A bit of a bitmap changes in memory, and the block of its group is written.
FlipAndWrite(fs, part, g, bit) ==
  LET flipped == [fs EXCEPT ![part][g] = FlipBit(@, bit)]
      save(f) == Write(f, part, g, f[part][g])
  IN  save(flipped)

MarkEmptyBlockAsUsed(fs, b) ==
  [FlipAndWrite(fs, "block_bitmap", b \div BlocksPerGroup, b % BlocksPerGroup)
     EXCEPT !.full = @ \/ b = 0]

MarkEmptyInodeAsUsed(fs, inode_num) ==
  FlipAndWrite(fs, "inode_bitmap", (inode_num - 1) \div InodesPerGroup,
               (inode_num - 1) % InodesPerGroup)

\* The loops of ExpandFileSize work on fs.node, a copy of the inode.
WriteNode(fs, inode_num) == WriteInode(fs, inode_num, fs.node)

\* Entry n of address block above becomes b.
SetNthEntryAtAddressBlock(fs, above, n, b) ==
  Write(fs, "block", above, [fs.disk.block[above] EXCEPT ![n] = b])

\* Block b is marked, and index i of the position curr leads to it.
AttachBlock(fs, b, inode_num, curr, i) ==
  IF i = 1
  THEN WriteNode([MarkEmptyBlockAsUsed(fs, b) EXCEPT !.node.block[curr[1]] = b], inode_num)
  ELSE SetNthEntryAtAddressBlock(MarkEmptyBlockAsUsed(fs, b),
                                 BlockIds(fs.disk, fs.node, curr)[i - 1], curr[i], b)

\* Blocks for what the position curr does not share with the one before it.
ExpandTo(fs, inode_num, prev, curr) ==
  FoldLeft(LAMBDA f, i : IF prev[i] = curr[i] THEN f
                         ELSE AttachBlock(f, GetEmptyBlock(f), inode_num, curr, i),
           fs, [i \in DOMAIN curr |-> i])

\* The loop over the positions after the first one.
ExpandOver(fs, inode_num, ixs) ==
  FoldLeft(LAMBDA f, k : ExpandTo(f, inode_num, ixs[k], ixs[k + 1]), fs,
           [k \in 1 .. Len(ixs) - 1 |-> k])

\* An empty file gets its first block; one that it had before is lost.
ExpandFirstBlock(fs, b, inode_num, size) ==
  WriteNode([MarkEmptyBlockAsUsed(fs, b)
               EXCEPT !.node.size = Min({BlockSize, size}), !.node.block[0] = b], inode_num)

\* From the first block on.  The new size is on the disk before the blocks are.
ExpandFrom(fs, from, inode_num, size) ==
  IF from >= size THEN fs
  ELSE ExpandOver(WriteNode([fs EXCEPT !.node.size = size], inode_num), inode_num,
                  IndicesFrom(from - 1, (size - 1) \div BlockSize - (from - 1) \div BlockSize + 1))

ExpandFileSize(fs, inode_num, size) ==
  LET begun == [fs EXCEPT !.node = fs.disk.inode[inode_num]]
      on(f) == ExpandFrom(f, f.node.size, inode_num, size)
  IN  on(IF fs.disk.inode[inode_num].size # 0 THEN begun
         ELSE ExpandFirstBlock(begun, GetEmptyBlock(fs), inode_num, size))

\* Fault: the last block is written from its start.
WriteAtNoOffset(block, first, offset, words) ==
  [c \in DOMAIN block |-> IF c < Len(words) THEN words[c + 1] ELSE block[c]]

\* A block, from word first of its file on, with the words that belong to it.
WriteAt(block, first, offset, words) ==
  [c \in DOMAIN block |->
     IF first + c \in offset .. offset + Len(words) - 1
     THEN words[first + c - offset + 1] ELSE block[c]]

\* Block b is read, changed and written; first is the position of its first word.
WriteInto(fs, b, first, offset, words) ==
  Write(fs, "block", b, WriteAt(fs.disk.block[b], first, offset, words))

WriteBlocks(fs, inode, words, offset) ==
  LET start == offset \div BlockSize
      put(f, k) ==
        WriteInto(f, GetDataBlockID(f.disk, inode, IndicesFrom(offset, k)[k]),
                  (start + k - 1) * BlockSize, offset, words)
  IN  FoldLeft(put, fs, [k \in 1 .. NumBlocks(offset, Len(words)) |-> k])

WriteFile(fs, inode_num, words, offset) ==
  LET on(f) == WriteBlocks(f, f.disk.inode[inode_num], words, offset)
  IN  on(IF offset + Len(words) >= fs.disk.inode[inode_num].size
         THEN ExpandFileSize(fs, inode_num, offset + Len(words)) ELSE fs)
-----------------------------------------------------------------------------
(* Creating *)

Parent(path) == [path EXCEPT ![Len(path)] = NoName]

\* The entry of a new file at the end of its parent.
Link(fs, parent, new, name) ==
  WriteFile(fs, parent, <<new, EntrySize, name>>,
            GetEndOfDirectoryEntry(fs.disk, fs.disk.inode[parent]))

MakeInode(fs, new, is_directory) ==
  WriteInode(fs, new, [fs.disk.inode[new]
                         EXCEPT !.size = 0, !.mode = IF is_directory THEN "dir" ELSE "file"])

\* root_dir_ is read again when the new file is in it.
ReadRoot(fs, parent) ==
  IF parent # Root THEN fs
  ELSE [fs EXCEPT !.root_dir = ParseDirectory(fs.disk, fs.disk.inode[Root])]

\* Fault: the entry is written before its inode is marked as used.
CreateInLinkFirst(fs, parent, new, name, is_directory) ==
  ReadRoot(MakeInode(MarkEmptyInodeAsUsed(Link(fs, parent, new, name), new), new, is_directory),
           parent)

\* The entry is written before the inode that it names.
CreateIn(fs, parent, new, name, is_directory) ==
  ReadRoot(MakeInode(Link(MarkEmptyInodeAsUsed(fs, new), parent, new, name), new, is_directory),
           parent)

CreateFile(fs, path, is_directory) ==
  CreateIn(fs, GetInodeNumberFromPath(fs.disk, fs.root_dir, Parent(path)), GetEmptyInode(fs),
           Last(path), is_directory)

\* Whether CreateFile gets as far as to take an inode.
CanCreate(fs, path) ==
  LET in(parent) == parent # -1 /\ fs.disk.inode[parent].mode = "dir"
  IN  /\ GetInodeNumberFromPath(fs.disk, fs.root_dir, path) = -1
      /\ in(GetInodeNumberFromPath(fs.disk, fs.root_dir, Parent(path)))
-----------------------------------------------------------------------------
(* Operations *)

\* The constructor reads what is on the disk.
Mounted(d) == [block_bitmap |-> d.block_bitmap, inode_bitmap |-> d.inode_bitmap,
               root_dir |-> ParseDirectory(d, d.inode[Root])]

NoDescriptor == [path |-> <<>>, inode_num |-> 0, offset |-> 0, inode |-> <<>>]

Init ==
  /\ disk = Image
  /\ mem = Mounted(Image)
  /\ todo = <<>>
  /\ target = {}
  /\ files = FilesOf(Image, Mounted(Image).root_dir)
  /\ damaged = {}
  /\ fd = NoDescriptor
  /\ ops = 0
  /\ crashes = 0

Fs == [disk |-> disk, block_bitmap |-> mem.block_bitmap, inode_bitmap |-> mem.inode_bitmap,
       root_dir |-> mem.root_dir, node |-> <<>>, log |-> <<>>, full |-> FALSE]

Lookup(path) == GetInodeNumberFromPath(disk, mem.root_dir, path)
IsFile(path) == Lookup(path) # -1 /\ disk.inode[Lookup(path)].mode = "file"

\* An operation on these paths begins: fs is what it leaves.  Nothing is done
\* to what is damaged.
Begin(fs, paths) ==
  /\ paths \cap damaged = {}
  /\ todo = <<>>
  /\ ops < MaxOps
  /\ ~fs.full
  /\ ops' = ops + 1
  /\ todo' = fs.log
  /\ target' = paths
  /\ files' = FilesOf(fs.disk, fs.root_dir)
  /\ mem' = [block_bitmap |-> fs.block_bitmap, inode_bitmap |-> fs.inode_bitmap,
             root_dir |-> fs.root_dir]
  /\ UNCHANGED <<disk, damaged, crashes>>

Create(path, is_directory) ==
  /\ CanCreate(Fs, path)
  /\ GetEmptyInode(Fs) # 0
  /\ Begin(CreateFile(Fs, path, is_directory), {path, Front(path)})
  /\ UNCHANGED fd

\* The bound on what is written: ExpandFileSize never ends when the old and
\* the new end of the file are on different levels.
OneLevel(inode_num, words, offset) ==
  LET size == disk.inode[inode_num].size
      end  == offset + Len(words)
  IN  /\ Level(offset) = Level(Max({offset, end - 1}))
      /\ end > Max({size, 1}) => Level(Max({size, 1}) - 1) = Level(end - 1)

WriteToPath(path, words, offset) ==
  /\ IsFile(path)
  /\ OneLevel(Lookup(path), words, offset)
  /\ Begin(WriteFile(Fs, Lookup(path), words, offset), {path})
  /\ UNCHANGED fd

\* The blocks stay where they are.
Truncate(fs, inode_num) ==
  WriteInode(fs, inode_num, [fs.disk.inode[inode_num] EXCEPT !.size = 0])

\* A descriptor is opened, with O_TRUNC or without; fd may be this one.
OpenFile(path, trunc) ==
  /\ IsFile(path)
  /\ Begin(IF trunc THEN Truncate(Fs, Lookup(path)) ELSE Fs, {path})
  /\ \/ trunc /\ UNCHANGED fd
     \/ /\ fd = NoDescriptor
        /\ fd' = [path |-> path, inode_num |-> Lookup(path), offset |-> 0,
                  inode |-> IF trunc THEN [disk.inode[Lookup(path)] EXCEPT !.size = 0] ELSE <<>>]

\* The copy of the inode is the one of the first read.
FdRead(count) ==
  LET inode == IF fd.inode = <<>> THEN disk.inode[fd.inode_num] ELSE fd.inode
  IN  /\ fd # NoDescriptor
      /\ Level(fd.offset) = Level(fd.offset + count)
      /\ Begin(Fs, {})
      /\ fd' = [fd EXCEPT !.inode = inode,
                          !.offset = @ + Len(ReadFileInode(disk, inode, count, @))]

FdWrite(words) ==
  /\ fd # NoDescriptor
  /\ OneLevel(fd.inode_num, words, fd.offset)
  /\ Begin(WriteFile(Fs, fd.inode_num, words, fd.offset), {fd.path})
  /\ fd' = [fd EXCEPT !.offset = @ + Len(words)]

\* SEEK_SET, SEEK_CUR and SEEK_END differ in what the distance is added to.
FdSeek(base, distance) ==
  /\ fd # NoDescriptor
  /\ base \in {0, fd.offset, disk.inode[fd.inode_num].size}
  /\ base + distance \in 0 .. Max(Offsets)
  /\ Begin(Fs, {})
  /\ fd' = [fd EXCEPT !.offset = base + distance]

\* The next write of the operation reaches the disk.
WriteBlock ==
  /\ todo # <<>>
  /\ disk' = Apply(disk, Head(todo))
  /\ todo' = Tail(todo)
  /\ UNCHANGED <<mem, target, files, damaged, fd, ops, crashes>>

\* The power goes off, and the kernel starts again from the disk.
Crash ==
  /\ todo # <<>>
  /\ crashes < MaxCrashes
  /\ crashes' = crashes + 1
  /\ mem' = Mounted(disk)
  /\ todo' = <<>>
  /\ fd' = NoDescriptor
  /\ files' = FilesOf(disk, Mounted(disk).root_dir)
  /\ damaged' = damaged \cup target
  /\ UNCHANGED <<disk, target, ops>>

Done == ops = MaxOps /\ todo = <<>> /\ UNCHANGED vars

Next ==
  \/ \E p \in Paths, is_directory \in BOOLEAN : Create(p, is_directory)
  \/ \E p \in Paths, words \in Data, offset \in Offsets : WriteToPath(p, words, offset)
  \/ \E p \in Paths, trunc \in BOOLEAN : OpenFile(p, trunc)
  \/ \E count \in Offsets : FdRead(count)
  \/ \E words \in Data : FdWrite(words)
  \/ \E base, distance \in Offsets : FdSeek(base, distance)
  \/ WriteBlock
  \/ Crash
  \/ Done

Spec == Init /\ [][Next]_vars
-----------------------------------------------------------------------------
(* Properties *)

\* Who points to what: the inode, the indices, and the block they lead to.
Pointers(d) ==
  LET direct(i) == {<<i, <<k>>, d.inode[i].block[k]>> : k \in 0 .. Direct + 2}
      inside(p) == {<<p[1], Append(p[2], k), d.block[p[3]][k]>> : k \in 0 .. BlockSize - 1}
      tables(S, level) == {p \in S : p[3] # 0 /\ p[2][1] >= Direct + level}
      one   == UNION {direct(i) : i \in {i \in Inodes : d.inode[i].mode # "none"}}
      two   == UNION {inside(p) : p \in tables(one, 0)}
      three == UNION {inside(p) : p \in tables(two, 1)}
  IN  {p \in one \cup two \cup three : p[3] # 0}

Occupied(d) == {p[3] : p \in Pointers(d)}

\* The disk is a disk, and memory holds bits and entries.
TypeOK ==
  /\ disk.block \in [DOMAIN Image.block -> [0 .. BlockSize - 1 -> Nat]]
  /\ \A i \in Inodes : /\ disk.inode[i].mode \in {"none", "file", "dir"}
                       /\ disk.inode[i].size \in Nat
                       /\ disk.inode[i].block \in [0 .. Direct + 2 -> DOMAIN Image.block]
  /\ disk.block_bitmap \in [Groups -> SUBSET Bits(BlocksPerGroup)]
  /\ disk.inode_bitmap \in [Groups -> SUBSET Bits(InodesPerGroup)]
  /\ DOMAIN mem.block_bitmap = Groups
  /\ fd.offset \in Nat
  /\ target \subseteq Paths \cup {<<>>}

\* No block has two owners, and none is a table or a bitmap, whenever the
\* power may go off: what one file writes never shows in another one
\* (GetEmptyBlock, ExpandFileSize).
OwnedOnce ==
  /\ Cardinality(Occupied(disk)) = Cardinality(Pointers(disk))
  /\ Occupied(disk) \cap Reserved = {}

\* A block that a file points to is marked on the disk, by the code's count of
\* bits and by mkfs's, at every point where the power may go off
\* (MarkEmptyBlockAsUsed before the pointer is written).
UsedAreMarked ==
  \A b \in Occupied(disk), bit \in {0, 1} :
    (b - bit) % BlocksPerGroup \in disk.block_bitmap[(b - bit) \div BlocksPerGroup]

Children(d, i) == LET e == Entries(d, d.inode[i]) IN {<<i, k, e[k]>> : k \in DOMAIN e}
Links(d) == {l \in UNION {Children(d, i) : i \in {i \in Inodes : d.inode[i].mode = "dir"}} :
               l[3].name \notin {Dot, DotDot}}

\* At every write, the entries form a tree: a name is once in its directory, an
\* inode has one entry, and an inode that has one is marked as used, so that it
\* is not given to a second file (the order of the writes of CreateFile).
DirectoryTree ==
  /\ \A l, m \in Links(disk) :
       l # m => l[3].inode # m[3].inode /\ (l[1] = m[1] => l[3].name # m[3].name)
  /\ \A l \in Links(disk) :
       LET n == l[3].inode - 1
       IN  n % InodesPerGroup \in disk.inode_bitmap[n \div InodesPerGroup]

\* Between two operations the kernel's copies of the bitmaps and of the root
\* directory are what a new mount would read (root_dir_, block_bitmap).
MemoryIsDisk == todo = <<>> => mem = Mounted(disk)

\* As long as no write was lost, every word below the size of a file or
\* directory has a block (ExpandFileSize writes the size first).
SizeCovered ==
  todo = <<>> /\ damaged = {} =>
    \A i \in Inodes, offset \in 0 .. MaxSize - 1 :
      offset < disk.inode[i].size
      => GetDataBlockID(disk, disk.inode[i], CreateBlockIndiceFromOffset(offset)) # 0

\* A descriptor reads from the blocks of the inode as it was at the first read.
\* However old that copy is, none of them belongs to another file
\* (ActualFileDescriptor::Read; nothing gives a block back).
StaleDescriptorReadsOwn ==
  fd.inode # <<>> =>
    \A p \in Pointers([disk EXCEPT !.inode = fd.inode_num :> fd.inode
                         @@ [i \in Inodes |-> [fd.inode EXCEPT !.mode = "none"]]]) :
      \A q \in Pointers(disk) : q[3] = p[3] => q[1] = fd.inode_num

\* What fsck would find at every write, also after a power failure, and what the
\* kernel's copies and the descriptors rely on.
Consistent == /\ OwnedOnce /\ UsedAreMarked /\ DirectoryTree
              /\ MemoryIsDisk /\ SizeCovered /\ StaleDescriptorReadsOwn

\* A read over the edges of blocks and of address blocks gives what reading
\* block by block gives (BlockIterator's ++ against SetOffset).
ReadsAgree ==
  todo = <<>> =>
    \A i \in {i \in Inodes : disk.inode[i].mode = "file"} :
      LET inode == disk.inode[i]
          words == WordsOf(disk, inode)
      IN  \A n \in ReadLengths : \A offset \in 0 .. inode.size - n :
            CrossLevels \/ Level(offset) = Level(offset + n - 1)
            => ReadFileInode(disk, inode, n, offset) = SubSeq(words, offset + 1, offset + n)

Store == INSTANCE FileStore

=============================================================================
