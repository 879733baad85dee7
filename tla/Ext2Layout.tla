----------------------------- MODULE Ext2Layout -----------------------------
(***************************************************************************)
(* What lies where on the disk (fs/ext2.h, ReadInode, WriteInode and Stat  *)
(* of fs/ext2.cc).  The kernel reads the super block, the descriptors and  *)
(* blocks of inodes into C structures that are not packed: a field is      *)
(* where the compiler aligns it, and has to be where mkfs.ext2 has put it. *)
(*                                                                         *)
(* Ext2 takes inodes by their number; this module is about the bytes.  One *)
(* thread writes: what two do to one block of inodes is among the hazards. *)
(***************************************************************************)
EXTENDS Integers, Sequences, FiniteSets, SequencesExt, FiniteSetsExt

CONSTANTS InodesPerGroup, BlockGroups,   \* as mkfs was told
          InodeTables,                   \* the first block of each group's table
          Modes, Sizes,                  \* what inodes may hold
          MaxWritten                     \* bound on the inodes that are not blank
-----------------------------------------------------------------------------
(* C structures: sequences of fields *)

u8(name)  == <<name, 1, 1>>
u16(name) == <<name, 2, 1>>
u32(name) == <<name, 4, 1>>
array(field, n) == <<field[1], field[2], n>>

\* The next place on which a field of that width may begin.
AlignUp(offset, width) == ((offset + width - 1) \div width) * width

\* Where the compiler puts the i-th field, and the one behind the last.
Offsets(struct) ==
  LET at[i \in 1 .. Len(struct)] ==
        IF i = 1 THEN 0
        ELSE AlignUp(at[i - 1] + struct[i - 1][2] * struct[i - 1][3], struct[i][2])
  IN  at

SizeOf(struct) ==
  LET last == struct[Len(struct)]
  IN  AlignUp(Offsets(struct)[Len(struct)] + last[2] * last[3],
              Max({struct[i][2] : i \in DOMAIN struct}))

IndexOf(struct, name) == CHOOSE i \in DOMAIN struct : struct[i][1] = name
OffsetOf(struct, name) == Offsets(struct)[IndexOf(struct, name)]
Place(struct, name) == <<OffsetOf(struct, name), struct[IndexOf(struct, name)][2]>>

\* The part of the super block that the first revision of ext2 had.
FirstRevision ==
  <<u32("inodes_count"), u32("blocks_count"), u32("reserved_blocks_count"),
    u32("free_blocks_count"), u32("free_inodes_count"), u32("first_data_block"),
    u32("log_block_size"), u32("log_frag_size"), u32("blocks_per_group"),
    u32("frags_per_group"), u32("inodes_per_group"), u32("mtime"), u32("wtime"),
    u16("mnt_count"), u16("max_mnt_count"), u16("magic"), u16("state"),
    u16("minor_rev_level"), u32("lastcheck"), u32("checkinterval"), u32("creator_os"),
    u32("rev_level"), u16("def_resuid"), u16("def_resgid"), u32("first_ino")>>

LaterRevisions ==
  <<u16("inode_size"), u16("block_group_nr"), u32("feature_compat"),
    u32("feature_incompat"), u32("feature_ro_compat"), array(u8("uuid"), 16),
    array(u8("volume_name"), 16), array(u8("last_mounted"), 64), u32("algo_bitmap"),
    u8("prealloc_blocks"), u8("prealloc_dir_blocks"), u16("padding_1"),
    array(u8("journal_uuid"), 16), u32("journal_inum"), u32("journal_dev"),
    u32("last_orphan"), array(u32("hash_seed"), 4), u8("def_hash_version"),
    array(u8("padding_2"), 3), u32("default_mount_options"), u32("first_meta_bg"),
    array(u8("unused"), 760)>>

Ext2SuperBlock == FirstRevision \o LaterRevisions

Ext2BlockGroupDescriptor ==
  <<u32("block_bitmap"), u32("inode_bitmap"), u32("inode_table"), u16("free_blocks_count"),
    u16("free_inodes_count"), u16("used_dirs_count"), u16("pad"), array(u8("reserved"), 12)>>

\* What an inode says of its file; blocks is a word of 16 bits here.
Attributes ==
  <<u16("mode"), u16("uid"), u32("size"), u32("atime"), u32("ctime"), u32("mtime"),
    u32("dtime"), u16("gid"), u16("links_count"), u16("blocks")>>

\* The unions have the size of their largest member.
Contents ==
  <<u32("flags"), u32("osdi1"), array(u32("block"), 15), u32("generation"),
    u32("file_acl"), u32("dir_acl"), u32("faddr"), array(u32("osd2"), 3)>>

Ext2Inode == Attributes \o Contents

InodeSize == SizeOf(Ext2Inode)
GroupSize == SizeOf(Ext2BlockGroupDescriptor)
-----------------------------------------------------------------------------
(* What mkfs.ext2 -b 1024 -I 128 writes: the fields the kernel uses, <<offset, bytes>> *)

OnDisk ==
  [super |-> [blocks_count |-> <<4, 4>>, log_block_size |-> <<24, 4>>,
              blocks_per_group |-> <<32, 4>>, inodes_per_group |-> <<40, 4>>,
              inode_size |-> <<88, 2>>],
   group |-> [block_bitmap |-> <<0, 4>>, inode_bitmap |-> <<4, 4>>, inode_table |-> <<8, 4>>],
   inode |-> [mode |-> <<0, 2>>, size |-> <<4, 4>>, block |-> <<40, 4>>]]

kBlockSize == 1024
DiskInodeSize == 128
DiskGroupSize == 32

\* What the kernel finds in a field of its structure: the field of the disk that lies
\* exactly there.
Found(struct, name, format) ==
  LET there == {f \in DOMAIN format : format[f] = Place(struct, name)}
  IN  IF there = {} THEN "something else" ELSE CHOOSE f \in there : TRUE
-----------------------------------------------------------------------------
Groups == 0 .. BlockGroups - 1
Inodes == 1 .. BlockGroups * InodesPerGroup
Content == [mode : Modes, size : Sizes]
Blank == [mode |-> 0, size |-> 0]

\* The byte at which mkfs has put inode i.
AddressOf(i) ==
  InodeTables[(i - 1) \div InodesPerGroup] * kBlockSize
    + ((i - 1) % InodesPerGroup) * DiskInodeSize

VARIABLES disk,      \* what lies at the bytes where an inode begins
          super_block_, block_descs_,
          written    \* what was last written to each inode
layout == <<disk, super_block_, block_descs_, written>>

Init ==
  /\ written = [i \in Inodes |-> Blank]
  /\ disk = [a \in {AddressOf(i) : i \in Inodes} |-> Blank]
  /\ super_block_ = <<>> /\ block_descs_ = <<>>

SuperFields == DOMAIN OnDisk.super
GroupFields == DOMAIN OnDisk.group

\* The assertions of the constructor: it goes on with inodes of its own size only.
SuitsKernel(super) ==
  /\ super["log_block_size"] = "log_block_size"
  /\ super["inode_size"] = "inode_size" /\ DiskInodeSize = InodeSize

\* One read of the super block, one of all descriptors.
Mount ==
  /\ super_block_ = <<>>
  /\ super_block_' = [f \in SuperFields |-> Found(Ext2SuperBlock, f, OnDisk.super)]
  /\ SuitsKernel(super_block_')
  /\ block_descs_' = [g \in Groups |->
       LET start == g * GroupSize
       IN  [group  |-> start \div DiskGroupSize,
            fields |-> [f \in GroupFields |->
                          IF start % DiskGroupSize # 0 THEN "something else"
                          ELSE Found(Ext2BlockGroupDescriptor, f, OnDisk.group)]]]
  /\ UNCHANGED <<disk, written>>

\* The value of a field as the kernel has read it; what lies elsewhere is no number
\* of inodes and no table.
InodesOfGroup == IF super_block_["inodes_per_group"] = "inodes_per_group" THEN InodesPerGroup ELSE 1
InodeTable(g) ==
  IF block_descs_[g].fields["inode_table"] = "inode_table" THEN InodeTables[block_descs_[g].group]
  ELSE 0

\* Fault: eight counts from one.
BlockOffByOne(inode_addr) ==
  LET index == inode_addr % InodesOfGroup
  IN  InodeTable((inode_addr - 1) \div InodesOfGroup) + index \div 8

BlockContainingInode(inode_addr) ==
  LET index == (inode_addr - 1) % InodesOfGroup
  IN  InodeTable((inode_addr - 1) \div InodesOfGroup) + index \div 8

IndexInBlock(inode_addr) == ((inode_addr - 1) % InodesOfGroup) % 8

\* An array of eight inodes, as it is read from a block and written back.
GetFromBlockId(block) ==
  [k \in 0 .. 7 |-> LET a == block * kBlockSize + k * InodeSize
                    IN  IF a \in DOMAIN disk THEN disk[a] ELSE <<>>]

WriteFromBlockId(inodes, block) ==
  disk' = [a \in DOMAIN disk |->
             IF a \div kBlockSize = block THEN inodes[(a % kBlockSize) \div InodeSize]
             ELSE disk[a]]

ReadInode(inode_addr) == GetFromBlockId(BlockContainingInode(inode_addr))[IndexInBlock(inode_addr)]

WriteInode(inode_addr, inode) ==
  /\ super_block_ # <<>>
  /\ Cardinality({i \in Inodes \ {inode_addr} : written[i] # Blank}) < MaxWritten
  /\ LET block == BlockContainingInode(inode_addr)
     IN  WriteFromBlockId([GetFromBlockId(block) EXCEPT ![IndexInBlock(inode_addr)] = inode], block)
  /\ written' = [written EXCEPT ![inode_addr] = inode]
  /\ UNCHANGED <<super_block_, block_descs_>>

\* The root directory is the second of the two inodes that mount reads.
RootInode == GetFromBlockId(InodeTable(0))[1]
-----------------------------------------------------------------------------
(* What calls read of an inode *)

\* In this order; a mode has 16 bits, the first four are the format.
FileFormats == << <<"S_SOCK", 12>>, <<"S_LNK", 10>>, <<"S_REG", 8>>, <<"S_BLK", 6>>,
                  <<"S_DIR", 4>>, <<"S_CHR", 2>>, <<"S_FIFO", 1>> >>

\* Bits of two numbers of four bits that are both set.
Common(m, n) == {b \in {1, 2, 4, 8} : (m \div b) % 2 = 1 /\ (n \div b) % 2 = 1}
HasBits(mode, bits) == Common(mode \div 4096, bits) = Common(bits, bits)

GetFileFormatFromMode(mode) ==
  LET fits == SelectSeq(FileFormats, LAMBDA f : HasBits(mode, f[2]))
  IN  IF fits = <<>> THEN "S_UNKNOWN" ELSE fits[1][1]

\* Also true of sockets and block devices, which this kernel does not make.
IsDirectory(inode) == HasBits(inode.mode, 4)

Stat(inode_num) ==
  LET file == ReadInode(inode_num)
  IN  [inode |-> inode_num, file_size |-> file.size, mode |-> file.mode]

Next == Mount \/ \E i \in Inodes, c \in Content : WriteInode(i, c)
-----------------------------------------------------------------------------
(* Properties *)

\* Every inode that was written is found again, as it was and where mkfs and
\* the next mount look for it; its neighbours in the block and in the other groups
\* stay as they were, although the kernel reads and writes eight at a time
\* (WriteInode) into structures that rely on the compiler's padding (Ext2SuperBlock).
InodesKept ==
  /\ \A i \in Inodes : disk[AddressOf(i)] = written[i]
  /\ super_block_ # <<>> =>
       /\ \A f \in SuperFields : super_block_[f] = f
       /\ \A i \in Inodes : ReadInode(i) = written[i]
       /\ RootInode = ReadInode(2)
       /\ \A f \in {"mode", "size", "block"} : Found(Ext2Inode, f, OnDisk.inode) = f
       /\ \A i \in Inodes :
            LET info == Stat(i)
            IN  /\ info.file_size = written[i].size
                /\ GetFileFormatFromMode(info.mode) = "S_DIR" <=> IsDirectory(written[i])
=============================================================================
