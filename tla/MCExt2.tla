------------------------------- MODULE MCExt2 -------------------------------
(***************************************************************************)
(* A small image for Ext2: blocks of three words, five direct blocks, two  *)
(* groups, and a file B that reaches into its double address block.        *)
(***************************************************************************)
EXTENDS Ext2

A == 1   B == 2   D == 3   Empty == 4   This == 5   Up == 6

\* Blocks 0 to 5 and 24 to 26 are the boot block, the super block, the group
\* descriptors, the bitmaps and the inode tables.
Tables == 0 .. 5 \cup 24 .. 26

Words(a, b, c) == 0 :> a @@ 1 :> b @@ 2 :> c
BlockPointers(s) == [k \in 0 .. 7 |-> IF k < Len(s) THEN s[k + 1] ELSE 0]
NoInode == [mode |-> "none", size |-> 0, block |-> BlockPointers(<<>>)]

\* The root directory in blocks 6 to 8, B in 9 to 20.
Content ==
  6 :> Words(2, 3, This) @@ 7 :> Words(2, 3, Up) @@ 8 :> Words(3, 3, B)
  @@ [b \in 9 .. 17 \ {14} |-> Words(3 * b - 17, 3 * b - 16, 3 * b - 15)]
  @@ 14 :> Words(15, 16, 17) @@ 18 :> Words(19, 0, 0) @@ 19 :> Words(20, 0, 0)
  @@ 20 :> Words(37, 0, 0)
  @@ [b \in 0 .. 46 |-> Words(0, 0, 0)]

FileB == [mode |-> "file", size |-> 25,
                block |-> BlockPointers(<<9, 10, 11, 12, 13, 14, 18>>)]

\* Bit n of a group is its block n + 1.  mkfs leaves a block that is marked but
\* belongs to no file before the free ones (21 and 27, of lost+found).
DiskImage ==
  [inode |-> 2 :> [mode |-> "dir", size |-> 9, block |-> BlockPointers(<<6, 7, 8>>)]
             @@ 3 :> FileB @@ [i \in 1 .. 8 |-> NoInode],
   block |-> Content,
   block_bitmap |-> 0 :> 0 .. 20 @@ 1 :> 0 .. 3,
   inode_bitmap |-> 0 :> 0 .. 2 @@ 1 :> {}]

\* Files up to the last block that is marked.
FullImage == [DiskImage EXCEPT !.block_bitmap = 0 :> 0 .. 19 @@ 1 :> 0 .. 2]

PathsMC == {<<A>>, <<B>>, <<D>>, <<D, A>>}
\* No more than the disk has blocks, so that data taken for a block number is one.
DataMC == {<<41>>, <<42, 43, 44, 45>>}
=============================================================================
