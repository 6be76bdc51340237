----------------------- MODULE FileSystemPersistence ------------------------
(***************************************************************************)
(* The file system of lab06 over several runs of the program: `exit' saves *)
(* the disk to ldisk.bin and then the bitmap and the descriptors to        *)
(* file_system.bin, and the next run restores what these files hold.  The  *)
(* program can be killed at any moment, also between two writes of a save. *)
(*                                                                         *)
(* Opening an ofstream empties the file.  A file that is empty and one     *)
(* that does not exist restore the same: nothing.  A kill loses the memory *)
(* at once; after an exit it stays to be compared with, and unread, until  *)
(* the next run.                                                           *)
(***************************************************************************)
EXTENDS FileSystem

CONSTANT NOTHING   \* the part of file_system.bin is not there

ASSUME NothingAssumption == NOTHING \notin [Blocks -> {0, 1}] \union [Slots -> FileType]

VARIABLES
  ldisk_bin,       \* blocks 0 .. n-1 of ldisk, those ldisk.bin holds
  bitmap_bin,      \* the first part of file_system.bin
  fds_bin          \* the second part of file_system.bin

files == <<ldisk_bin, bitmap_bin, fds_bin>>
allvars == <<vars, files>>

\* how many blocks ldisk.bin holds
SavedBlocks == Cardinality(DOMAIN ldisk_bin)
NoBlocks    == [b \in {} |-> b]

Stopped == pc \in {"exited", "killed"}

-----------------------------------------------------------------------------
(* `exit': save_ldisk_to_file(), then save_file_system_to_file().          *)

Exit ==
  /\ pc = "command"
  /\ pc' = "save_ldisk"
  /\ ldisk_bin' = NoBlocks
  /\ UNCHANGED <<fds, open_files, disk_bitmap, ldisk, job, bitmap_bin, fds_bin>>

SaveBlock ==
  /\ pc = "save_ldisk"
  /\ SavedBlocks < MAX_BLOCKS
  /\ ldisk_bin' = [b \in 0 .. SavedBlocks |-> ldisk[b]]
  /\ UNCHANGED <<vars, bitmap_bin, fds_bin>>

\* fault: the last block is not written
OpenFileSystemFileEarly ==
  /\ pc = "save_ldisk"
  /\ SavedBlocks = MAX_BLOCKS - 1
  /\ pc' = "save_bitmap"
  /\ bitmap_bin' = NOTHING
  /\ fds_bin' = NOTHING
  /\ UNCHANGED <<fds, open_files, disk_bitmap, ldisk, job, ldisk_bin>>

\* fault: the file is opened without being emptied
OpenFileSystemFileAsIs ==
  /\ pc = "save_ldisk"
  /\ SavedBlocks = MAX_BLOCKS
  /\ pc' = "save_bitmap"
  /\ UNCHANGED <<fds, open_files, disk_bitmap, ldisk, job, files>>

OpenFileSystemFile ==
  /\ pc = "save_ldisk"
  /\ SavedBlocks = MAX_BLOCKS
  /\ pc' = "save_bitmap"
  /\ bitmap_bin' = NOTHING
  /\ fds_bin' = NOTHING
  /\ UNCHANGED <<fds, open_files, disk_bitmap, ldisk, job, ldisk_bin>>

SaveBitmap ==
  /\ pc = "save_bitmap"
  /\ pc' = "save_fds"
  /\ bitmap_bin' = disk_bitmap
  /\ UNCHANGED <<fds, open_files, disk_bitmap, ldisk, job, ldisk_bin, fds_bin>>

SaveFds ==
  /\ pc = "save_fds"
  /\ pc' = "exited"
  /\ fds_bin' = fds
  /\ UNCHANGED <<fds, open_files, disk_bitmap, ldisk, job, ldisk_bin, bitmap_bin>>

\* Ctrl-C, or any other end that is not the command
Kill ==
  /\ ~ Stopped
  /\ pc' = "killed"
  /\ fds' = InitialFds
  /\ open_files' = InitialOpenFiles
  /\ disk_bitmap' = InitialBitmap
  /\ ldisk' = InitialLdisk
  /\ job' = NoJob
  /\ UNCHANGED files

-----------------------------------------------------------------------------
(* The next run: main() up to the prompt.                                  *)

RestoredLdisk ==
  [b \in Blocks |-> IF b \in DOMAIN ldisk_bin THEN ldisk_bin[b] ELSE InitialLdisk[b]]

RestoredBitmap == IF bitmap_bin = NOTHING THEN InitialBitmap ELSE bitmap_bin

RestoredFds == IF fds_bin = NOTHING THEN InitialFds ELSE fds_bin

Start ==
  /\ Stopped
  /\ fds' = RestoredFds
  /\ open_files' = InitialOpenFiles
  /\ disk_bitmap' = RestoredBitmap
  /\ ldisk' = RestoredLdisk
  /\ pc' = "command"
  /\ job' = NoJob
  /\ UNCHANGED files

-----------------------------------------------------------------------------
PInit ==
  /\ Init
  /\ ldisk_bin = NoBlocks
  /\ bitmap_bin = NOTHING
  /\ fds_bin = NOTHING

SaveStep == SaveBlock \/ OpenFileSystemFile \/ SaveBitmap \/ SaveFds

-----------------------------------------------------------------------------
(* Properties.                                                             *)

\* Whatever a kill left in the saved files, a block that a file owns is marked
\* after the next start, so allocate_block() does not give it to another file.
\* (The bitmap is written before the descriptors, and both are emptied first.)
\* The converse fails: a kill between the two leaves blocks marked for nobody.
OwnedBlocksMarked ==
  \A b \in Blocks : (\E i \in Slots, k \in FileIdx : Owns(i, k, b)) => disk_bitmap[b] = 1

\* A run that follows a completed exit starts with the files, the bitmap and
\* the disk that the run before it ended with, whatever kills came earlier.
RestartRestores ==
  [][pc = "exited" /\ pc' = "command" => UNCHANGED <<fds, disk_bitmap, ldisk>>]_allvars

=============================================================================
