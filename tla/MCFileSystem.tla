---------------------------- MODULE MCFileSystem ----------------------------
(***************************************************************************)
(* FileSystem for TLC: the names are those of a file and of the directory, *)
(* and the bytes of mem_area differ from their neighbours and from those   *)
(* of a cleared disk.                                                      *)
(***************************************************************************)
EXTENDS FileSystem, TLC

CONSTANTS file1, dir

DirectoryNames == {file1, dir}
MarkedMemory   == [k \in 0 .. Capacity - 1 |-> 1 + (k % 2)]

=============================================================================
