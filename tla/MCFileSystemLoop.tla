-------------------------- MODULE MCFileSystemLoop --------------------------
(* FileSystemLoop for TLC: one name, and a disk one write can fill. *)
EXTENDS FileSystemLoop

CONSTANTS file1, dir

FileNames   == {file1}
MarkedMemory == [k \in 0 .. Capacity - 1 |-> k + 1]

=============================================================================
