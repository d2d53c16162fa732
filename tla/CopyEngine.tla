------------------------------ MODULE CopyEngine ------------------------------
(***************************************************************************)
(* What the resumable copy (ingest/copy.py) and the checks that follow it  *)
(* (ingest/verify.py) compute of a source file and a partial copy of it.   *)
(*                                                                         *)
(* A file is a sequence of blocks of the chunk size.  SHA-256 is taken as  *)
(* injective, so a hash is the data it was computed from.                  *)
(***************************************************************************)
EXTENDS Naturals, Sequences, SequencesExt

\* size, mtime_ns and file identity; whoever changes a file changes its version.
SourceStat(file) == [size |-> Len(file.data), version |-> file.version]

\* Faulty variant: only a complete partial is accepted.
WholeAgrees(partial, file) == partial = file.data
\* An existing partial may be continued only if the source begins with it.
PrefixAgrees(partial, file) == IsPrefix(partial, file.data)

MoreToRead(file, copied) == copied < Len(file.data)

BlockAt(file, copied) == file.data[copied + 1]
=============================================================================
