---------------------------- MODULE DayArchive ----------------------------
(***************************************************************************)
(* Where the heavy payloads of one day are: in the rows of the database,   *)
(* and in the files of the archive directory.  Two names may lead to a     *)
(* file, the day's and the temporary one, so a file is an inode.           *)
(***************************************************************************)
EXTENDS Integers

CONSTANT Rows  \* the day's heavy rows, 1..n; a batch is one row

VARIABLES
  heavy,    \* rows of the database that still have their payload
  target,   \* the inode under the day's name, or Nowhere
  tmp,      \* the inode under the temporary name, or Nowhere
  inode,    \* what each inode holds
  aged      \* history: an archive of the day was deleted for its age

Inodes == 1..3
Nowhere == 0

Present(file) == file # Nowhere

\* What verification accepts: a file that is there and reads back in full.
Intact(file) == file # Nowhere /\ inode[file].whole

\* What makes verification raise past every handler of the pass: a gzip stream that is
\* damaged in the middle, and not merely short.
Garbled(file) == file # Nowhere /\ ~inode[file].whole /\ inode[file].garbled

\* Until an archive of the day was deleted for its age, every payload is in the
\* database or in a day file that is complete, under any interleaving of two
\* passes and wherever either dies: nothing is trimmed on the strength of a file
\* the other pass is about to empty, and no file is written from trimmed rows.
PayloadKept ==
  aged \/ \A r \in Rows :
            \/ r \in heavy
            \/ Intact(target) /\ r \in inode[target].payloads
=============================================================================
