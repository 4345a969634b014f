---------------------------- MODULE MCFileStore ----------------------------
(* Files for FileStore: blocks of three bytes, a size of one byte in front.  *)
EXTENDS FileStore, TLC

\* A file that fits in its header; two files that share a block, one of full
\* blocks only with a NUL in the second, the other with the shared block twice
\* and a NUL in its last block.
MCFiles == { <<0, 2>>, <<1, 1, 1, 2, 0, 2>>, <<1, 1, 1, 1, 1, 1, 0>> }

\* What follows the block buffer in memory: a NUL at once, or another byte.
MCTrails == { <<>>, <<7>> }

\* Workers are interchangeable.
Symmetry == Permutations(Workers)
============================================================================
