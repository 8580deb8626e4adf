-------------------------- MODULE MCWikiPublication --------------------------
(***************************************************************************)
(* One or two compiling processes, one page, two or three keys.            *)
(***************************************************************************)
EXTENDS WikiPublication, TLC

Inodes == Permutations(Inode)
=============================================================================
