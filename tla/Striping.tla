------------------------------ MODULE Striping ------------------------------
(***************************************************************************)
(* How the libsysio driver spreads a file over storage objects             *)
(* (src/client/sysio_client/fs_lwfs.c, the functions sso_calc_... and the  *)
(* loop of sso_io).  A file is a sequence of bytes cut into chunks of      *)
(* chunk_size bytes, and the chunks are dealt out to the ss_obj_count      *)
(* objects in turn.                                                        *)
(***************************************************************************)
EXTENDS Naturals, Sequences

CONSTANTS
  ss_obj_count,  \* the number of data objects of a file, one per storage server
  chunk_size     \* the bytes of a chunk

ASSUME StripingAssumption ==
  /\ ss_obj_count \in Nat \ {0}
  /\ chunk_size \in Nat \ {0}

\* A slip: the place in the chunk without the chunks below it.
ObjOffsetInChunk(file_offset) == file_offset % chunk_size

\* sso_calc_obj_index_offset: the object that holds a byte of the file, and
\* the byte's place in it.
ObjIndex(file_offset) == (file_offset \div chunk_size) % ss_obj_count

ObjOffset(file_offset) ==
  LET stripe_number == (file_offset \div chunk_size) \div ss_obj_count
  IN  stripe_number * chunk_size + (file_offset % chunk_size)

\* The bytes of one transfer: at most a chunk.
AtMost(bytes_left, bytes) == IF bytes_left > bytes THEN bytes ELSE bytes_left

\* A slip: a whole chunk from the middle of a chunk.
FirstBytesWhole(bytes_left, first_obj_offset) == AtMost(bytes_left, chunk_size)

\* sso_calc_first_bytes_to_io: what the first transfer takes, when it starts
\* in the middle of a chunk and when it does not.
FirstBytes(bytes_left, first_obj_offset) ==
  LET first_obj_bytes_avail == chunk_size - (first_obj_offset % chunk_size)
  IN  IF first_obj_offset > 0
      THEN AtMost(bytes_left, first_obj_bytes_avail)
      ELSE AtMost(bytes_left, chunk_size)

\* The transfer of len bytes at a place in the file: which object, where in it,
\* and where in the caller's buffer.
Piece(file_offset, buf_offset, len) ==
  [obj |-> ObjIndex(file_offset), at |-> ObjOffset(file_offset),
   buf |-> buf_offset, len |-> len]

\* The loop of sso_io: the transfers it begins for count bytes at off.
Pieces(off, count) ==
  LET first == FirstBytes(count, ObjOffset(off))
      rest[bytes_left \in 0 .. count] ==
        IF bytes_left = 0 THEN <<>>
        ELSE LET n == AtMost(bytes_left, chunk_size)
                 buf_offset == count - bytes_left
             IN  <<Piece(off + buf_offset, buf_offset, n)>> \o rest[bytes_left - n]
  IN  <<Piece(off, 0, first)>> \o rest[count - first]

\* The same when the first transfer could not be begun: the loop takes whole
\* chunks from off on, also from the middle of a chunk.
PiecesAnew(off, count) ==
  [k \in 1 .. (count + chunk_size - 1) \div chunk_size |->
     LET buf_offset == (k - 1) * chunk_size
     IN  Piece(off + buf_offset, buf_offset, AtMost(count - buf_offset, chunk_size))]
=============================================================================
