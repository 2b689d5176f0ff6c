------------------------------ MODULE CString ------------------------------
(***************************************************************************)
(* C strings as a hash function reads them: by the byte of a character.    *)
(***************************************************************************)
EXTENDS Integers, Sequences

\* Runs of printable characters with the byte of the first: those the names need.
Runs == { <<33, "!">>, <<42, "*+,-./0123456789:;<=>?@ABCDEFGHIJKLMNOPQRSTUVWXYZ[">>,
          <<95, "_">>, <<97, "abcdefghijklmnopqrstuvwxyz{|}~">> }

ByteOf ==
  [c \in UNION {{SubSeq(r[2], k, k) : k \in 1 .. Len(r[2])} : r \in Runs} |->
     CHOOSE b \in 33 .. 126 :
       \E r \in Runs : \E k \in 1 .. Len(r[2]) : b = r[1] + k - 1 /\ SubSeq(r[2], k, k) = c]

\* (unsigned char) str[i]; i counts from 0.
Byte(str, i) == ByteOf[SubSeq(str, i + 1, i + 1)]

\* str with c in place of str[i].
Replaced(str, i, c) == SubSeq(str, 1, i) \o c \o SubSeq(str, i + 2, Len(str))
=============================================================================
