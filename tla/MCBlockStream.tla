----------------------------- MODULE MCBlockStream -----------------------------
(* Body lengths around every boundary: one block, the aligned and the      *)
(* unaligned last block, and past two wraps of the sequence number.        *)
EXTENDS BlockStream

MCBodyLengths == 0 .. 3 \cup 126 .. 131 \cup {255, 256, 257, 384,
                 254 * 128 + 1, 255 * 128, 255 * 128 + 1, 256 * 128, 511 * 128 + 7}
===============================================================================
