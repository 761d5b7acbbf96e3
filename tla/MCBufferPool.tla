---------------------------- MODULE MCBufferPool ----------------------------
(* Instance of BufferPool for TLC: a size_t of three bits.                 *)
EXTENDS BufferPool

Config(fixed, buckets, alignment, max) ==
    [fixed |-> fixed, buckets |-> buckets, alignment |-> alignment, max |-> max]

\* Unbounded and aligned near the end of size_t, with buckets, with blocks, without either.
MCConfigs ==
    {Config(0, {}, 4, 0), Config(0, {2, 6}, 1, 7), Config(3, {}, 2, 7), Config(0, {}, 2, 5)}

FrameSymmetry == Permutations(Frames)
=============================================================================
