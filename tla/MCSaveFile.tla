------------------------------ MODULE MCSaveFile ------------------------------
EXTENDS InspectedSave
CONSTANTS root, inner, left, middle, right
\* Shorter than the buffer of 6 (3 and 3 fill it exactly, 2, 3 and 3 do not fit),
\* as long as it, and longer; the header is one that stays in the buffer.
MCLength == (left :> 2) @@ (middle :> 3) @@ (right :> 3) @@ (inner :> 7) @@ (root :> 6)
            @@ (Header :> 3)
MCLinks == (root :> <<inner, right>>) @@ (inner :> <<left, middle>>)
           @@ (left :> <<>>) @@ (middle :> <<>>) @@ (right :> <<>>)
\* NoCompression, LZ4, a compressor of the caller's, one with an id beyond the
\* MetaByte's bits, and one that is not registered.
MCConfig == (root :> 0) @@ (inner :> 1) @@ (left :> 5) @@ (middle :> 9) @@ (right :> 6)
=============================================================================
