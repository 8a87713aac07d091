----------------------------- MODULE MCDecoder -----------------------------
(***************************************************************************)
(* Decoder on every short sequence of bytes from the boundaries of the     *)
(* ranges that the encodings tell apart.                                   *)
(***************************************************************************)
EXTENDS Decoder

Utf8Bytes == {0, \hA, \h7F, \h80, \h8F, \h90, \h9F, \hA0, \hBF, \hC1, \hC2, \hDF,
              \hE0, \hED, \hEF, \hF0, \hF4, \hF5}

FewUtf8Bytes == {\hA, \h41, \h80, \hBF, \hC3, \hE1}

\* Bytes that lead a surrogate, pair with one, or make a line feed or a
\* non-character of two units.
Utf16Bytes == {0, \hA, \hD8, \hDB, \hDC, \hDF, \hFF}

UpTo(S, n) == UNION {[1..k -> S] : k \in 0..n}

FourBytes == {<<a, b, c, d>> : a \in {\hF0, \hF3, \hF4}, b \in {\h7F, \h8F, \h90, \hBF, \hC0},
                               c \in {\h80, \hBF, \hC2}, d \in {\h41, \h80, \hBE, \hBF}}

SampleInputs ==
    UpTo(Utf8Bytes, 3)
        \cup UpTo(FewUtf8Bytes, 5)
        \cup FourBytes
        \cup {f \o <<\hA, \h41>> : f \in FourBytes}
        \cup {<<\hEF, \hBB, \hBF>> \o s : s \in UpTo(Utf8Bytes, 2)}
        \cup {bom \o s : bom \in {<<\hFF, \hFE>>, <<\hFE, \hFF>>}, s \in UpTo(Utf16Bytes, 4)}
        \cup {[i \in 1..7 |-> \h41]}
=============================================================================
