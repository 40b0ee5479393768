---------------------------- MODULE MCS3History -----------------------------
(***************************************************************************)
(* S3History with the constants of MCS3Backend, and S3Keys on strings of at*)
(* most two segments, each of at most two letters.                         *)
(***************************************************************************)
EXTENDS MCS3Backend, S3History

Segments   == { <<"a">>, <<"b">>, <<"a", "b">>, <<"b", "a">> }
ShortPaths == { <<x>> : x \in Segments } \cup { <<x, y>> : x \in Segments, y \in Segments }

\* With and without a slash at the end or at the beginning.
ConfigPrefixes == {Empty} \cup ShortPaths \cup {Append(p, <<>>) : p \in ShortPaths}
                    \cup {<< <<>>, x >> : x \in Segments} \cup {<< <<>>, x, <<>> >> : x \in Segments}

Listed == ShortPaths \cup {Empty} \cup {Slashed(p) : p \in ShortPaths}
=============================================================================
