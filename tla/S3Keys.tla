------------------------------- MODULE S3Keys -------------------------------
(***************************************************************************)
(* How the S3 backend turns paths into keys and back                       *)
(* (omnistorage/backend/s3/backend.go: fullKey, List, Mkdir), and which    *)
(* bytes of an object a read asks for (NewReader), as operators.           *)
(*                                                                         *)
(* A string is the sequence of its segments, the parts between slashes, and*)
(* a segment is the sequence of its letters: "ab/" is <<<<"a","b">>, <<>>>>*)
(* and the empty string <<<<>>>>.                                          *)
(***************************************************************************)
EXTENDS Integers, Sequences, SequencesExt

CONSTANTS Letters,
          Configured,   \* values of Config.Prefix
          WrittenPaths, \* paths an object is written to
          Queries,      \* prefixes given to List
          MaxInt64      \* the largest int64

Empty  == << <<>> >>
Dot    == << "." >>
DotDot == << ".", "." >>

-----------------------------------------------------------------------------
(* Strings.                                                                *)

HasPrefix(s, t) ==
  /\ Len(t) <= Len(s)
  /\ \A i \in 1..(Len(t) - 1) : s[i] = t[i]
  /\ IsPrefix(t[Len(t)], s[Len(t)])

TrimPrefix(s, t) ==
  IF HasPrefix(s, t)
  THEN << SubSeq(s[Len(t)], Len(t[Len(t)]) + 1, Len(s[Len(t)])) >>
         \o SubSeq(s, Len(t) + 1, Len(s))
  ELSE s

Slash          == << <<>>, <<>> >>
IsRooted(s)    == Len(s) > 1 /\ s[1] = <<>>
EndsInSlash(s) == Len(s) > 1 /\ Last(s) = <<>>

\* Paths that path.Clean leaves alone, and those of them with a slash at either
\* end or at both.
Strings == Seq(Seq(Letters))
Name    == Seq(Letters) \ {<<>>, Dot, DotDot}
Plain   == Seq(Name) \ {<<>>}
Body(s) == SubSeq(s, IF IsRooted(s) THEN 2 ELSE 1, IF EndsInSlash(s) THEN Len(s) - 1 ELSE Len(s))

Slashed(p) == Append(p, <<>>)

\* Objects have clean paths; List is also asked for directories, "path/prefix/".
ASSUME KeysAssumption ==
  /\ WrittenPaths \subseteq Plain
  /\ \A q \in Queries :
       q = Empty \/ q \in Plain \/ (q \in Strings /\ EndsInSlash(q) /\ Front(q) \in Plain)
  /\ \A c \in Configured : c = Empty \/ (c \in Strings /\ Body(c) \in Plain)

\* path.Clean: drop empty and "." segments, resolve ".." where there is
\* something to drop; a rooted path has nothing above its root.
Clean(s) ==
  LET Push(stack, seg) ==
        IF seg \in {<<>>, Dot} THEN stack
        ELSE IF seg # DotDot THEN Append(stack, seg)
        ELSE IF stack # <<>> /\ Last(stack) # DotDot THEN Front(stack)
        ELSE IF IsRooted(s) THEN stack ELSE Append(stack, seg)
      kept == FoldLeft(Push, <<>>, s)
  IN IF IsRooted(s) THEN (IF kept = <<>> THEN Slash ELSE << <<>> >> \o kept)
     ELSE IF kept = <<>> THEN << Dot >> ELSE kept

-----------------------------------------------------------------------------
(* The backend, with prefix for Config.Prefix.                             *)

fullKey(prefix, p) == IF prefix = Empty THEN p ELSE Clean(prefix \o p)

\* List: the path reported for a key.
relPathKeepingSlash(prefix, key) == TrimPrefix(key, prefix)

relPath(prefix, key) == TrimPrefix(TrimPrefix(key, prefix), Slash)

\* What List(q) reports on a bucket that holds these keys.
ListOf(prefix, q, keys) ==
  {relPath(prefix, k) : k \in {x \in keys : HasPrefix(x, fullKey(prefix, q))}} \ {Empty}

\* Mkdir and Rmdir: the key of the marker.
MarkerKey(prefix, p) ==
  LET key == fullKey(prefix, p)
  IN IF EndsInSlash(key) THEN key ELSE Append(key, <<>>)

-----------------------------------------------------------------------------
(* NewReader: the bytes asked for.                                         *)

ASSUME RangesAssumption == MaxInt64 \in Nat

Int64   == (-MaxInt64 - 1) .. MaxInt64
Wrap(i) == ((i + MaxInt64 + 1) % (2 * (MaxInt64 + 1))) - MaxInt64 - 1

Whole == [first |-> 0, last |-> MaxInt64]

\* Config.Offset and Config.Limit become a Range header.
RangeHeaderToOffsetPlusLimit(offset, limit) ==
  IF limit > 0 THEN [first |-> offset, last |-> Wrap(offset + limit)]
  ELSE IF offset > 0 THEN [first |-> offset, last |-> MaxInt64]
  ELSE Whole

RangeHeader(offset, limit) ==
  IF limit > 0 THEN [first |-> offset, last |-> Wrap(offset + limit - 1)]
  ELSE IF offset > 0 THEN [first |-> offset, last |-> MaxInt64]
  ELSE Whole

\* The service ignores a malformed header, answers 416 to a range that begins
\* past the end of the object, and sends the positions in the range otherwise.
WellFormed(header)    == 0 <= header.first /\ header.first <= header.last
Refused(header, size) == header # Whole /\ WellFormed(header) /\ header.first >= size

Sent(header, size) ==
  IF WellFormed(header) THEN {i \in 0..(size - 1) : header.first <= i /\ i <= header.last}
  ELSE 0..(size - 1)

-----------------------------------------------------------------------------
(* What the translations have to fulfil.                                   *)

WrittenReadBack ==
  \A prefix \in Configured, p \in WrittenPaths : relPath(prefix, fullKey(prefix, p)) = p

\* A slash at the end of the query counts only where no prefix is configured:
\* path.Join drops it.
Heard(prefix, q) == IF prefix # Empty /\ EndsInSlash(q) THEN Front(q) ELSE q

ListSelects ==
  \A prefix \in Configured, p \in WrittenPaths, q \in Queries :
    p \in ListOf(prefix, q, {fullKey(prefix, p)}) <=> HasPrefix(p, Heard(prefix, q))

MarkersSelect ==
  \A prefix \in Configured, p \in WrittenPaths :
    /\ MarkerKey(prefix, p) # fullKey(prefix, p)
    /\ \A q \in Queries \ {Empty} :
         HasPrefix(fullKey(prefix, p), MarkerKey(prefix, q)) =>
           HasPrefix(p, IF EndsInSlash(q) THEN q ELSE Slashed(q))

PrefixKept ==
  \A prefix \in Configured, p \in WrittenPaths : HasPrefix(fullKey(prefix, p), prefix)

WindowsSent ==
  \A offset, limit \in Int64 :
    (offset >= 0 /\ limit >= 0 /\ offset + limit <= MaxInt64 + 1) =>
       \A size \in 0..MaxInt64 :
         LET header == RangeHeader(offset, limit)
         IN /\ Refused(header, size) <=> (offset > 0 \/ limit > 0) /\ offset >= size
            /\ Refused(header, size) \/
                 Sent(header, size) =
                   {i \in 0..(size - 1) : i >= offset /\ (limit = 0 \/ i < offset + limit)}
=============================================================================
