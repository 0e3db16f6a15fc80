-------------------------------- MODULE Fifo --------------------------------
(***************************************************************************)
(* Buffers (src/tek/class/fifo.lua): a table of fragments, in the order in *)
(* which they were written, of any length.  A fragment is a sequence of    *)
(* characters.  A read returns what it has read, or None, and the          *)
(* fragments it leaves.  Nobody marks the end of a buffer (self.eof).      *)
(***************************************************************************)
EXTENDS Naturals, Sequences, SequencesExt, FiniteSetsExt

CONSTANT None

From(s, i) == SubSeq(s, i, Len(s))
UpTo(s, i) == SubSeq(s, 1, Min({i, Len(s)}))

(* Where the pattern begins in s. *)
Places(pat, s) ==
  {i \in 1..(Len(s) - Len(pat) + 1) : SubSeq(s, i, i + Len(pat) - 1) = pat}

FifoWrite(buf, s) == Append(buf, s)

(* reada *)
ReadAll(buf) == [got |-> FlattenSeq(buf), buf |-> <<>>]

(* Mutant: what was joined is not put back. *)
NotFoundDrops(buf) == [got |-> None, full |-> FALSE, buf |-> <<>>]

(* Nothing was found: what was joined in search of it stays one fragment. *)
NotFound(buf) ==
  [got |-> None, full |-> FALSE, buf |-> IF buf = <<>> THEN buf ELSE <<FlattenSeq(buf)>>]

(* Mutant: every fragment is searched by itself. *)
ReadPatApart(buf, pat) ==
  LET hits == {k \in DOMAIN buf : Places(pat, buf[k]) # {}} IN
  IF hits = {} THEN NotFound(buf)
  ELSE LET k == Min(hits)
           a == Min(Places(pat, buf[k]))
       IN [got  |-> FlattenSeq(SubSeq(buf, 1, k - 1)) \o UpTo(buf[k], a - 1),
           full |-> TRUE,
           buf  |-> <<From(buf[k], a + Len(pat))>> \o From(buf, k + 1)]

(* readpat: fragments are joined until the pattern is among them. *)
ReadPat(buf, pat) ==
  LET Joined(k) == FlattenSeq(SubSeq(buf, 1, k))
      hits == {k \in DOMAIN buf : Places(pat, Joined(k)) # {}}
  IN IF hits = {} THEN NotFound(buf)
     ELSE LET k == Min(hits)
              a == Min(Places(pat, Joined(k)))
          IN [got  |-> UpTo(Joined(k), a - 1),
              full |-> TRUE,
              buf  |-> <<From(Joined(k), a + Len(pat))>> \o From(buf, k + 1)]

(* So much of a fragment is looked at. *)
PartLen(pat, len) == len + Len(pat)

(* readpatlen: until there is the pattern, or enough without it; full says *)
(* that the pattern was there and has been read as well.                   *)
ReadPatLen(buf, pat, len) ==
  LET part == PartLen(pat, len)
      Joined(k) == FlattenSeq(SubSeq(buf, 1, k - 1)) \o UpTo(buf[k], part)
      Left(k) == (IF Len(FlattenSeq(SubSeq(buf, 1, k))) > part
                  THEN <<From(buf[k], part + 1)>> ELSE <<>>) \o From(buf, k + 1)
      ends == {k \in DOMAIN buf :
                 Places(pat, Joined(k)) # {} \/ Len(Joined(k)) >= len}
  IN IF ends = {} THEN NotFound(buf)
     ELSE LET k == Min(ends)
              s == Joined(k)
              places == Places(pat, s)
              near == places # {} /\ Min(places) <= len + 1
              rest == IF near THEN From(s, Min(places) + Len(pat)) ELSE From(s, len + 1)
          IN [got  |-> IF near THEN UpTo(s, Min(places) - 1) ELSE UpTo(s, len),
              full |-> near,
              buf  |-> (IF rest = <<>> /\ places # {} THEN <<>> ELSE <<rest>>) \o Left(k)]
=============================================================================
