---------------------------------- MODULE Blob ----------------------------------
(***************************************************************************)
(* The bytes every index is read from, and the checksum over them          *)
(* (src/src/blob.rs): a view of a shared source, cut again and run on past *)
(* its end, and BlockHasher, fed in pieces.                                *)
(*                                                                         *)
(* Mixing a word into the hash loses nothing here: the state is the words  *)
(* that were mixed in, so two streams have one hash only where the code    *)
(* gives the mixer the same words and the same length.                     *)
(***************************************************************************)
EXTENDS Integers, Sequences, SequencesExt, FiniteSetsExt

CONSTANT Word      \* bytes of a word, 8 in the code

None == [src |-> <<>>, ptr |-> -1, len |-> 0]

-------------------------------------------------------------------------------
(* SharedBytes: a source, where the view starts in it, and how long it is. *)

whole(src)   == [src |-> src, ptr |-> 0, len |-> Len(src)]
as_ref(v)    == SubSeq(v.src, v.ptr + 1, v.ptr + v.len)
\* A view is measured within the view it is cut from.
subslice(v, start, end) ==
    IF start > end \/ end > v.len THEN None ELSE [v EXCEPT !.ptr = @ + start, !.len = end - start]
\* And a view runs on as far as its source does.
run_on(v, more) == IF v.ptr + v.len + more > Len(v.src) THEN None ELSE [v EXCEPT !.len = @ + more]

-------------------------------------------------------------------------------
(* BlockHasher. *)

LOCAL Zeros(n) == [i \in 1 .. n |-> 0]
LOCAL Least(a, b) == IF a < b THEN a ELSE b

new == [h |-> <<>>, buf |-> <<>>, total |-> 0]
word(x, w) == [x EXCEPT !.h = Append(@, w)]

\* The words of a piece that starts a word, and what is left of it.
LOCAL WordsOf(x, bytes) ==
    LET n == Len(bytes) \div Word
    IN  [x EXCEPT !.h = @ \o [i \in 1 .. n |-> SubSeq(bytes, (i - 1) * Word + 1, i * Word)],
                  !.buf = SubSeq(bytes, n * Word + 1, Len(bytes))]
LOCAL Counted(x, bytes) == [x EXCEPT !.total = @ + Len(bytes)]
LOCAL Filled(x, bytes, take) ==
    IF Len(x.buf) + take < Word THEN [x EXCEPT !.buf = @ \o bytes]
    ELSE WordsOf(word(x, x.buf \o SubSeq(bytes, 1, take)), SubSeq(bytes, take + 1, Len(bytes)))
\* The word a piece before this one began is filled first.
update(x, bytes) ==
    IF x.buf = <<>> THEN WordsOf(Counted(x, bytes), bytes)
    ELSE Filled(Counted(x, bytes), bytes, Least(Len(bytes), Word - Len(x.buf)))

\* The last word is padded with zeros, and the length goes in last.
finish(x) ==
    IF x.buf = <<>> THEN <<x.h, x.total>>
    ELSE <<word(x, x.buf \o Zeros(Word - Len(x.buf))).h, x.total>>

hash_block(bytes) == finish(update(new, bytes))
\* A payload that goes through Hashed, in the pieces a writer is given.
hashed(pieces) == finish(FoldLeft(LAMBDA x, piece : update(x, piece), new, pieces))

-------------------------------------------------------------------------------
(* The properties, of a case c. *)

\* A payload written in pieces, whatever they are, has the checksum of the whole that a load
\* reads in one; and no two payloads have one checksum for what the hasher does with their tails.
PiecesHashAsOne(c) ==
    /\ hashed(c.pieces) = hash_block(FlattenSeq(c.pieces))
    /\ \A other \in c.others : hash_block(other) = hashed(c.pieces) => other = FlattenSeq(c.pieces)

LOCAL CutAgain(v, c) ==
    v # None =>
      LET u == subslice(v, c.cut[3], c.cut[4])
      IN  /\ (u # None) <=> c.cut[3] <= c.cut[4] /\ c.cut[4] <= v.len
          /\ u # None => /\ as_ref(u) = SubSeq(as_ref(v), c.cut[3] + 1, c.cut[4])
                         /\ \A more \in 0 .. Len(c.src) + 1 :
                              LET r == run_on(u, more)
                              IN  IF c.cut[1] + c.cut[4] + more > Len(c.src) THEN r = None
                                  ELSE as_ref(r) = SubSeq(c.src, c.cut[1] + c.cut[3] + 1,
                                                          c.cut[1] + c.cut[4] + more)
\* A view cut out of a view is its bytes and no other, and run on takes the source's next bytes
\* and none past its last.
ViewsStayInside(c) == CutAgain(subslice(whole(c.src), c.cut[1], c.cut[2]), c)
=================================================================================
