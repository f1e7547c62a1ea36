-------------------------------- MODULE Wire --------------------------------
(***************************************************************************)
(* What the encoders write and the decoders read.  A buffer is a sequence  *)
(* of fields, each with its width in bytes: a number or a text.  Only the  *)
(* length of a text and which text it is matter.  A reader keeps a byte    *)
(* offset into a loaded buffer, as the code does; where no field of the    *)
(* width it wants begins it gets Junk.                                     *)
(***************************************************************************)
EXTENDS Integers, Sequences, SequencesExt

Text(id, len) == [ id |-> id, len |-> len ]
Empty == Text("", 0)
JunkText == Text("junk", -1)
Junk == -100000

Num(w, v) == [ w |-> w, n |-> v, t |-> JunkText ]
Byte(v) == Num(1, v % 256)

\* add_short, add_int: the high byte first
add_short(v) == Num(2, v % 65536)
add_int(v) == Num(4, v)

\* memcpy of a string without its terminator
Chars(s) == IF s.len = 0 THEN << >> ELSE << [ w |-> s.len, n |-> Junk, t |-> s ] >>

\* F(x) with x evaluated once
With(x, F(_)) == CHOOSE y \in { F(v) : v \in { x } } : TRUE

Size(buf) == FoldLeft(LAMBDA sum, f : sum + f.w, 0, buf)

\* A buffer that was read: its size and the field that begins at an offset.
Loaded(fields) ==
  FoldLeft(LAMBDA buf, f : [ size |-> buf.size + f.w, at |-> (buf.size :> f) @@ buf.at ],
           [ size |-> 0, at |-> << >> ], fields)

At(buf, i, w) == IF i \in DOMAIN buf.at /\ buf.at[i].w = w THEN buf.at[i] ELSE Num(w, Junk)

Unsigned(buf, i, w) == At(buf, i, w).n

\* a byte in a char
SignedByte(v) == IF v > 127 THEN v - 256 ELSE v
get_byte(buf, i) == SignedByte(Unsigned(buf, i, 1))

\* get_short is a short; an unsigned short that takes it is back at 0 .. 65535
get_short(buf, i) == LET v == Unsigned(buf, i, 2) IN IF v > 32767 THEN v - 65536 ELSE v
get_unsigned_short(buf, i) == LET v == get_short(buf, i) IN IF v = Junk THEN v ELSE v % 65536

get_int_advanced(buf, i) == Unsigned(buf, i, 4)

get_string(buf, i, len) == IF len = 0 THEN Empty ELSE At(buf, i, len).t

\* memcpy(next_bytes, &buf[i], len)
Cut(buf, i, len) ==
  LET inside == { j \in DOMAIN buf.at : j >= i /\ j + buf.at[j].w <= i + len }
  IN  [ size |-> len, at |-> [ j \in { k - i : k \in inside } |-> buf.at[j + i] ] ]
=============================================================================
