----------------------------- MODULE AmqpCodec -----------------------------
(***************************************************************************)
(* amqp/amqp_parser.c, amqp_calc.c, header_factory.c, tlv_factory.c, the   *)
(* wrappers and amqp_data_received.  Layout is the reference: how AMQP 1.0 *)
(* lays a frame out.  A frame has a sequence of values, the unset ones     *)
(* Null, and a transfer one DATA section.  The arguments that this client  *)
(* neither sets nor uses keep their place: maps, lists of symbols, errors  *)
(* and FLOW are not modelled.                                              *)
(***************************************************************************)
EXTENDS Wire

Code == [ OPEN |-> 16, BEGIN |-> 17, ATTACH |-> 18, TRANSFER |-> 20, DISPOSITION |-> 21,
          DETACH |-> 22, END |-> 23, CLOSE |-> 24, MECHANISMS |-> 64, INIT |-> 65, OUTCOME |-> 68 ]

Sasl == { "MECHANISMS", "INIT", "OUTCOME" }
ERROR == 29
SOURCE == 40
TARGET == 41
DATA == 117

\* enum AmqpType
AMQP_NULL == 64
BOOLEAN_TRUE == 65
BOOLEAN_FALSE == 66
UINT_0 == 67
LIST_0 == 69
UBYTE == 80
SMALL_UINT == 82
SMALL_ULONG == 83
USHORT == 96
UINT == 112
BINARY_8 == 160
BINARY_32 == 176
STRING_8 == 161
STRING_32 == 177
SYMBOL_8 == 163
SYMBOL_32 == 179
LIST_8 == 192
LIST_32 == 208
ARRAY_8 == 224

\* values: of kind k, a number, a text, the members of a list
Value(k, n, t, l) == [ k |-> k, n |-> n, t |-> t, l |-> l ]
Null == Value("null", 0, Empty, << >>)
Bool(n) == Value("bool", n, Empty, << >>)
Ubyte(n) == Value("ubyte", n, Empty, << >>)
Ushort(n) == Value("ushort", n, Empty, << >>)
Uint(n) == Value("uint", n, Empty, << >>)
Str(t) == Value("string", 0, t, << >>)
Sym(t) == Value("symbol", 0, t, << >>)
Bin(t) == Value("binary", 0, t, << >>)
OneSym(t) == Value("array", 0, t, << >>)
List(code, l) == Value("list", code, Empty, l)

AMQP == add_int(1095586128)
NoData == JunkText

-----------------------------------------------------------------------------
(* Reference: the layout of AMQP 1.0.                                      *)

Sized(short, long, t) ==
  (IF t.len < 256 THEN << Byte(short), Byte(t.len) >> ELSE << Byte(long), add_int(t.len) >>) \o Chars(t)

Plain(v) ==
  CASE v.k = "null" -> << Byte(64) >>
    [] v.k = "bool" -> << Byte(IF v.n = 1 THEN 65 ELSE 66) >>
    [] v.k = "ubyte" -> << Byte(80), Byte(v.n) >>
    [] v.k = "ushort" -> << Byte(96), add_short(v.n) >>
    [] v.k = "uint" -> IF v.n = 0 THEN << Byte(67) >>
                       ELSE IF v.n < 256 THEN << Byte(82), Byte(v.n) >>
                       ELSE << Byte(112), add_int(v.n) >>
    [] v.k = "string" -> Sized(161, 177, v.t)
    [] v.k = "symbol" -> Sized(163, 179, v.t)
    [] v.k = "binary" -> Sized(160, 176, v.t)
    [] v.k = "array" -> << Byte(224), Byte(v.t.len + 3), Byte(1), Byte(163), Byte(v.t.len) >> \o Chars(v.t)

\* The size of a list counts the bytes of its count: `lacks' is what the code
\* leaves out of it.
Members(code, parts, lacks) ==
  LET body == FlattenSeq(parts)
  IN  << Byte(0), Byte(83), Byte(code) >> \o
      (IF parts = << >> THEN << Byte(69) >>
       ELSE IF Size(body) + 1 - lacks < 256
       THEN << Byte(192), Byte(Size(body) + 1 - lacks), Byte(Len(parts)) >> \o body
       ELSE << Byte(208), add_int(Size(body) + 4 - lacks), add_int(Len(parts)) >> \o body)

Nested(v, lacks) == IF v.k = "list" THEN Members(v.n, [ k \in DOMAIN v.l |-> Plain(v.l[k]) ], lacks)
                    ELSE Plain(v)

Layout(f, lacks) ==
  LET list == Members(Code[f.type], [ k \in DOMAIN f.args |-> Nested(f.args[k], lacks) ], lacks)
      section == IF f.type # "TRANSFER" THEN << >>
                 ELSE << Byte(0), Byte(83), Byte(117) >> \o Sized(160, 176, f.data)
  IN  CASE f.type = "PROTO" -> << AMQP, Byte(f.args[1].n), Byte(1), add_short(0) >>
        [] f.type = "PING" -> << add_int(8), Byte(2), Byte(0), add_short(f.channel) >>
        [] OTHER -> << add_int(8 + Size(list \o section)), Byte(2), Byte(IF f.type \in Sasl THEN 1 ELSE 0),
                       add_short(f.channel) >> \o list \o section

-----------------------------------------------------------------------------
(* Wrapping: a value becomes bytes.                                        *)

\* the four bytes of the length of a long text are not reversed
little_int(v) == << Byte(v), Byte(v \div 256), Byte(v \div 65536), Byte(v \div 16777216) >>

init_tlv_variable(code, t) ==
  << Byte(code) >> \o (IF t.len > 255 THEN little_int(t.len) ELSE << Byte(t.len) >>) \o Chars(t)

wrap_string(t) == init_tlv_variable(IF t.len > 255 THEN STRING_32 ELSE STRING_8, t)
wrap_symbol(t) == init_tlv_variable(IF t.len > 255 THEN SYMBOL_32 ELSE SYMBOL_8, t)
wrap_binary(t) == init_tlv_variable(IF t.len > 255 THEN BINARY_32 ELSE BINARY_8, t)
wrap_bool(n) == << Byte(IF n # 0 THEN BOOLEAN_TRUE ELSE BOOLEAN_FALSE) >>

\* wrap_long of a value that is not negative
wrap_uint(n) == IF n = 0 THEN << Byte(UINT_0) >>
                ELSE IF n <= 255 THEN << Byte(SMALL_UINT), Byte(n) >>
                ELSE << Byte(UINT), add_int(n) >>

wrap_ubyte(n) == << Byte(UBYTE), Byte(n) >>

\* wrap_int of a value that is not negative: not reversed
wrap_ushort(n) == << Byte(USHORT), Byte(n), Byte(n \div 256) >>

wrap_state(v) == << Byte(0), Byte(SMALL_ULONG), Byte(v.n), Byte(LIST_0) >>

\* calculate_bytes and get_bytes: `size' without the bytes of the count
calculate_bytes(header_code, count, size, bytes) ==
  << Byte(0), Byte(SMALL_ULONG), Byte(header_code) >> \o
  (IF size > 255 THEN << Byte(LIST_32), add_int(size + 3), add_int(count) >>
   ELSE << Byte(LIST_8), Byte(size), Byte(count) >>) \o bytes

\* the last argument that is set; those before it that are not are AMQP_NULL
Count(args) == Max({ k \in DOMAIN args : args[k] # Null })

\* `wrapped': the bytes of each argument
wrap_args(code, args, wrapped) ==
  LET bytes == FlattenSeq(SubSeq(wrapped, 1, Count(args)))
  IN  calculate_bytes(code, Count(args), Size(bytes), bytes)

wrap_plain(kind, v) ==
  CASE v = Null -> << Byte(AMQP_NULL) >>
    [] kind = "string" -> wrap_string(v.t)
    [] kind = "symbol" -> wrap_symbol(v.t)
    [] kind = "binary" -> wrap_binary(v.t)
    [] kind = "bool" -> wrap_bool(v.n)
    [] kind = "long" -> wrap_uint(v.n)
    [] kind = "short" -> wrap_ubyte(v.n)
    [] kind = "int" -> wrap_ushort(v.n)
    [] kind = "state" -> wrap_state(v)

\* what each argument is wrapped as; "-": not implemented, never set
source_args == << "string", "long", "symbol", "long", "bool", "-", "-", "-", "-", "-", "-" >>
target_args == << "string", "long", "symbol", "long", "bool", "-", "-" >>

wrap_amqp_source(v) ==
  wrap_args(SOURCE, v.l, [ k \in DOMAIN v.l |-> wrap_plain(source_args[k], v.l[k]) ])
wrap_amqp_target(v) ==
  wrap_args(TARGET, v.l, [ k \in DOMAIN v.l |-> wrap_plain(target_args[k], v.l[k]) ])

wrap(kind, v) == CASE kind = "source" /\ v # Null -> wrap_amqp_source(v)
                   [] kind = "target" /\ v # Null -> wrap_amqp_target(v)
                   [] OTHER -> wrap_plain(kind, v)

-----------------------------------------------------------------------------
(* Encoding.                                                               *)

sasl_init_args == << "symbol", "binary", "string" >>
open_args == << "string", "string", "long", "int", "long" >>
begin_args == << "int", "long", "long", "long", "long", "-", "-", "-" >>
attach_link_args == << "string", "long", "bool", "short", "short", "source", "target" >>
attach_args == attach_link_args \o << "-", "int", "long", "long", "-", "-", "-" >>
transfer_args == << "long", "long", "binary", "long", "bool", "bool", "short", "state",
                    "bool", "-", "bool" >>
disposition_args == << "bool", "long", "long", "bool", "state", "bool" >>
detach_args == << "long", "bool", "-" >>

add_arguments(f) ==
  LET args == CASE f.type = "INIT" -> sasl_init_args
                [] f.type = "OPEN" -> open_args
                [] f.type = "BEGIN" -> begin_args
                [] f.type = "ATTACH" -> attach_args
                [] f.type = "TRANSFER" -> transfer_args
                [] f.type = "DISPOSITION" -> disposition_args
                [] f.type = "DETACH" -> detach_args
  IN  wrap_args(Code[f.type], f.args, [ k \in DOMAIN f.args |-> wrap(args[k], f.args[k]) ])

\* END and CLOSE have one null, in a list of size 2
end_arguments(f) == calculate_bytes(Code[f.type], 1, 2, << Byte(AMQP_NULL) >>)

add_section(data) ==
  << Byte(0), Byte(SMALL_ULONG), Byte(DATA) >>
    \o (IF data.len > 255 THEN << Byte(BINARY_32), add_int(data.len) >>
        ELSE << Byte(BINARY_8), Byte(data.len) >>)
    \o Chars(data)

amqp_encode(f) ==
  LET arguments == IF f.type \in { "END", "CLOSE" } THEN end_arguments(f) ELSE add_arguments(f)
      sections == IF f.type = "TRANSFER" THEN add_section(f.data) ELSE << >>
  IN  CASE f.type = "PROTO" -> << AMQP, Byte(f.args[1].n), Byte(1), add_short(0) >>
        [] f.type = "PING" -> << add_int(8), Byte(2), Byte(0), add_short(f.channel) >>
        [] OTHER -> << add_int(8 + Size(arguments) + Size(sections)), Byte(2),
                       Byte(IF f.type = "INIT" THEN 1 ELSE 0), add_short(f.channel) >>
                      \o arguments \o sections

amqp_encode_and_fire(f) == [ buf |-> amqp_encode(f), fired |-> Size(amqp_encode(f)) ]
-----------------------------------------------------------------------------
(* Decoding: the elements of a buffer.                                     *)

Fixed8 == { UBYTE, SMALL_UINT, SMALL_ULONG }
Variable8 == { STRING_8, SYMBOL_8, BINARY_8 }
Variable32 == { STRING_32, SYMBOL_32, BINARY_32 }

\* a described element has 0, a small ulong and the code of the element
get_constructor(buf, i) ==
  IF Unsigned(buf, i, 1) = 0
  THEN [ code |-> Unsigned(buf, i + 3, 1), desc |-> Unsigned(buf, i + 2, 1), i |-> i + 4 ]
  ELSE [ code |-> Unsigned(buf, i, 1), desc |-> -1, i |-> i + 1 ]

\* The offset behind an element that is not a list: the 8-bit lengths are
\* chars, the sizes of lists and arrays are read and not used.
element_end(buf, c) ==
  CASE c.code \in Fixed8 -> c.i + 1
    [] c.code = USHORT -> c.i + 2
    [] c.code = UINT -> c.i + 4
    [] c.code \in Variable8 -> c.i + 1 + get_byte(buf, c.i)
    [] c.code \in Variable32 -> c.i + 4 + get_int_advanced(buf, c.i)
    [] c.code = ARRAY_8 -> c.i + 4 + get_byte(buf, c.i + 3)
    [] OTHER -> c.i

\* value_array is unsigned; the length of a UINT is set to 1, so that
\* unwrap_uint takes its first byte
element_number(buf, c) ==
  CASE c.code \in Fixed8 -> Unsigned(buf, c.i, 1)
    [] c.code = USHORT -> get_short(buf, c.i)
    [] c.code = UINT -> get_int_advanced(buf, c.i) \div 16777216
    [] OTHER -> 0

\* of an array the one symbol it has
element_text(buf, c) ==
  CASE c.code \in Variable8 -> get_string(buf, c.i + 1, get_byte(buf, c.i))
    [] c.code \in Variable32 -> get_string(buf, c.i + 4, get_int_advanced(buf, c.i))
    [] c.code = ARRAY_8 -> get_string(buf, c.i + 4, get_byte(buf, c.i + 3))
    [] OTHER -> Empty

\* get_element: `count' elements from offset i on, and the offset behind them;
\* the members of a LIST_32 are read and lost
get_elements(buf, start, number) ==
  LET get[i \in Int, count \in Int] ==
        IF count <= 0 THEN [ l |-> << >>, i |-> i ]
        ELSE With(get_constructor(buf, i), LAMBDA c :
             With(CASE c.code = LIST_8 -> get[c.i + 2, get_byte(buf, c.i + 1)]
                    [] c.code = LIST_32 -> [ get[c.i + 8, get_int_advanced(buf, c.i + 4)] EXCEPT !.l = << >> ]
                    [] OTHER -> [ l |-> << >>, i |-> element_end(buf, c) ], LAMBDA members :
             With(get[members.i, count - 1], LAMBDA rest :
               [ i |-> rest.i,
                 l |-> << [ code |-> c.code, desc |-> c.desc, n |-> element_number(buf, c),
                            t |-> element_text(buf, c), l |-> members.l ] >> \o rest.l ])))
  IN  get[start, number]

get_tlv(buf, i) == With(get_elements(buf, i, 1), LAMBDA e : [ tlv |-> e.l[1], i |-> e.i ])

\* wrappers/unwrapper.c: NULL for a code of another type
unwrap_string(e) == IF e.code \in { STRING_8, STRING_32 } THEN Str(e.t) ELSE Null
unwrap_binary(e) == IF e.code \in { BINARY_8, BINARY_32 } THEN Bin(e.t) ELSE Null
unwrap_symbol(e) == IF e.code \in { SYMBOL_8, SYMBOL_32 } THEN Sym(e.t) ELSE Null
unwrap_ubyte(e) == IF e.code = UBYTE THEN Ubyte(e.n) ELSE Null
unwrap_ushort(e) == IF e.code = USHORT THEN Ushort(e.n) ELSE Null
unwrap_uint(e) == IF e.code \in { UINT, SMALL_UINT, UINT_0 } THEN Uint(e.n) ELSE Null
unwrap_bool(e) == IF e.code \in { BOOLEAN_TRUE, BOOLEAN_FALSE }
                  THEN Bool(IF e.code = BOOLEAN_TRUE THEN 1 ELSE 0) ELSE Null

unwrap_plain(kind, e) ==
  CASE e.code = AMQP_NULL \/ kind = "-" -> Null
    [] kind = "string" -> unwrap_string(e)
    [] kind = "binary" -> unwrap_binary(e)
    [] kind = "symbol" -> unwrap_symbol(e)
    [] kind = "ubyte" -> unwrap_ubyte(e)
    [] kind = "ushort" -> unwrap_ushort(e)
    [] kind = "uint" -> unwrap_uint(e)
    [] kind = "bool" -> unwrap_bool(e)
    [] kind = "array" -> OneSym(e.t)
    [] kind = "state" -> List(e.desc, << >>)

-----------------------------------------------------------------------------
(* Decoding: header_factory.c.  "-": read and not kept, or not modelled.   *)

mechanisms_fields == << "array" >>
\* the additional data is taken from the code
outcome_fields == << "ubyte", "-" >>
open_fields == << "string", "string", "uint", "ushort", "uint", "-", "-", "-", "-", "-" >>
begin_fields == << "ushort", "uint", "uint", "uint", "uint", "-", "-", "-" >>
source_fields == << "string", "uint", "symbol", "uint", "bool", "-", "symbol", "-", "-", "-", "-" >>
attach_link_fields == << "string", "uint", "bool", "ubyte", "ubyte", "source" >>
\* the target is read and dropped
attach_fields == attach_link_fields \o << "-", "-", "bool", "uint", "-", "-", "-", "-" >>
transfer_fields == << "uint", "uint", "binary", "uint", "bool", "bool", "ubyte", "state",
                      "bool", "bool", "bool" >>
disposition_fields == << "bool", "uint", "uint", "bool", "state", "bool" >>
\* the error is looked for in `closed'
detach_fields == << "uint", "bool", "-" >>

Field(fields, k) == IF k > Len(fields) THEN "-" ELSE fields[k]

get_source(e) == IF e.code = AMQP_NULL THEN Null
                 ELSE List(SOURCE, [ k \in DOMAIN e.l |-> unwrap_plain(Field(source_fields, k), e.l[k]) ])

unwrap(kind, e) == IF kind = "source" THEN get_source(e) ELSE unwrap_plain(kind, e)

\* a malformed header keeps a packet that is not set
init_header(type, l) ==
  LET fields == CASE type = "MECHANISMS" -> mechanisms_fields
                  [] type = "OUTCOME" -> outcome_fields
                  [] type = "OPEN" -> open_fields
                  [] type = "BEGIN" -> begin_fields
                  [] type = "ATTACH" -> attach_fields
                  [] type = "TRANSFER" -> transfer_fields
                  [] type = "DISPOSITION" -> disposition_fields
                  [] type = "DETACH" -> detach_fields
                  [] OTHER -> << >>
  IN  IF type = "DETACH" /\ Len(l) > 2 /\ l[2].code # AMQP_NULL THEN << >>
      ELSE [ k \in DOMAIN l |-> unwrap(Field(fields, k), l[k]) ]

\* the data of a DATA section, the only one that is read
get_section(buf, i) == unwrap_binary(get_tlv(buf, i).tlv).t

TypeOf(code) == IF \E t \in DOMAIN Code : Code[t] = code
                THEN CHOOSE t \in DOMAIN Code : Code[t] = code ELSE "unset"

NoPacket(type) == [ type |-> type, channel |-> 0, args |-> << >>, data |-> NoData ]

\* get_amqp, get_sasl and the sections of a transfer
get_frame(buf, list) ==
  LET type == TypeOf(list.tlv.desc)
  IN  [ type |-> type, channel |-> get_short(buf, 6), args |-> init_header(type, list.tlv.l),
        data |-> IF type = "TRANSFER" /\ list.i < buf.size THEN get_section(buf, list.i) ELSE NoData ]

\* the code of a ping is not set
amqp_decode(buf) ==
  LET length == get_int_advanced(buf, 0)
      type == Unsigned(buf, 5, 1)
  IN  CASE length = 8 /\ type \in { 0, 1 } /\ get_short(buf, 6) = 0 -> NoPacket("unset")
        [] length = AMQP.n -> [ NoPacket("PROTO") EXCEPT !.args = << Ubyte(Unsigned(buf, 4, 1)) >> ]
        [] length # buf.size \/ type > 1 -> NoPacket("malformed")
        [] OTHER -> With(get_tlv(buf, 8), LAMBDA list : get_frame(buf, list))

\* the frames of a read, as given to process_amqp_rx; a protocol header may
\* have the mechanisms behind it
amqp_data_received(buf) ==
  LET split[i \in 0 .. buf.size] ==
        With(get_int_advanced(buf, i), LAMBDA length :
          << Cut(buf, i, length) >>
            \o (IF i + length < buf.size THEN split[i + length] ELSE << >>))
  IN  IF get_int_advanced(buf, 0) # AMQP.n THEN split[0]
      ELSE IF buf.size > 8 THEN << Cut(buf, 0, 8), Cut(buf, 8, buf.size - 8) >>
      ELSE << buf >>
=============================================================================
