----------------------------- MODULE CoapCodec -----------------------------
(***************************************************************************)
(* coap/coap_parser.c and coap_encode_and_fire.  Layout is the reference:  *)
(* how RFC 7252 lays a message out.  A code is the three digits c.dd that  *)
(* the parser works with: GET is 1, PUT is 3, and so are they for the      *)
(* client.  A text of an option is at most 254 bytes long when sent and    *)
(* 140 when read.                                                          *)
(***************************************************************************)
EXTENDS Wire

Types == [ CON |-> 0, NON |-> 1, ACK |-> 2, RST |-> 3 ]
Codes == [ GET |-> 1, POST |-> 2, PUT |-> 3 ]
Numbers == [ OBSERVE |-> 6, URI_PATH |-> 11, ACCEPT |-> 17, NODE_ID |-> 2050 ]

Option(number, value) == [ number |-> number, value |-> value ]

\* the number of the option before the k-th
Before(options, k) == IF k = 1 THEN 0 ELSE options[k - 1].number

-----------------------------------------------------------------------------
(* Reference: the layout of RFC 7252, section 3.                           *)

Nibble(v) == IF v < 13 THEN v ELSE IF v < 269 THEN 13 ELSE 14

Extension(v) == IF v < 13 THEN << >> ELSE IF v < 269 THEN << Byte(v - 13) >> ELSE << add_short(v - 269) >>

OptionLayout(options) ==
  FlattenSeq([ k \in DOMAIN options |->
    LET delta == options[k].number - Before(options, k)
        value == options[k].value
    IN  << Byte(16 * Nibble(delta) + Nibble(value.len)) >>
          \o Extension(delta) \o Extension(value.len) \o Chars(value) ])

\* `marker': whether 0xFF stands before an empty payload, too
Layout(m, marker) ==
  << Byte(64 + 16 * Types[m.type] + m.token.len),
     Byte(32 * (m.code \div 100) + (m.code % 100)), add_short(m.id) >>
    \o Chars(m.token) \o OptionLayout(m.options)
    \o (IF marker \/ m.payload.len > 0 THEN << Byte(255) >> ELSE << >>) \o Chars(m.payload)

-----------------------------------------------------------------------------
(* coap_encode.                                                            *)

\* the bytes coap_encode allocates
buf_size(m) == 256 + (IF m.code = Codes["PUT"] /\ m.id > 0 THEN m.payload.len ELSE 0)

\* the parts of a delta or a length: 255 .. 268 have a negative extension
nibble(v) == IF v < 13 THEN v ELSE IF v < 255 THEN 13 ELSE 14

extended(v) == IF v < 13 THEN << >> ELSE IF v < 255 THEN << Byte(v - 13) >> ELSE << add_short(v - 269) >>

encode_option(options, k) ==
  LET delta == options[k].number - Before(options, k)
      length == options[k].value.len
  IN  << Byte(16 * nibble(delta) + nibble(length)) >> \o extended(delta) \o extended(length)
        \o Chars(options[k].value)

coap_encode(m) ==
  << Byte(64 + 16 * Types[m.type] + m.token.len),
     Byte(32 * (m.code \div 100) + (m.code % 100)), add_short(m.id) >>
    \o Chars(m.token)
    \o FlattenSeq([ k \in DOMAIN m.options |-> encode_option(m.options, k) ])
    \o << Byte(255) >> \o Chars(m.payload)

coap_encode_and_fire(m) == [ buf |-> coap_encode(m), fired |-> Size(coap_encode(m)) ]

-----------------------------------------------------------------------------
(* coap_decode.                                                            *)

\* the two parts of an option header: 13 adds a char, 14 a short
Delta(buf, j, part) == CASE part = 13 -> get_byte(buf, j) + 13
                         [] part = 14 -> get_short(buf, j) + 269
                         [] OTHER -> part

\* the offset is not moved behind the short of a length
decode_option(buf, j, number) ==
  LET next_byte == Unsigned(buf, j, 1)
      delta == next_byte \div 16
      part == next_byte % 16
      length_at == j + 1 + (IF delta = 13 THEN 1 ELSE IF delta = 14 THEN 2 ELSE 0)
      length == Delta(buf, length_at, part)
      value_at == length_at + (IF part = 13 THEN 1 ELSE 0)
  IN  [ option |-> Option(number + Delta(buf, j + 1, delta), get_string(buf, value_at, length)),
        next |-> value_at + length ]

\* the options from offset j on, and the offset behind the last one
decode_options(buf, start) ==
  LET read[j \in Nat, number \in Nat] ==
        IF j >= buf.size \/ Unsigned(buf, j, 1) = 255 THEN [ options |-> << >>, i |-> j ]
        ELSE LET o == decode_option(buf, j, number)
                 rest == read[o.next, o.option.number]
             IN  [ options |-> << o.option >> \o rest.options, i |-> rest.i ]
  IN  read[start, 0]

\* what stands behind the marker; the payload of a message that has none is not set
decode_payload(buf, i) == IF buf.size - i > 1 THEN get_string(buf, i + 1, buf.size - i - 1)
                          ELSE JunkText

\* type & 2; an invalid version or token length is refused
coap_decode(buf) ==
  LET first_byte == Unsigned(buf, 0, 1)
      token_length == first_byte % 16
      code_byte == get_byte(buf, 1)
      opts == decode_options(buf, 4 + token_length)
  IN  IF first_byte \div 64 # 1 \/ token_length > 8 THEN [ type |-> "refused" ]
      ELSE [ type |-> IF (first_byte \div 32) % 2 = 1 THEN "ACK" ELSE "CON",
             code |-> (code_byte \div 32) * 100 + (code_byte % 32),
             id |-> get_unsigned_short(buf, 2),
             token |-> get_string(buf, 4, token_length),
             options |-> opts.options,
             payload |-> decode_payload(buf, opts.i) ]
=============================================================================
