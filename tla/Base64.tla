-------------------------------- MODULE Base64 --------------------------------
(***************************************************************************)
(* The two base64 codecs of the repository: common/base64.c, with lines,   *)
(* separators and optional padding, and the pair of common/tools.cc.       *)
(* Bytes and characters are their codes.  The behaviours grow one source   *)
(* buffer byte by byte, and the property is about every buffer on the way. *)
(***************************************************************************)
EXTENDS Integers, SequencesExt

CONSTANTS Bytes,        \* the bytes that buffers are made of
          MaxBytes,     \* bound: length of a buffer
          LineLengths, LineSeparators

(* What is assumed of the constants. *)
Base64Assumption == /\ Bytes \subseteq 0..255 /\ MaxBytes \in Nat
                    /\ LineLengths \subseteq Nat

VARIABLE src

(* count copies of the character ch. *)
Repeat(ch, count) == [i \in 1..count |-> ch]

-----------------------------------------------------------------------------
(* common/base64.c *)

IGNORE == -1
PAD    == -2

(* The context; the two tables follow from its three characters. *)
base64_init_ex(nLineLength, chPlus, chSplash, chPad) ==
    [line_length |-> nLineLength, line_separator |-> <<10>>,
     valueToChar |-> [v \in 0..63 |-> CASE v <= 25 -> 65 + v
                                        [] v \in 26..51 -> 97 + v - 26
                                        [] v \in 52..61 -> 48 + v - 52
                                        [] v = 62 -> chPlus
                                        [] OTHER -> chSplash],
     pad_ch |-> chPad]

charToValue(context, ch) ==
    IF ch = context.pad_ch THEN PAD
    ELSE LET of == {v \in 0..63 : context.valueToChar[v] = ch}
         IN  IF of = {} THEN IGNORE ELSE CHOOSE v \in of : TRUE

base64_init(nLineLength) == base64_init_ex(nLineLength, 43, 47, 61)

base64_set_line_length(context, length) ==
    [context EXCEPT !.line_length = (length \div 4) * 4]

base64_set_line_separator(context, separator) ==
    [context EXCEPT !.line_separator = separator]

\* Mutant: the last, partial line is not counted.
encode_length_floor(context, nSrcLen) ==
    LET chars == ((nSrcLen + 2) \div 3) * 4
        lines == IF context.line_length = 0 THEN 0
                 ELSE chars \div context.line_length - 1
    IN  IF lines > 0 THEN chars + lines * Len(context.line_separator) ELSE chars

(* Four characters for a group of three bytes, and a separator after all   *)
(* lines but the last.                                                     *)
base64_get_encode_length(context, nSrcLen) ==
    LET chars == ((nSrcLen + 2) \div 3) * 4
        lines == IF context.line_length = 0 THEN 0
                 ELSE (chars + context.line_length - 1) \div context.line_length - 1
    IN  IF lines > 0 THEN chars + lines * Len(context.line_separator) ELSE chars

(* The four values of six bits in the three bytes from position i + 1 on. *)
Sextets(bytes, i) ==
    LET combined == bytes[i + 1] * 65536 + bytes[i + 2] * 256 + bytes[i + 3]
    IN  <<combined \div 262144, (combined \div 4096) % 64, (combined \div 64) % 64,
          combined % 64>>

(* The group at position i, on a line of its own when it does not fit. *)
EncodeGroup(context, bytes, out, i) ==
    LET full  == out.linePos + 4 > context.line_length
        break == IF full /\ context.line_length # 0 THEN context.line_separator ELSE <<>>
        four  == [k \in 1..4 |-> context.valueToChar[Sextets(bytes, i)[k]]]
    IN  [linePos |-> IF full THEN 4 ELSE out.linePos + 4,
         text |-> out.text \o break \o four]

base64_encode_ex(context, bytes, bPad) ==
    LET spare == (3 - (Len(bytes) % 3)) % 3
        raw   == bytes \o Repeat(0, spare)
        out   == FoldLeft(LAMBDA o, g : EncodeGroup(context, raw, o, 3 * (g - 1)),
                          [linePos |-> 0, text |-> <<>>],
                          [g \in 1..(Len(raw) \div 3) |-> g]).text
    IN  SubSeq(out, 1, Len(out) - spare)
        \o (IF bPad THEN Repeat(context.pad_ch, spare) ELSE <<>>)

(* A character that is none of the alphabet is skipped; every fourth one   *)
(* completes three bytes.                                                  *)
DecodeChar(context, s, ch) ==
    LET value    == charToValue(context, ch)
        combined == (IF s.cycle = 0 THEN 0 ELSE s.combined * 64)
                    + (IF value = PAD THEN 0 ELSE value)
    IN  IF value = IGNORE THEN s
        ELSE [cycle |-> (s.cycle + 1) % 4, combined |-> combined,
              dummies |-> IF value = PAD THEN s.dummies + 1 ELSE s.dummies,
              out |-> IF s.cycle < 3 THEN s.out
                      ELSE s.out \o <<combined \div 65536, (combined \div 256) % 256,
                                      combined % 256>>]

base64_decode(context, text) ==
    LET s == FoldLeft(LAMBDA st, ch : DecodeChar(context, st, ch),
                      [cycle |-> 0, combined |-> 0, dummies |-> 0, out |-> <<>>], text)
    IN  IF s.cycle # 0 THEN <<>> ELSE SubSeq(s.out, 1, Len(s.out) - s.dummies)

(* The padding is completed by the length of the text, separators included. *)
base64_decode_auto(context, text) ==
    base64_decode(context, text \o Repeat(context.pad_ch, (4 - (Len(text) % 4)) % 4))

-----------------------------------------------------------------------------
(* common/tools.cc *)

base64_chars == base64_init(0).valueToChar

(* Whole groups, then the one that is left: with one character more than   *)
(* bytes are left, and = for the rest.                                     *)
_bast64_encode(s) ==
    LET i    == Len(s) % 3
        raw  == IF i = 0 THEN s ELSE s \o Repeat(0, 3 - i)
        Four(g) == [k \in 1..4 |-> base64_chars[Sextets(raw, 3 * (g - 1))[k]]]
        Group(g) == IF i # 0 /\ 3 * g > Len(s)
                    THEN SubSeq(Four(g), 1, i + 1) \o Repeat(61, 3 - i)
                    ELSE Four(g)
    IN  FlattenSeq([g \in 1..(Len(raw) \div 3) |-> Group(g)])

(* val is an int that wraps; only its low 12 bits are ever looked at.      *)
(* The first character that is none of the alphabet ends the text.         *)
_bast64_decode(in) ==
    LET T(ch) == charToValue(base64_init(0), ch)
        Step(s, ch) ==
            LET val == (s.val * 64 + T(ch)) % 4096
            IN  IF s.ended \/ T(ch) < 0 THEN [s EXCEPT !.ended = TRUE]
                ELSE IF s.valb + 6 >= 0
                THEN [s EXCEPT !.val = val, !.valb = s.valb - 2,
                      !.out = Append(@, (val \div 2^(s.valb + 6)) % 256)]
                ELSE [s EXCEPT !.val = val, !.valb = s.valb + 6]
    IN  FoldLeft(Step, [val |-> 0, valb |-> -8, ended |-> FALSE, out |-> <<>>], in).out

-----------------------------------------------------------------------------
Init == src = <<>>

AddByte == \E b \in Bytes : Len(src) < MaxBytes /\ src' = Append(src, b)

Next == AddByte

(* The contexts a caller can set up: base64_init keeps any line length,    *)
(* base64_set_line_length rounds it.                                       *)
Contexts ==
    {base64_set_line_separator(context, sep) :
       sep \in LineSeparators,
       context \in UNION {{base64_init(n), base64_set_line_length(base64_init(0), n)} :
                            n \in LineLengths}}

(* What base64_get_encode_length computes is the length of the text when a *)
(* line is a multiple of 4 characters.  The encoder never splits a group,  *)
(* so the text is what is computed for the line rounded down to one; for   *)
(* the line as it is, which base64_init accepts, the computation may give  *)
(* less (13 for 7 bytes in lines of 6, where 14 are written).              *)
LengthKnown(context) ==
    LET length  == Len(base64_encode_ex(context, src, TRUE))
        rounded == base64_set_line_length(context, context.line_length)
    IN  IF context.line_length \in 1..3
        THEN length <= base64_get_encode_length(context, Len(src))
        ELSE length = base64_get_encode_length(rounded, Len(src))

(* What is encoded is decoded to the same bytes: by base64_decode whenever *)
(* it is padded, by base64_decode_auto also when it is not, but then only  *)
(* without line breaks.  The text has the length that the caller makes     *)
(* room for by base64_get_encode_length, if lines are a multiple of 4      *)
(* characters, and otherwise that of such lines.  The codec of tools.cc    *)
(* writes the same text and reads it.                                      *)
RoundTrips ==
    /\ \A context \in Contexts :
         LET padded == base64_encode_ex(context, src, TRUE)
             plain  == base64_encode_ex(context, src, FALSE)
         IN  /\ base64_decode(context, padded) = src
             /\ LengthKnown(context)
             /\ context.line_length = 0 =>
                  /\ base64_decode_auto(context, padded) = src
                  /\ base64_decode_auto(context, plain) = src
                  /\ padded = _bast64_encode(src)
    /\ _bast64_decode(_bast64_encode(src)) = src
=============================================================================
