-------------------------------- MODULE Wbxml --------------------------------
(***************************************************************************)
(* wbxml/decoder.rs, encoder.rs and token.rs: a document is a sequence of  *)
(* nodes, and what is sent is a sequence of bytes.  The decoder reads a    *)
(* byte at a time; Step says what it makes of the next one.                *)
(***************************************************************************)
EXTENDS Integers, Sequences

CONSTANTS
  MAX_NESTING,  \* elements open at the same time
  MAX_TOKENS,   \* tokens of a document
  Word          \* multi-byte integers are below it

ASSUME LimitsAssumption == MAX_NESTING \in Nat /\ MAX_TOKENS \in Nat
\* The header's integers are below it too.
ASSUME WordAssumption == Word \in Nat /\ Word > 106

SWITCH_PAGE == 0
END         == 1
STR_I       == 3
OPAQUE      == 195

Header == <<3, 1, 106, 0>>

\* A tag is a code page and a token of it.
Start(tag, content) == [node |-> "start", tag |-> tag, content |-> content]
End                 == [node |-> "end"]
Text(s)             == [node |-> "text", data |-> s]
Opaque(s)           == [node |-> "opaque", data |-> s]

\* op on the elements a+1..b of s, from the state st.
Along(op(_, _), st, s, a, b) ==
  LET after[i \in a..b] == IF i = a THEN st ELSE op(after[i - 1], s[i]) IN after[b]

\* FoldLeft, sixteen elements at a time: a long sequence is not one recursion.
Through(op(_, _), base, s) ==
  LET upto[k \in 0..Len(s) \div 16] ==
        LET end == IF 16 * (k + 1) < Len(s) THEN 16 * (k + 1) ELSE Len(s) IN
        IF k = 0 THEN Along(op, base, s, 0, end)
        ELSE CHOOSE st \in {Along(op, before, s, 16 * k, end) : before \in {upto[k - 1]}} : TRUE
  IN  upto[Len(s) \div 16]

-----------------------------------------------------------------------------
(* Encoder *)

to_byte(start) == start.tag[2] + IF start.content THEN 64 ELSE 0

\* Mutant: the low bits come first.
low_bits_first(n) ==
  LET low[m \in 0..n] == IF m < 128 THEN <<m>> ELSE <<(m % 128) + 128>> \o low[m \div 128]
  IN  low[n]

\* Seven bits to a byte, and a flag on all but the last one.
write_mb_uint(n) ==
  LET high[m \in 0..n] == IF m = 0 THEN <<>> ELSE Append(high[m \div 128], (m % 128) + 128)
  IN  Append(high[n \div 128], n % 128)

\* Mutant: the pages count from 0 again after every switch.
switch_from_0(from, to) == IF to = 0 THEN <<>> ELSE <<SWITCH_PAGE, to>>

SwitchPage(from, to) == IF to = from THEN <<>> ELSE <<SWITCH_PAGE, to>>

WithoutNul(s) ==
  LET kept[n \in 0..Len(s)] ==
        IF n = 0 THEN <<>> ELSE IF s[n] = 0 THEN kept[n - 1] ELSE Append(kept[n - 1], s[n])
  IN  kept[Len(s)]

EncodeNode(st, n) ==
  CASE n.node = "start" ->
         [page |-> n.tag[1], out |-> st.out \o SwitchPage(st.page, n.tag[1]) \o <<to_byte(n)>>]
    [] n.node = "end"    -> [st EXCEPT !.out = Append(@, END)]
    [] n.node = "text"   -> [st EXCEPT !.out = @ \o <<STR_I>> \o WithoutNul(n.data) \o <<0>>]
    [] n.node = "opaque" ->
         [st EXCEPT !.out = @ \o <<OPAQUE>> \o write_mb_uint(Len(n.data)) \o n.data]

encode_document(doc) == Through(EncodeNode, [page |-> 0, out |-> Header], doc).out

-----------------------------------------------------------------------------
(* Decoder *)

Decoded(nodes) == [error |-> "none", nodes |-> nodes]
Fail(error)    == [error |-> error, nodes |-> <<>>]

\* What the decoder knows between two bytes: what it reads now, the integer or
\* the bytes read of it so far, how many are left, and its counters.
Reading == [error |-> "none", nodes |-> <<>>, mode |-> "version", num |-> 0, data |-> <<>>,
            left |-> 0, page |-> 0, depth |-> 0, count |-> 0]

Push(st, node) == [st EXCEPT !.nodes = Append(@, node), !.mode = "token", !.data = <<>>]

\* Two-byte characters are the longest ones of the model.
Utf8(s) ==
  \A i \in DOMAIN s :
    /\ s[i] < 224
    /\ s[i] \in 128..191 => i > 1 /\ s[i - 1] \in 194..223
    /\ s[i] >= 192 => s[i] >= 194 /\ i < Len(s) /\ s[i + 1] \in 128..191

\* An integer has been read: of the header, or the length of an opaque.
ReadUint(st, n) ==
  CASE st.mode = "public"  -> IF n = 1 THEN [st EXCEPT !.mode = "charset"] ELSE Fail("UnsupportedPublicId")
    [] st.mode = "charset" -> IF n = 106 THEN [st EXCEPT !.mode = "table"] ELSE Fail("UnsupportedCharset")
    [] st.mode = "table"   -> IF n = 0 THEN [st EXCEPT !.mode = "token"] ELSE Fail("StringTableUnsupported")
    [] st.mode = "length"  -> IF n = 0 THEN Push(st, Opaque(<<>>))
                                       ELSE [st EXCEPT !.mode = "opaque", !.left = n]

\* The high bits of an integer that is too long are shifted out.
mb_uint(st, b) ==
  LET n == (st.num * 128 + (b % 128)) % Word IN
  IF b >= 128 THEN [st EXCEPT !.num = n] ELSE ReadUint([st EXCEPT !.num = 0], n)

ReadStart(st, b) ==
  IF b >= 128 THEN Fail("AttributesUnsupported")
  ELSE IF b < 64 THEN Push(st, Start(<<st.page, b>>, FALSE))
  ELSE IF st.depth = MAX_NESTING THEN Fail("NestingLimit")
  ELSE Push([st EXCEPT !.depth = @ + 1], Start(<<st.page, b - 64>>, TRUE))

\* A switch of pages is a token too.  More ends than starts are let pass.
ReadToken(st, b) ==
  IF st.count = MAX_TOKENS THEN Fail("TokenLimit")
  ELSE LET s == [st EXCEPT !.count = @ + 1] IN
       CASE b = SWITCH_PAGE -> [s EXCEPT !.mode = "page"]
         [] b = END         -> Push([s EXCEPT !.depth = IF @ = 0 THEN 0 ELSE @ - 1], End)
         [] b = STR_I       -> [s EXCEPT !.mode = "string"]
         [] b = OPAQUE      -> [s EXCEPT !.mode = "length"]
         [] OTHER           -> ReadStart(s, b)

inline_string(st, b) ==
  IF b # 0 THEN [st EXCEPT !.data = Append(@, b)]
  ELSE IF Utf8(st.data) THEN Push(st, Text(st.data)) ELSE Fail("InvalidUtf8")

ReadOpaque(st, b) ==
  LET s == [st EXCEPT !.data = Append(@, b), !.left = @ - 1] IN
  IF s.left = 0 THEN Push(s, Opaque(s.data)) ELSE s

Step(st, b) ==
  CASE st.error # "none" -> st
    [] st.error = "none" ->
         CASE st.mode = "version" -> IF b = 3 THEN [st EXCEPT !.mode = "public"]
                                              ELSE Fail("UnsupportedVersion")
           [] st.mode \in {"public", "charset", "table", "length"} -> mb_uint(st, b)
           [] st.mode = "token"  -> ReadToken(st, b)
           [] st.mode = "page"   -> [st EXCEPT !.mode = "token", !.page = b]
           [] st.mode = "string" -> inline_string(st, b)
           [] st.mode = "opaque" -> ReadOpaque(st, b)

\* A document may end with elements open, but not within a token.
decode_document(bytes) ==
  LET st == Through(Step, Reading, bytes) IN
  IF st.error # "none" THEN st
  ELSE CASE st.mode = "token"   -> Decoded(st.nodes)
         [] st.mode = "version" -> Fail("Empty")
         [] OTHER               -> Fail("UnexpectedEof")

=============================================================================
