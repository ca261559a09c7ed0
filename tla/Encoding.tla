------------------------------ MODULE Encoding ------------------------------
(***************************************************************************)
(* The order-preserving encoding of values: order_preserving.cpp. A byte   *)
(* is a number up to Top, which stands for 0xff; an integer takes IntBytes *)
(* bytes. What throws in the code gives a result that is not ok.           *)
(***************************************************************************)
EXTENDS Rows

CONSTANTS
    Top,        \* the largest byte; at least 0, 1, 2, 0xfe and 0xff are apart
    IntBytes    \* the size of an INT_64

ASSUME EncodingConstants == Top \in Nat /\ Top >= 4 /\ IntBytes \in Nat \ {0}

Byte == 0 .. Top
Lead == Top - 1                     \* 0xfe

\* 2^(8n)
Pow(n) == LET p[i \in 0 .. n] == IF i = 0 THEN 1 ELSE (Top + 1) * p[i - 1] IN p[n]

Wrap == Pow(IntBytes)               \* 2^64
SIGN_BIT == Wrap \div 2

Int64 == -SIGN_BIT .. (Wrap - SIGN_BIT) - 1
Value == [type : {"INT_64"}, int64 : Int64] \cup [type : {"BYTES"}, str : Seq(Byte)]

\* The n bytes of u, the highest first.
BigEndian(n, u) == [i \in 1 .. n |-> (u \div Pow(n - i)) % (Top + 1)]

encode_int64(v) == BigEndian(IntBytes, (v + SIGN_BIT) % Wrap)

Escaped(c) == IF c <= 1 THEN <<1, c + 1>> ELSE <<c>>

escape_string(s) ==
    (IF s # <<>> /\ s[1] >= Lead THEN <<Lead>> ELSE <<>>)
        \o FlattenSeq([i \in DOMAIN s |-> Escaped(s[i])])

encode_bytes(s) == escape_string(s) \o <<0>>

encode_values(vals) ==
    FlattenSeq([i \in DOMAIN vals |->
        IF vals[i].type = "INT_64" THEN encode_int64(vals[i].int64) ELSE encode_bytes(vals[i].str)])

-----------------------------------------------------------------------------
(* Decoding. The state is [ok, pos, vals]: nothing thrown yet, the bytes     *)
(* read and the values they gave.                                            *)

Thrown == [ok |-> FALSE, pos |-> 0, vals |-> <<>>]

decode_int64(data, d) ==
    LET u[i \in 0 .. IntBytes] == IF i = 0 THEN 0 ELSE u[i - 1] * (Top + 1) + data[d.pos + i]
    IN  IF d.pos + IntBytes > Len(data) THEN Thrown
        ELSE [ok |-> TRUE, pos |-> d.pos + IntBytes,
              vals |-> Append(d.vals, make_int64(u[IntBytes] - SIGN_BIT))]

\* The bytes after the mark of a leading 0xfe or 0xff, one by one: esc says that
\* the last one was 0x01.
unescape_string(s) ==
    LET marked == s # <<>> /\ s[1] >= Lead
        bad == marked /\ (s[1] # Lead \/ Len(s) < 2 \/ (Len(s) >= 2 /\ s[2] < Lead))
        read(r, c) ==
            IF r.esc THEN [ok |-> r.ok /\ c \in {1, 2}, esc |-> FALSE, out |-> Append(r.out, c - 1)]
            ELSE IF c = 1 THEN [ok |-> r.ok, esc |-> TRUE, out |-> r.out]
            ELSE [ok |-> r.ok, esc |-> FALSE, out |-> Append(r.out, c)]
        first == IF marked THEN 1 ELSE 0
        after[i \in first .. Len(s)] ==
            IF i = first THEN [ok |-> ~bad, esc |-> FALSE, out |-> <<>>] ELSE read(after[i - 1], s[i])
        all == after[Len(s)]
    IN  [ok |-> all.ok /\ ~all.esc, out |-> all.out]

decode_bytes(data, d) ==
    LET ends == {p \in d.pos + 1 .. Len(data) : data[p] = 0}
        end == CHOOSE p \in ends : \A q \in ends : p <= q
        s == unescape_string(SubSeq(data, d.pos + 1, end - 1))
    IN  IF ends = {} THEN Thrown
        ELSE IF ~s.ok THEN Thrown
        ELSE [ok |-> TRUE, pos |-> end, vals |-> Append(d.vals, make_bytes(s.out))]

decode_values(data, types) ==
    LET read(d, type) ==
            IF ~d.ok THEN d
            ELSE IF type = "INT_64" THEN decode_int64(data, d) ELSE decode_bytes(data, d)
        after[i \in 0 .. Len(types)] ==
            IF i = 0 THEN [ok |-> TRUE, pos |-> 0, vals |-> <<>>] ELSE read(after[i - 1], types[i])
        all == after[Len(types)]
    IN  IF all.ok /\ all.pos = Len(data) THEN all ELSE Thrown
=============================================================================
